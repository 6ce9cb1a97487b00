-------------------------- MODULE ToolState_proofs --------------------------
(***************************************************************************)
(* Proofs about the state that outlives a tool call: the profile table     *)
(* (ProfileCache), for any number of threads and profiles, and what the    *)
(* editing tools keep (EditSession): the hook table, the bookmarks, an     *)
(* enum, breakpoints and patches, for calls of the tools in any order with *)
(* any arguments; and of what the server does with each request            *)
(* (RequestChecks), of any size, the sessions it keeps among it; and of     *)
(* the byte signatures it makes and the patterns it compiles               *)
(* (PatternChecks), for every image and every pattern; and of the graphs,  *)
(* profiles and surveys it draws of a database (GraphChecks), of any size.  *)
(***************************************************************************)
EXTENDS ToolInvariants, FiniteSetTheorems, SequenceTheorems, WellFoundedInduction, TLAPS

(***************************************************************************)
(* The profile table.                                                      *)
(***************************************************************************)
LEMMA InitIInv == Init => IInv
  BY ProfileCacheAssumption DEF Init, IInv, TypeOK, Filled, LoaderIsRight

(* One step of one thread keeps the invariant. *)
LEMMA NextIInv == IInv /\ [Next]_vars => IInv'
<1> SUFFICES ASSUME IInv, [Next]_vars PROVE IInv'
  OBVIOUS
<1> USE ProfileCacheAssumption DEF IInv, TypeOK, Filled, LoaderIsRight
<1>1. ASSUME NEW w \in Threads, Ask(w) PROVE IInv'
  BY <1>1 DEF Ask, Step
<1>2. ASSUME NEW w \in Threads, Reload(w) PROVE IInv'
  BY <1>2 DEF Reload, Step
<1>3. ASSUME NEW w \in Threads, Clear(w) PROVE IInv'
  BY <1>3 DEF Clear, Step
<1>4. ASSUME NEW w \in Threads, Fill(w) PROVE IInv'
  BY <1>4 DEF Fill, Step
<1>5. ASSUME NEW w \in Threads, Mark(w) PROVE IInv'
  BY <1>5 DEF Mark, Step, Answer
<1>6. ASSUME NEW w \in Threads, Copy(w) PROVE IInv'
  BY <1>6 DEF Copy, Step, Answer
<1>7. CASE UNCHANGED vars
  BY <1>7 DEF vars
<1>. QED
  BY <1>1, <1>2, <1>3, <1>4, <1>5, <1>6, <1>7 DEF Next

LEMMA Invariant == Spec => []IInv
  BY InitIInv, NextIInv, PTL DEF Spec

(* The table is whole or empty in every state, and the threads are where   *)
(* the model says.                                                         *)
THEOREM TypeCorrect == Spec => []TypeOK
<1>1. IInv => TypeOK
  BY DEF IInv
<1>. QED
  BY Invariant, <1>1, PTL

(* A request that read the profiles itself is restricted to the profile it *)
(* names, however many threads load at the same time.                      *)
THEOREM LoadersAreRight == Spec => []LoaderIsRight
<1>1. IInv => LoaderIsRight
  BY DEF IInv
<1>. QED
  BY Invariant, <1>1, PTL

(* Overlapping loads never leave a wrong table behind.                     *)
THEOREM TableHealsAlways == Spec => []TableHeals
<1>1. IInv => TableHeals
  BY DEF IInv, Filled, TableHeals
<1>. QED
  BY Invariant, <1>1, PTL

-----------------------------------------------------------------------------
(***************************************************************************)
(* Induction over numbers, as facts about sets, and what a recursive       *)
(* function is: the CHOOSE it stands for has something to choose.          *)
(***************************************************************************)
(* A set of numbers that has 0 and the next of each it has, has them all:   *)
(* the least one it lacks would have one before it.                        *)
LEMMA NatSets ==
    ASSUME NEW S \in SUBSET Nat, 0 \in S, \A n \in S : n + 1 \in S
    PROVE  S = Nat
  <1> DEFINE R == {p \in Nat \X Nat : p[1] < p[2]}
  <1>1. IsWellFoundedOn(R, Nat)
    BY NatLessThanWellFounded DEF OpToRel
  <1> HIDE DEF R
  <1>2. SUFFICES ASSUME Nat \ S # {} PROVE FALSE
    OBVIOUS
  <1>3. PICK x \in Nat \ S : \A y \in Nat \ S : ~ (<<y, x>> \in R)
    BY <1>1, <1>2, WFMin
  <1>4. x # 0 /\ x - 1 \in Nat
    BY <1>3
  <1>5. x - 1 \notin S
    <2>1. SUFFICES ASSUME x - 1 \in S PROVE FALSE
      OBVIOUS
    <2>2. (x - 1) + 1 \in S
      BY <2>1
    <2> QED BY <2>2, <1>3, <1>4
  <1>6. <<x - 1, x>> \in R
    BY <1>4 DEF R
  <1> QED BY <1>3, <1>4, <1>5, <1>6

(* A set that has 0 and, with every number below N, the next one, has all   *)
(* numbers up to N.                                                         *)
LEMMA UpTo ==
    ASSUME NEW N \in Nat, NEW S, 0 \in S, \A n \in 0..(N - 1) : n \in S => n + 1 \in S
    PROVE  \A n \in 0..N : n \in S
  <1> DEFINE T == {n \in Nat : n <= N => n \in S}
  <1>1. 0 \in T
    OBVIOUS
  <1>2. ASSUME NEW n \in T PROVE n + 1 \in T
    <2>1. n \in Nat
      BY <1>2
    <2> QED BY <1>2, <2>1
  <1>3. T = Nat
    <2>1. T \in SUBSET Nat
      OBVIOUS
    <2> HIDE DEF T
    <2> QED BY <2>1, <1>1, <1>2, NatSets
  <1> QED BY <1>3

(* f is what a recursion over 0..N from `base` by F gives, in A, each place  *)
(* k from an earlier one, up[k].                                            *)
Climbs(f, A, base, N, up, F) ==
    f \in [0..N -> A] /\ f[0] = base /\ \A k \in 1..N : f[k] = F[<<f[up[k]], k>>]

(* Such a recursion has a solution. *)
LEMMA ClimbExists ==
    ASSUME NEW A, NEW base \in A, NEW N \in Nat, NEW up \in [1..N -> Nat], \A k \in 1..N : up[k] < k,
           NEW F \in [A \X (1..N) -> A]
    PROVE  \E f : Climbs(f, A, base, N, up, F)
  <1> DEFINE Good(f, n) == f[0] = base /\ \A k \in 1..n : f[k] = F[<<f[up[k]], k>>]
             S == {n \in Nat : \E f \in [0..n -> A] : Good(f, n)}
  <1>1. 0 \in S
    <2>1. [i \in 0..0 |-> base] \in [0..0 -> A] /\ Good([i \in 0..0 |-> base], 0)
      OBVIOUS
    <2> QED BY <2>1
  <1>2. ASSUME NEW n \in 0..(N - 1), n \in S PROVE n + 1 \in S
    <2> HIDE DEF Good
    <2>1. SUFFICES \E f \in [0..(n + 1) -> A] : Good(f, n + 1)
      OBVIOUS
    <2>2. PICK f \in [0..n -> A] : Good(f, n)
      BY <1>2
    <2> USE DEF Good
    <2> DEFINE u == up[n + 1]
               g == [i \in 0..(n + 1) |-> IF i = n + 1 THEN F[<<f[u], n + 1>>] ELSE f[i]]
    <2>3. u \in 0..n /\ n + 1 \in 1..N
      OBVIOUS
    <2> HIDE DEF u
    <2>a. f[u] \in A /\ <<f[u], n + 1>> \in A \X (1..N)
      BY <2>3
    <2>4. F[<<f[u], n + 1>>] \in A
      BY <2>a
    <2>5. g \in [0..(n + 1) -> A]
      BY <2>4
    <2>6. /\ \A i \in 0..n : g[i] = f[i]
          /\ g[n + 1] = F[<<f[u], n + 1>>]
      OBVIOUS
    <2> HIDE DEF g
    <2>7. g[0] = base
      BY <2>2, <2>6
    <2>8. ASSUME NEW k \in 1..(n + 1) PROVE g[k] = F[<<g[up[k]], k>>]
      <3>1. CASE k = n + 1
        BY <3>1, <2>3, <2>6 DEF u
      <3>2. CASE k # n + 1
        <4>1. k \in 1..n /\ k \in 0..n /\ k \in 1..N
          BY <3>2
        <4>2. up[k] \in 0..n
          BY <4>1
        <4> QED BY <4>1, <4>2, <2>2, <2>6
      <3> QED BY <3>1, <3>2
    <2> QED BY <2>5, <2>7, <2>8
  <1>3. N \in S
    <2> HIDE DEF S
    <2>1. \A n \in 0..N : n \in S
      BY <1>1, <1>2, UpTo
    <2> QED BY <2>1
  <1> QED BY <1>3 DEF Climbs

(* As it has when each place comes from the one before it. *)
Solves(f, A, base, N, F) ==
    f \in [0..N -> A] /\ f[0] = base /\ \A k \in 1..N : f[k] = F[<<f[k - 1], k>>]

LEMMA RecursionExists ==
    ASSUME NEW A, NEW base \in A, NEW N \in Nat, NEW F \in [A \X (1..N) -> A]
    PROVE  \E f : Solves(f, A, base, N, F)
  <1> DEFINE up == [k \in 1..N |-> k - 1]
  <1>1. up \in [1..N -> Nat] /\ \A k \in 1..N : up[k] = k - 1 /\ up[k] < k
    OBVIOUS
  <1> HIDE DEF up
  <1>2. PICK f : Climbs(f, A, base, N, up, F)
    BY <1>1, ClimbExists, Zenon
  <1>3. Solves(f, A, base, N, F)
    BY <1>1, <1>2 DEF Climbs, Solves
  <1> QED BY <1>3

(* A set of naturals that is not empty has a least element: Min finds it. *)
LEMMA MinIs ==
    ASSUME NEW S \in SUBSET Nat, S # {}
    PROVE  Min(S) \in S /\ \A y \in S : Min(S) <= y
  <1> DEFINE R == {p \in Nat \X Nat : p[1] < p[2]}
  <1>1. IsWellFoundedOn(R, Nat)
    BY NatLessThanWellFounded DEF OpToRel
  <1> HIDE DEF R
  <1>2. PICK x \in S : \A y \in S : ~ (<<y, x>> \in R)
    BY <1>1, WFMin
  <1>3. ASSUME NEW y \in S PROVE x <= y
    <2>1. <<y, x>> \in Nat \X Nat /\ ~ (<<y, x>> \in R)
      BY <1>2
    <2>2. ~ (y < x)
      BY <2>1 DEF R
    <2> QED BY <2>2
  <1> QED BY <1>3 DEF Min

(* And Max the greatest of some numbers up to N. *)
LEMMA MaxIs ==
    ASSUME NEW N \in Nat, NEW S \in SUBSET (0..N), S # {}
    PROVE  Max(S) \in S /\ \A y \in S : y <= Max(S)
  <1> DEFINE T == {m \in 0..N : N - m \in S}
  <1>1. T \in SUBSET Nat /\ T # {}
    <2>1. PICK x \in S : TRUE
      OBVIOUS
    <2>2. N - x \in 0..N /\ N - (N - x) = x
      BY <2>1
    <2>3. N - (N - x) \in S
      BY <2>1, <2>2
    <2>4. N - x \in T
      BY <2>2, <2>3
    <2>5. 0..N \subseteq Nat
      OBVIOUS
    <2> QED BY <2>4, <2>5
  <1> HIDE DEF T
  <1>2. PICK m : m \in T /\ \A y \in T : m <= y
    BY <1>1, MinIs
  <1>3. m \in 0..N /\ N - m \in S
    BY <1>2 DEF T
  <1>4. ASSUME NEW y \in S PROVE y <= N - m
    <2>1. N - y \in 0..N /\ N - (N - y) = y
      OBVIOUS
    <2>2. N - y \in T
      BY <2>1 DEF T
    <2> QED BY <1>2, <1>3, <2>2
  <1> QED BY <1>3, <1>4 DEF Max

(* Of two numbers. *)
LEMMA MinMaxOfTwo ==
    /\ \A a, b \in Int : Min({a, b}) = IF b <= a THEN b ELSE a
    /\ \A a, b \in Int : Max({a, b}) = IF b >= a THEN b ELSE a
  <1>1. ASSUME NEW a \in Int, NEW b \in Int PROVE Min({a, b}) = IF b <= a THEN b ELSE a
    BY DEF Min
  <1>2. ASSUME NEW a \in Int, NEW b \in Int PROVE Max({a, b}) = IF b >= a THEN b ELSE a
    BY DEF Max
  <1> QED BY <1>1, <1>2

-----------------------------------------------------------------------------
(***************************************************************************)
(* The editing tools: hooks.                                               *)
(***************************************************************************)
LEMMA InstallKeeps ==
    ASSUME HookInv, NEW type \in HookTypes, NEW luck, NEW failing, Install(type, luck, failing)
    PROVE  HookInv'
  <1> DEFINE id == hookSeq + 1
             old == OfType(type)
  <1>1. /\ hookSeq' = id /\ id \in Nat /\ id \notin DOMAIN seen /\ 1..hookSeq \subseteq 1..id
        /\ id \in 1..id
    BY EditSessionAssumption DEF Install, HookInv
  <1>2. CASE luck = "untraced"
    BY <1>1, <1>2 DEF Install, HookInv
  <1>3. CASE luck \notin {"untraced", "hooked"}
    <2>1. /\ hooks' = Drop(hooks, old) /\ seen' = seen
          /\ tracing' = tracing \ (old \ failing)
          /\ stuck' = stuck \union (old \intersect failing)
      BY <1>3 DEF Install
    <2>2. old \subseteq DOMAIN hooks /\ DOMAIN hooks' = DOMAIN hooks \ old
      BY <2>1 DEF OfType, Drop
    <2>3. \A x \in DOMAIN hooks' : hooks'[x] = hooks[x]
      BY <2>1 DEF Drop
    <2>4. hooks' \in [DOMAIN hooks' -> [type : HookTypes, events : Seq(Nat), count : Nat]]
      BY <2>1, <2>2 DEF HookInv, Drop
    <2> QED BY <1>1, <2>1, <2>2, <2>3, <2>4 DEF HookInv
  <1>4. CASE luck = "hooked"
    <2> DEFINE fresh == [type |-> type, events |-> <<>>, count |-> 0]
    <2>1. /\ hooks' = Set(Drop(hooks, old), id, fresh) /\ seen' = Set(seen, id, 0)
          /\ tracing' = (tracing \ (old \ failing)) \union {id}
          /\ stuck' = stuck \union (old \intersect failing)
      BY <1>4 DEF Install
    <2>2. /\ old \subseteq DOMAIN hooks /\ DOMAIN hooks' = (DOMAIN hooks \ old) \union {id}
          /\ DOMAIN seen' = DOMAIN seen \union {id}
      BY <2>1 DEF OfType, Drop, Set
    <2>3. id \notin DOMAIN hooks /\ id \notin stuck /\ id \notin old
      BY <1>1, <2>2 DEF HookInv
    <2>4. /\ \A x \in DOMAIN hooks \ old : hooks'[x] = hooks[x] /\ hooks[x].type # type
          /\ hooks'[id] = fresh
          /\ \A x \in DOMAIN seen : seen'[x] = seen[x]
          /\ seen'[id] = 0
      BY <1>1, <2>1, <2>3 DEF Drop, Set, OfType
    <2>5. fresh \in [type : HookTypes, events : Seq(Nat), count : Nat] /\ LoggedLast(fresh, 0)
      BY EditSessionAssumption DEF LoggedLast
    <2>6. /\ hooks' \in [DOMAIN hooks' -> [type : HookTypes, events : Seq(Nat), count : Nat]]
          /\ seen' \in [DOMAIN seen' -> Nat]
      BY <2>1, <2>2, <2>4, <2>5 DEF HookInv, Drop, Set
    <2>7. /\ DOMAIN hooks' \subseteq DOMAIN seen' /\ stuck' \subseteq DOMAIN seen'
          /\ tracing' = DOMAIN hooks' \union stuck' /\ DOMAIN hooks' \intersect stuck' = {}
          /\ DOMAIN seen' \subseteq 1..hookSeq'
      BY <1>1, <2>1, <2>2, <2>3 DEF HookInv
    <2>8. \A i, j \in DOMAIN hooks' : hooks'[i].type = hooks'[j].type => i = j
      BY <2>2, <2>3, <2>4 DEF HookInv
    <2>9. \A x \in DOMAIN hooks' : LoggedLast(hooks'[x], seen'[x])
      BY <2>2, <2>3, <2>4, <2>5 DEF HookInv
    <2> QED BY <1>1, <2>6, <2>7, <2>8, <2>9 DEF HookInv, LoggedLast
  <1> QED BY <1>2, <1>3, <1>4

(* An event of a tracer in the table goes to the end of its log. *)
LEMMA LogGrows ==
    ASSUME NEW n \in Nat, NEW e \in [type : HookTypes, events : Seq(Nat), count : Nat],
           LoggedLast(e, n)
    PROVE  LET all == Append(e.events, n + 1)
               f == [type |-> e.type, count |-> e.count + 1,
                     events |-> IF Len(all) > EventsKept THEN Tail(all) ELSE all]
           IN  f \in [type : HookTypes, events : Seq(Nat), count : Nat] /\ LoggedLast(f, n + 1)
  <1> DEFINE all == Append(e.events, n + 1)
             kept == IF Len(all) > EventsKept THEN Tail(all) ELSE all
  <1>1. /\ e.events \in Seq(Nat) /\ EventsKept \in Nat /\ e.count = n /\ Len(e.events) \in Nat
        /\ Len(e.events) = IF n <= EventsKept THEN n ELSE EventsKept
    BY EditSessionAssumption DEF LoggedLast
  <1>2. /\ all \in Seq(Nat) /\ Len(all) = Len(e.events) + 1
        /\ \A i \in 1..Len(e.events) : all[i] = e.events[i]
        /\ all[Len(e.events) + 1] = n + 1
    BY <1>1, AppendProperties
  <1>3. ASSUME NEW i \in 1..Len(all) PROVE all[i] = (n + 1) - Len(all) + i
    <2> HIDE DEF all
    <2>1. CASE i \in 1..Len(e.events)
      <3>1. e.events[i] = n - Len(e.events) + i
        BY <2>1 DEF LoggedLast
      <3> QED BY <1>1, <1>2, <2>1, <3>1
    <2>2. CASE i = Len(e.events) + 1
      BY <1>1, <1>2, <2>2, SMTT(30)
    <2> QED BY <1>1, <1>2, <2>1, <2>2
  <1>4. CASE Len(all) > EventsKept
    <2>1. /\ Tail(all) \in Seq(Nat) /\ Len(Tail(all)) = Len(e.events)
          /\ \A i \in 1..Len(e.events) : Tail(all)[i] = all[i + 1]
      BY <1>1, <1>2, HeadTailProperties
    <2>2. kept = Tail(all) /\ kept \in Seq(Nat)
      BY <1>4, <2>1
    <2> HIDE DEF all, kept
    <2>3. ASSUME NEW i \in 1..Len(kept) PROVE kept[i] = (n + 1) - Len(kept) + i
      <3>1. i + 1 \in 1..Len(all) /\ Len(all) \in Nat /\ i \in Nat
        BY <1>1, <1>2, <2>1, <2>2
      <3>2. all[i + 1] = (n + 1) - Len(all) + (i + 1)
        BY <1>3, <3>1
      <3>3. kept[i] = all[i + 1] /\ Len(kept) = Len(e.events)
        BY <2>1, <2>2
      <3> QED BY <1>1, <1>2, <3>1, <3>2, <3>3
    <2>4. Len(kept) = IF n + 1 <= EventsKept THEN n + 1 ELSE EventsKept
      BY <1>1, <1>2, <1>4, <2>1, <2>2
    <2> DEFINE f == [type |-> e.type, count |-> e.count + 1, events |-> kept]
    <2>5. f \in [type : HookTypes, events : Seq(Nat), count : Nat] /\ LoggedLast(f, n + 1)
      BY <1>1, <2>2, <2>3, <2>4 DEF LoggedLast
    <2> QED BY <2>5 DEF all, kept
  <1>5. CASE ~ (Len(all) > EventsKept)
    BY <1>1, <1>2, <1>3, <1>5 DEF LoggedLast
  <1> QED BY <1>4, <1>5

LEMMA EventKeeps == ASSUME HookInv, NEW id, Event(id) PROVE HookInv'
  <1>1. /\ id \in DOMAIN seen /\ seen[id] \in Nat
        /\ seen' = [seen EXCEPT ![id] = @ + 1] /\ seen'[id] = seen[id] + 1
        /\ UNCHANGED <<hookSeq, tracing, stuck>>
    BY DEF Event, HookInv
  <1>2. CASE id \notin DOMAIN hooks
    BY <1>1, <1>2 DEF Event, HookInv
  <1>3. CASE id \in DOMAIN hooks
    <2> DEFINE all == Append(hooks[id].events, seen[id] + 1)
               f == [type |-> hooks[id].type, count |-> hooks[id].count + 1,
                     events |-> IF Len(all) > EventsKept THEN Tail(all) ELSE all]
    <2>1. hooks' = [hooks EXCEPT ![id] = f]
      BY <1>1, <1>3 DEF Event
    <2>2. /\ f \in [type : HookTypes, events : Seq(Nat), count : Nat]
          /\ LoggedLast(f, seen[id] + 1)
      BY <1>1, <1>3, LogGrows DEF HookInv
    <2>3. f.type = hooks[id].type
      OBVIOUS
    <2> HIDE DEF f
    <2>4. DOMAIN hooks' = DOMAIN hooks /\ DOMAIN seen' = DOMAIN seen
      BY <1>1, <2>1
    <2>5. \A x \in DOMAIN hooks : LoggedLast(hooks'[x], seen'[x])
      BY <1>1, <2>1, <2>2 DEF HookInv
    <2>6. hooks' \in [DOMAIN hooks -> [type : HookTypes, events : Seq(Nat), count : Nat]]
      BY <2>1, <2>2 DEF HookInv
    <2>7. \A i, j \in DOMAIN hooks : hooks'[i].type = hooks'[j].type => i = j
      BY <2>1, <2>3 DEF HookInv
    <2> QED BY <1>1, <2>4, <2>5, <2>6, <2>7 DEF HookInv, LoggedLast
  <1> QED BY <1>2, <1>3

LEMMA RemoveHooksKeeps ==
    ASSUME HookInv, NEW targets, NEW failing, RemoveHooks(targets, failing)
    PROVE  HookInv'
  <1> DEFINE out == targets \intersect DOMAIN hooks
  <1>1. /\ hooks' = Drop(hooks, targets) /\ UNCHANGED <<hookSeq, seen>>
        /\ tracing' = tracing \ (out \ failing) /\ stuck' = stuck \union (out \intersect failing)
    BY DEF RemoveHooks, Unhook
  <1>2. DOMAIN hooks' = DOMAIN hooks \ targets /\ \A x \in DOMAIN hooks' : hooks'[x] = hooks[x]
    BY <1>1 DEF Drop
  <1>3. hooks' \in [DOMAIN hooks' -> [type : HookTypes, events : Seq(Nat), count : Nat]]
    BY <1>1, <1>2 DEF Drop, HookInv
  <1> QED BY <1>1, <1>2, <1>3 DEF HookInv, LoggedLast

(* What of the state an edit of the other tools leaves alone. *)
LEMMA HooksUntouched == ASSUME HookInv, UNCHANGED hookVars PROVE HookInv'
  BY DEF HookInv, hookVars, LoggedLast

LEMMA HookInvariant == EditSpec => []HookInv
  <1>1. SessionInit => HookInv
    BY DEF SessionInit, HookInv, Empty
  <1>2. HookInv /\ [Edits]_session => HookInv'
    <2> SUFFICES ASSUME HookInv, [Edits]_session PROVE HookInv'
      OBVIOUS
    <2>1. ASSUME NEW ea, AddBookmark(ea) \/ DeleteBookmark(ea) PROVE UNCHANGED hookVars
      BY <2>1 DEF AddBookmark, DeleteBookmark
    <2>2. ASSUME NEW tool, NEW items, Batch(tool, items) PROVE UNCHANGED hookVars
      BY <2>2, Zenon DEF Batch
    <2>3. ASSUME Read PROVE UNCHANGED hookVars
      BY <2>3 DEF Read
    <2>4. ASSUME NEW updates, NEW missed, NEW stored, EnumUpsert(updates, missed, stored)
          PROVE  UNCHANGED hookVars
      BY <2>4 DEF EnumUpsert
    <2>5. ASSUME NEW ea, NEW raw, PatchBytes(ea, raw) \/ RevertPatch(ea) PROVE UNCHANGED hookVars
      BY <2>5 DEF PatchBytes, RevertPatch
    <2>6. CASE UNCHANGED session
      BY <2>6, HooksUntouched DEF session
    <2> QED
      BY <2>1, <2>2, <2>3, <2>4, <2>5, <2>6, HooksUntouched, InstallKeeps, EventKeeps,
         RemoveHooksKeeps
      DEF Edits
  <1> QED BY <1>1, <1>2, PTL DEF EditSpec

(* At most one hook of a type; the listed hooks and the tracers IDA would  *)
(* not let go of are the ones IDA calls; every listed one has counted all  *)
(* of its events and kept the last EventsKept of them - however often      *)
(* unhook() fails and whatever ids remove_hooks is given.                  *)
THEOREM HooksAreThoseAlways == EditSpec => []HooksAreThose
  <1>1. ASSUME HookInv PROVE HooksAreThose
    <2>1. ASSUME NEW type \in HookTypes PROVE Cardinality(OfType(type)) <= 1
      <3>1. CASE OfType(type) = {}
        BY <3>1, FS_EmptySet
      <3>2. CASE OfType(type) # {}
        <4>1. PICK i : i \in OfType(type)
          BY <3>2
        <4>2. OfType(type) = {i}
          BY <1>1, <4>1 DEF OfType, HookInv
        <4> QED BY <4>2, FS_Singleton
      <3> QED BY <3>1, <3>2
    <2>2. \A a, b \in Nat : Min({a, b}) = IF b <= a THEN b ELSE a
      BY DEF Min
    <2>3. ASSUME NEW id \in DOMAIN hooks
          PROVE  /\ hooks[id].count = seen[id]
                 /\ Len(hooks[id].events) = Min({EventsKept, seen[id]})
                 /\ \A i \in DOMAIN hooks[id].events :
                       hooks[id].events[i] = seen[id] - Len(hooks[id].events) + i
      <3>1. /\ LoggedLast(hooks[id], seen[id]) /\ seen[id] \in Nat /\ EventsKept \in Nat
            /\ hooks[id].events \in Seq(Nat)
        BY <1>1, EditSessionAssumption DEF HookInv
      <3>2. DOMAIN hooks[id].events = 1..Len(hooks[id].events)
        BY <3>1
      <3> QED BY <2>2, <3>1, <3>2 DEF LoggedLast
    <2> QED BY <1>1, <2>1, <2>3 DEF HooksAreThose, HookInv
  <1> QED BY <1>1, HookInvariant, PTL

-----------------------------------------------------------------------------
(***************************************************************************)
(* What the editing tools told their client.                               *)
(***************************************************************************)
LEMMA InitEdits == SessionInit => EditsInv
  <1> SUFFICES ASSUME SessionInit PROVE EditsInv
    OBVIOUS
  <1>1. ToldIs /\ told.slots = {} /\ told.members = enum.members /\ told.lost = {} /\ told.bytes = Empty
    BY DEF SessionInit, ToldIs
  <1>2. MarksInv
    BY <1>1 DEF SessionInit, MarksInv
  <1>3. EnumInv
    <2>1. PICK S : enum.members = [x \in S |-> enum.members[x]]
      BY DEF SessionInit, Empty, Set
    <2> QED BY <1>1, <2>1 DEF EnumInv, Drop
  <1>4. BytesInv
    BY <1>1 DEF SessionInit, BytesInv, BytesAsTold, Empty
  <1> QED BY <1>1, <1>2, <1>3, <1>4 DEF EditsInv

LEMMA AddBookmarkKeeps == ASSUME EditsInv, NEW ea \in Nat, AddBookmark(ea) PROVE EditsInv'
  <1>1. UNCHANGED <<enum, bytes>>
    BY DEF AddBookmark
  <1>2. CASE FreeSlots = {}
    BY <1>1, <1>2 DEF AddBookmark, EditsInv, ToldIs, MarksInv, EnumInv, BytesInv, BytesAsTold
  <1>3. CASE FreeSlots # {}
    <2>1. PICK slot : /\ slot = Min(FreeSlots)
                      /\ marks' = [marks EXCEPT ![slot] = ea]
                      /\ told' = [told EXCEPT !.slots = @ \union {<<slot, ea>>}]
      BY <1>3 DEF AddBookmark
    <2>2. slot \in DOMAIN marks /\ ~ Taken(marks[slot])
      <3>1. FreeSlots \in SUBSET Nat
        BY DEF FreeSlots, EditsInv, MarksInv
      <3> QED BY <1>3, <2>1, <3>1, MinIs DEF FreeSlots
    <2>3. /\ ToldIs' /\ told'.slots = told.slots \union {<<slot, ea>>}
          /\ told'.members = told.members /\ told'.lost = told.lost /\ told'.bytes = told.bytes
      BY <2>1 DEF EditsInv, ToldIs
    <2>4. MarksInv'
      BY <2>1, <2>2, <2>3 DEF EditsInv, MarksInv, Taken
    <2> QED BY <1>1, <2>3, <2>4 DEF EditsInv, EnumInv, BytesInv, BytesAsTold
  <1> QED BY <1>2, <1>3

LEMMA DeleteBookmarkKeeps == ASSUME EditsInv, NEW ea \in Nat, DeleteBookmark(ea) PROVE EditsInv'
  <1>1. UNCHANGED <<enum, bytes>>
    BY DEF DeleteBookmark
  <1>2. CASE UNCHANGED <<marks, told>>
    BY <1>1, <1>2 DEF EditsInv, ToldIs, MarksInv, EnumInv, BytesInv, BytesAsTold
  <1>3. CASE ~ UNCHANGED <<marks, told>>
    <2> DEFINE named == {s \in DOMAIN marks : marks[s] = ea}
               slot == IF ea \in DOMAIN marks THEN ea ELSE Min(named)
    <2>1. /\ marks' = [marks EXCEPT ![slot] = 0]
          /\ told' = [told EXCEPT !.slots = {b \in @ : b[1] # slot}]
      BY <1>3 DEF DeleteBookmark
    <2> HIDE DEF slot
    <2>2. /\ ToldIs' /\ told'.slots = {b \in told.slots : b[1] # slot}
          /\ told'.members = told.members /\ told'.lost = told.lost /\ told'.bytes = told.bytes
      BY <2>1 DEF EditsInv, ToldIs
    <2>3. MarksInv'
      BY <2>1, <2>2 DEF EditsInv, MarksInv, Taken
    <2> QED BY <1>1, <2>2, <2>3 DEF EditsInv, EnumInv, BytesInv, BytesAsTold
  <1> QED BY <1>2, <1>3

LEMMA EnumUpsertKeeps ==
    ASSUME EditsInv, NEW names, NEW updates \in [names -> Int],
           NEW missed, NEW stored \in BOOLEAN, EnumUpsert(updates, missed, stored)
    PROVE  EditsInv'
  <1>1. UNCHANGED <<marks, bytes>>
    BY DEF EnumUpsert
  <1>2. CASE enum.is = "other" \/ ~ stored
    BY <1>1, <1>2 DEF EnumUpsert, EditsInv, ToldIs, MarksInv, EnumInv, BytesInv, BytesAsTold
  <1>3. CASE enum.is # "other" /\ stored
    <2> DEFINE values == Over(Drop(enum.members, missed), updates)
               now == Over(told.members, updates)
               lost == (told.lost \union missed) \ DOMAIN updates
    <2>1. /\ enum' = [is |-> "enum", members |-> values]
          /\ told' = [told EXCEPT !.members = now, !.lost = lost]
      BY <1>3 DEF EnumUpsert
    <2>2. enum.members = Drop(told.members, told.lost)
      BY <1>3 DEF EditsInv, EnumInv
    <2>3. values = Drop(now, lost)
      <3>1. DOMAIN values = DOMAIN Drop(now, lost)
        BY <2>2 DEF Over, Drop
      <3>2. ASSUME NEW x \in DOMAIN values PROVE values[x] = Drop(now, lost)[x]
        BY <2>2, <3>2 DEF Over, Drop
      <3>3. /\ values = [x \in DOMAIN values |-> values[x]]
            /\ Drop(now, lost) = [x \in DOMAIN Drop(now, lost) |-> Drop(now, lost)[x]]
        BY DEF Over, Drop
      <3> HIDE DEF values, now, lost
      <3> QED BY <3>1, <3>2, <3>3
    <2> HIDE DEF values, now, lost
    <2>4. /\ ToldIs' /\ told'.members = now /\ told'.lost = lost
          /\ told'.slots = told.slots /\ told'.bytes = told.bytes
      BY <2>1 DEF EditsInv, ToldIs
    <2>5. EnumInv'
      BY <2>1, <2>3, <2>4 DEF EnumInv
    <2> QED BY <1>1, <2>4, <2>5 DEF EditsInv, MarksInv, BytesInv, BytesAsTold
  <1> QED BY <1>2, <1>3

LEMMA PatchBytesKeeps ==
    ASSUME EditsInv, NEW ea \in Nat, NEW raw \in Seq(Nat), PatchBytes(ea, raw)
    PROVE  EditsInv'
  <1> DEFINE span == ea..(ea + Len(raw) - 1)
             now == [a \in DOMAIN told.bytes \union span |->
                        IF a \in span THEN raw[a - ea + 1] ELSE told.bytes[a]]
  <1>1. /\ bytes' = [a \in Mapped |-> IF a \in span THEN raw[a - ea + 1] ELSE bytes[a]]
        /\ told' = [told EXCEPT !.bytes = now] /\ UNCHANGED <<marks, enum>>
    BY DEF PatchBytes
  <1> HIDE DEF span
  <1>2. /\ ToldIs' /\ told'.bytes = now
        /\ told'.slots = told.slots /\ told'.members = told.members /\ told'.lost = told.lost
    BY <1>1 DEF EditsInv, ToldIs
  <1>3. BytesInv'
    BY <1>1, <1>2 DEF EditsInv, BytesInv, BytesAsTold
  <1> QED BY <1>1, <1>2, <1>3 DEF EditsInv, MarksInv, EnumInv

LEMMA RevertPatchKeeps == ASSUME EditsInv, NEW ea \in Nat, RevertPatch(ea) PROVE EditsInv'
  <1>1. /\ ea \in Mapped /\ bytes' = [bytes EXCEPT ![ea] = Original(ea)]
        /\ told' = [told EXCEPT !.bytes = Drop(@, {ea})] /\ UNCHANGED <<marks, enum>>
    BY DEF RevertPatch
  <1>2. /\ ToldIs' /\ told'.bytes = Drop(told.bytes, {ea})
        /\ told'.slots = told.slots /\ told'.members = told.members /\ told'.lost = told.lost
    BY <1>1 DEF EditsInv, ToldIs
  <1>3. BytesInv'
    BY <1>1, <1>2 DEF EditsInv, BytesInv, BytesAsTold, Drop
  <1> QED BY <1>1, <1>2, <1>3 DEF EditsInv, MarksInv, EnumInv

LEMMA EditsInvariant == EditSpec => []EditsInv
  <1>1. EditsInv /\ [Edits]_session => EditsInv'
    <2> SUFFICES ASSUME EditsInv, [Edits]_session PROVE EditsInv'
      OBVIOUS
    <2>1. ASSUME UNCHANGED <<marks, enum, bytes, told>> PROVE EditsInv'
      BY <2>1 DEF EditsInv, ToldIs, MarksInv, EnumInv, BytesInv, BytesAsTold
    <2>2. ASSUME NEW type, NEW luck, NEW failing, Install(type, luck, failing)
          PROVE  UNCHANGED <<marks, enum, bytes, told>>
      BY <2>2 DEF Install
    <2>3. ASSUME NEW id, Event(id) PROVE UNCHANGED <<marks, enum, bytes, told>>
      BY <2>3 DEF Event
    <2>4. ASSUME NEW targets, NEW failing, RemoveHooks(targets, failing)
          PROVE  UNCHANGED <<marks, enum, bytes, told>>
      BY <2>4 DEF RemoveHooks
    <2>5. ASSUME NEW tool, NEW items, Batch(tool, items)
          PROVE  UNCHANGED <<marks, enum, bytes, told>>
      BY <2>5, Zenon DEF Batch
    <2>6. ASSUME Read PROVE UNCHANGED <<marks, enum, bytes, told>>
      BY <2>6 DEF Read
    <2>7. CASE UNCHANGED session
      BY <2>1, <2>7 DEF session
    <2> QED
      BY <2>1, <2>2, <2>3, <2>4, <2>5, <2>6, <2>7, AddBookmarkKeeps, DeleteBookmarkKeeps,
         EnumUpsertKeeps, PatchBytesKeeps, RevertPatchKeeps
      DEF Edits
  <1> QED BY <1>1, InitEdits, PTL DEF EditSpec

(* A slot a reply gave to a bookmark lists that bookmark until a reply says *)
(* that the slot was deleted, whatever numbers were meant as slots and      *)
(* which as addresses - except for a bookmark at address 0.                 *)
THEOREM BookmarksAreKeptAlways == EditSpec => []BookmarksAreKept
  <1>1. EditsInv => BookmarksAreKept
    BY DEF EditsInv, MarksInv, BookmarksAreKept, Bookmarks
  <1> QED BY <1>1, EditsInvariant, PTL

(* An enum has the members it had at first and all that were given to it,  *)
(* with the values given last, but for those that a later call failed to   *)
(* read back, which that call drops without a word (api_typeinfo.py:408).   *)
THEOREM MembersAreKeptAlways == EditSpec => []MembersAreKept
  <1>1. EditsInv => MembersAreKept
    BY DEF EditsInv, EnumInv, MembersAreKept
  <1> QED BY <1>1, EditsInvariant, PTL

(* A byte of a segment is that of the last patch of it, or the original if *)
(* there was none or it was taken back, however patches overlap.           *)
THEOREM BytesAsToldAlways == EditSpec => []BytesAsTold
  <1>1. EditsInv => BytesAsTold
    BY DEF EditsInv, BytesInv
  <1> QED BY <1>1, EditsInvariant, PTL

-----------------------------------------------------------------------------
(***************************************************************************)
(* Breakpoints.  What one item does: the breakpoints stay breakpoints, no  *)
(* other address is touched, and the reply says what became of the item's. *)
(***************************************************************************)
(* A breakpoint that is there is a record of three fields. *)
LEMMA BptsAre ==
    ASSUME NEW b \in Bpts
    PROVE  /\ DOMAIN b \subseteq Known
           /\ \A a \in DOMAIN b : /\ b[a] \in [on : BOOLEAN, cond : Conditions, lang : Languages]
                                  /\ b[a] = [on |-> b[a].on, cond |-> b[a].cond, lang |-> b[a].lang]
  <1>1. PICK D \in SUBSET Known : b \in [D -> [on : BOOLEAN, cond : Conditions, lang : Languages]]
    BY DEF Bpts
  <1> QED BY <1>1

LEMMA IsBpts ==
    ASSUME NEW D, NEW b, D \subseteq Known, b \in [D -> [on : BOOLEAN, cond : Conditions, lang : Languages]]
    PROVE  b \in Bpts
  BY DEF Bpts

LEMMA CondSet ==
    ASSUME NEW b, NEW a, NEW v, NEW n, b \in Bpts, a \in DOMAIN b, v \in Conditions, n = WithCond(b, a, v)
    PROVE  /\ n \in Bpts /\ DOMAIN n = DOMAIN b /\ \A y \in DOMAIN b \ {a} : n[y] = b[y]
           /\ n[a].cond = v /\ n[a].lang = b[a].lang
  <1>1. b[a] \in [on : BOOLEAN, cond : Conditions, lang : Languages] /\ DOMAIN b \subseteq Known
    BY BptsAre
  <1>2. DOMAIN n = DOMAIN b /\ n[a] = [b[a] EXCEPT !.cond = v] /\ \A y \in DOMAIN b \ {a} : n[y] = b[y]
    BY DEF WithCond
  <1>3. n[a] \in [on : BOOLEAN, cond : Conditions, lang : Languages] /\ n[a].cond = v /\ n[a].lang = b[a].lang
    BY <1>1, <1>2
  <1>4. n \in [DOMAIN b -> [on : BOOLEAN, cond : Conditions, lang : Languages]]
    <2>1. \A y \in DOMAIN b : n[y] \in [on : BOOLEAN, cond : Conditions, lang : Languages]
      BY <1>2, <1>3, BptsAre
    <2> QED BY <2>1 DEF WithCond
  <1> QED BY <1>1, <1>2, <1>3, <1>4, IsBpts

LEMMA LangSet ==
    ASSUME NEW b, NEW a, NEW v, NEW n, b \in Bpts, a \in DOMAIN b, v \in Languages, n = WithLang(b, a, v)
    PROVE  /\ n \in Bpts /\ DOMAIN n = DOMAIN b /\ \A y \in DOMAIN b \ {a} : n[y] = b[y]
           /\ n[a].lang = v /\ n[a].cond = b[a].cond
  <1>1. b[a] \in [on : BOOLEAN, cond : Conditions, lang : Languages] /\ DOMAIN b \subseteq Known
    BY BptsAre
  <1>2. DOMAIN n = DOMAIN b /\ n[a] = [b[a] EXCEPT !.lang = v] /\ \A y \in DOMAIN b \ {a} : n[y] = b[y]
    BY DEF WithLang
  <1>3. n[a] \in [on : BOOLEAN, cond : Conditions, lang : Languages] /\ n[a].lang = v /\ n[a].cond = b[a].cond
    BY <1>1, <1>2
  <1>4. n \in [DOMAIN b -> [on : BOOLEAN, cond : Conditions, lang : Languages]]
    <2>1. \A y \in DOMAIN b : n[y] \in [on : BOOLEAN, cond : Conditions, lang : Languages]
      BY <1>2, <1>3, BptsAre
    <2> QED BY <2>1 DEF WithLang
  <1> QED BY <1>1, <1>2, <1>3, <1>4, IsBpts

LEMMA AddedWell ==
    ASSUME NEW b \in Bpts, NEW item \in Wanted PROVE HandledWell("add", b, item)
  <1> DEFINE a == item.addr
             fresh == [on |-> TRUE, cond |-> "none", lang |-> "IDC"]
             new == Set(b, a, fresh)
  <1>1. Handled("add", b, item) = Added(b, item)
    BY DEF Handled
  <1>2. CASE Added(b, item).bpts = b /\ (Added(b, item).reply = "ok" => a \in DOMAIN b)
    BY <1>1, <1>2 DEF HandledWell
  <1>3. CASE a \in Known \ DOMAIN b /\ Added(b, item) = Done(new, "ok")
    <2>1. fresh \in [on : BOOLEAN, cond : Conditions, lang : Languages]
      BY EditSessionAssumption
    <2> HIDE DEF fresh
    <2>2. /\ DOMAIN new = DOMAIN b \union {a} /\ new[a] = fresh
          /\ \A x \in DOMAIN b : new[x] = b[x]
      BY <1>3 DEF Set
    <2>3. new \in [DOMAIN b \union {a} -> [on : BOOLEAN, cond : Conditions, lang : Languages]]
      BY <2>1, BptsAre DEF Set
    <2>4. new \in Bpts
      BY <1>3, <2>3, BptsAre, IsBpts
    <2> HIDE DEF new
    <2>5. Handled("add", b, item).bpts = new /\ Handled("add", b, item).reply = "ok"
      BY <1>1, <1>3 DEF Done
    <2> QED BY <1>3, <2>2, <2>4, <2>5 DEF HandledWell
  <1> QED BY <1>2, <1>3 DEF Added, Done

LEMMA DeletedWell ==
    ASSUME NEW b \in Bpts, NEW item \in Wanted PROVE HandledWell("delete", b, item)
  <1> DEFINE a == item.addr
             new == Drop(b, {a})
  <1>1. Handled("delete", b, item) = Deleted(b, item)
    BY DEF Handled
  <1>2. CASE Deleted(b, item).bpts = b /\ Deleted(b, item).reply # "ok"
    BY <1>1, <1>2 DEF HandledWell
  <1>3. CASE Deleted(b, item) = Done(new, "ok")
    <2>1. DOMAIN new = DOMAIN b \ {a} /\ \A x \in DOMAIN b \ {a} : new[x] = b[x]
      BY DEF Drop
    <2>2. new \in [DOMAIN b \ {a} -> [on : BOOLEAN, cond : Conditions, lang : Languages]]
      BY BptsAre DEF Drop
    <2>3. new \in Bpts
      BY <2>2, BptsAre, IsBpts
    <2> HIDE DEF new
    <2> QED BY <1>1, <1>3, <2>1, <2>3 DEF HandledWell, Done
  <1> QED BY <1>2, <1>3 DEF Deleted, Done

LEMMA ToggledWell ==
    ASSUME NEW b \in Bpts, NEW item \in Wanted PROVE HandledWell("toggle", b, item)
  <1> DEFINE a == item.addr
             new == [b EXCEPT ![a].on = item.on]
  <1>1. Handled("toggle", b, item) = Toggled(b, item)
    BY DEF Handled
  <1>2. CASE Toggled(b, item).bpts = b /\ Toggled(b, item).reply # "ok"
    BY <1>1, <1>2 DEF HandledWell
  <1>3. CASE a \in DOMAIN b /\ Toggled(b, item) = Done(new, "ok")
    <2>1. DOMAIN new = DOMAIN b /\ \A x \in DOMAIN b \ {a} : new[x] = b[x]
      OBVIOUS
    <2>2. new[a].on = item.on
      BY <1>3, BptsAre
    <2>3. new \in [DOMAIN b -> [on : BOOLEAN, cond : Conditions, lang : Languages]]
      BY <1>3, BptsAre, ZenonT(30) DEF Wanted
    <2>4. new \in Bpts
      BY <2>3, BptsAre, IsBpts
    <2> HIDE DEF new
    <2> QED BY <1>1, <1>3, <2>1, <2>2, <2>4 DEF HandledWell, Done
  <1> QED BY <1>2, <1>3 DEF Toggled, Done

LEMMA ConditionedWell ==
    ASSUME NEW b \in Bpts, NEW item \in Wanted PROVE HandledWell("condition", b, item)
  <1> DEFINE a == item.addr
             changes == item.lang \notin {"none", b[a].lang}
             clears == changes /\ b[a].cond # "none" /\ item.cond # "none"
             cleared == IF clears THEN [b EXCEPT ![a].cond = "none"] ELSE b
             spoken == IF changes THEN [cleared EXCEPT ![a].lang = item.lang] ELSE cleared
             stored == [spoken EXCEPT ![a].cond = item.cond]
             Rest(x) == DOMAIN x = DOMAIN b /\ \A y \in DOMAIN b \ {a} : x[y] = b[y]
  <1>1. Handled("condition", b, item) = Conditioned(b, item)
    BY DEF Handled
  <1>2. CASE a \notin DOMAIN b
    <2>1. Conditioned(b, item) \in {Done(b, "unknown"), Done(b, "not_found")}
      BY <1>2, BptsAre DEF Conditioned
    <2>2. Conditioned(b, item).bpts = b /\ Conditioned(b, item).reply # "ok"
      BY <2>1 DEF Done
    <2> QED BY <1>1, <1>2, <2>2 DEF HandledWell
  <1>3. CASE a \in DOMAIN b
    <2>1. a \in Known /\ item.lang \in Languages /\ item.cond \in Conditions
      BY <1>3, BptsAre DEF Wanted
    <2>2. cleared \in Bpts /\ Rest(cleared) /\ cleared[a].cond \in {"none", b[a].cond}
          /\ cleared[a].lang = b[a].lang
      <3>1. CASE clears
        <4>1. cleared = WithCond(b, a, "none") /\ "none" \in Conditions
          BY <3>1, EditSessionAssumption DEF WithCond
        <4> HIDE DEF cleared
        <4>2. /\ cleared \in Bpts /\ Rest(cleared) /\ cleared[a].cond = "none"
              /\ cleared[a].lang = b[a].lang
          BY <1>3, <4>1, CondSet
        <4> QED BY <4>2
      <3>2. CASE ~ clears
        BY <3>2
      <3> QED BY <3>1, <3>2
    <2> HIDE DEF cleared
    <2>3. spoken \in Bpts /\ Rest(spoken) /\ spoken[a].cond = cleared[a].cond
          /\ (item.lang # "none" => spoken[a].lang = item.lang)
      <3>1. CASE changes
        <4>1. spoken = WithLang(cleared, a, item.lang)
          BY <3>1 DEF WithLang
        <4> HIDE DEF spoken
        <4>2. a \in DOMAIN cleared
          BY <1>3, <2>2
        <4>3. /\ spoken \in Bpts /\ DOMAIN spoken = DOMAIN cleared
              /\ \A y \in DOMAIN cleared \ {a} : spoken[y] = cleared[y]
              /\ spoken[a].lang = item.lang /\ spoken[a].cond = cleared[a].cond
          BY <2>1, <2>2, <4>1, <4>2, LangSet
        <4> QED BY <2>2, <4>3
      <3>2. CASE ~ changes
        BY <2>2, <3>2
      <3> QED BY <3>1, <3>2
    <2> HIDE DEF spoken
    <2>4. stored \in Bpts /\ Rest(stored) /\ stored[a].cond = item.cond
          /\ (item.lang # "none" => stored[a].lang = item.lang)
      <3>1. stored = WithCond(spoken, a, item.cond)
        BY DEF WithCond
      <3> HIDE DEF stored
      <3>2. a \in DOMAIN spoken
        BY <1>3, <2>3
      <3>3. /\ stored \in Bpts /\ DOMAIN stored = DOMAIN spoken
            /\ \A y \in DOMAIN spoken \ {a} : stored[y] = spoken[y]
            /\ stored[a].cond = item.cond /\ stored[a].lang = spoken[a].lang
        BY <2>1, <2>3, <3>1, <3>2, CondSet
      <3> QED BY <2>3, <3>3
    <2>5. \/ Conditioned(b, item) \in {Done(b, "not_found"), Done(b, "not_cleared")}
          \/ Conditioned(b, item) \in {Done(cleared, "not_reloaded"), Done(cleared, "no_language")}
          \/ Conditioned(b, item) = Done(spoken, "not_set")
          \/ Conditioned(b, item) \in {Done(stored, r) : r \in Stored}
      <3> HIDE DEF stored
      <3>1. Conditioned(b, item) = 
               CASE item.luck = "fails" -> Done(b, "not_found")
                 [] item.luck = "clear" /\ clears -> Done(b, "not_cleared")
                 [] item.luck = "reload_clear" /\ clears -> Done(cleared, "not_reloaded")
                 [] item.luck = "language" /\ changes -> Done(cleared, "no_language")
                 [] item.luck = "set" -> Done(spoken, "not_set")
                 [] item.luck = "reload_set" -> Done(stored, "set_not_reloaded")
                 [] item.luck = "compile" /\ item.cond # "none" -> Done(stored, "not_compiled")
                 [] OTHER -> Done(stored, "ok")
        BY <1>3, <2>1 DEF Conditioned, cleared, spoken, stored
      <3> QED BY <3>1 DEF Stored
    <2> HIDE DEF stored
    <2> DEFINE Fits(n, r) == /\ Conditioned(b, item) = Done(n, r)
                             /\ n \in Bpts /\ Rest(n)
                             /\ r \in Stored => n[a].cond = item.cond
                             /\ r \notin Stored => n[a].cond \in {"none", b[a].cond}
                             /\ r = "ok" /\ item.lang # "none" => n[a].lang = item.lang
    <2>6. PICK n, r : Fits(n, r)
      <3>1. ASSUME NEW r \in {"not_found", "not_cleared"}, Conditioned(b, item) = Done(b, r) PROVE Fits(b, r)
        BY <3>1 DEF Stored
      <3>2. ASSUME NEW r \in {"not_reloaded", "no_language"}, Conditioned(b, item) = Done(cleared, r)
            PROVE  Fits(cleared, r)
        BY <3>2, <2>2 DEF Stored
      <3>3. ASSUME Conditioned(b, item) = Done(spoken, "not_set") PROVE Fits(spoken, "not_set")
        BY <3>3, <2>2, <2>3 DEF Stored
      <3>4. ASSUME NEW r \in Stored, Conditioned(b, item) = Done(stored, r) PROVE Fits(stored, r)
        BY <3>4, <2>4
      <3> HIDE DEF Fits
      <3> QED BY <2>5, <3>1, <3>2, <3>3, <3>4
    <2>7. Handled("condition", b, item).bpts = n /\ Handled("condition", b, item).reply = r
      BY <1>1, <2>6 DEF Done
    <2>8. DOMAIN n = DOMAIN b /\ (r = "ok" => n[a].cond = item.cond)
      BY <2>6 DEF Stored
    <2>9. n[a].cond \in {"none", b[a].cond} \/ (n[a].cond = item.cond /\ r \in Stored)
      BY <2>6
    <2> QED BY <1>3, <2>6, <2>7, <2>8, <2>9, BptsAre DEF HandledWell
  <1> QED BY <1>2, <1>3

LEMMA AllHandledWell ==
    ASSUME NEW tool \in Calls, NEW b \in Bpts, NEW item \in Wanted PROVE HandledWell(tool, b, item)
  BY AddedWell, DeletedWell, ToggledWell, ConditionedWell DEF Calls

LEMMA LeftIs ==
    ASSUME bpts \in Bpts, NEW tool \in Calls, NEW items \in Seq(Wanted)
    PROVE  /\ Left(tool, items) \in [0..Len(items) -> Bpts]
           /\ Left(tool, items)[0] = bpts
           /\ \A k \in 1..Len(items) :
                 Left(tool, items)[k] = Handled(tool, Left(tool, items)[k - 1], items[k]).bpts
  <1> DEFINE n == Len(items)
             Rec(g) == g = [i \in 0..n |-> IF i = 0 THEN bpts ELSE Handled(tool, g[i - 1], items[i]).bpts]
             F == [p \in Bpts \X (1..n) |-> Handled(tool, p[1], items[p[2]]).bpts]
  <1>1. n \in Nat /\ \A k \in 1..n : items[k] \in Wanted
    OBVIOUS
  <1>2. F \in [Bpts \X (1..n) -> Bpts]
    BY <1>1, AllHandledWell DEF HandledWell
  <1>3. PICK f : Solves(f, Bpts, bpts, n, F)
    <2> HIDE DEF F, n
    <2> QED BY <1>1, <1>2, RecursionExists, Zenon
  <1>4. ASSUME NEW k \in 1..n PROVE f[k - 1] \in Bpts /\ f[k] = Handled(tool, f[k - 1], items[k]).bpts
    <2>1. k - 1 \in 0..n
      BY <1>1
    <2>2. <<f[k - 1], k>> \in Bpts \X (1..n)
      BY <2>1, <1>3 DEF Solves
    <2> QED BY <2>2, <1>3 DEF Solves
  <1>5. f \in [0..n -> Bpts] /\ f[0] = bpts
    BY <1>3 DEF Solves
  <1>6. Rec(f)
    <2> HIDE DEF F
    <2>1. \A i \in 0..n : i # 0 => i \in 1..n
      BY <1>1
    <2> HIDE DEF n
    <2> QED BY <1>4, <1>5, <2>1
  <1>7. Left(tool, items) = CHOOSE g : Rec(g)
    BY DEF Left
  <1>8. Rec(Left(tool, items))
    <2> HIDE DEF Rec
    <2> QED BY <1>6, <1>7
  <1> DEFINE left == Left(tool, items)
  <1> HIDE DEF left, F
  <1>9. /\ DOMAIN left = 0..n /\ left[0] = bpts
        /\ \A k \in 1..n : left[k] = Handled(tool, left[k - 1], items[k]).bpts
    <2>1. left = [i \in 0..n |-> IF i = 0 THEN bpts ELSE Handled(tool, left[i - 1], items[i]).bpts]
      BY <1>8 DEF left
    <2>2. 0 \in 0..n /\ \A k \in 1..n : k \in 0..n /\ k # 0
      BY <1>1
    <2> HIDE DEF n
    <2> QED BY <2>1, <2>2
  <1>10. \A k \in 0..n : left[k] \in Bpts
    <2> DEFINE S == {k \in 0..n : left[k] \in Bpts}
    <2>1. 0 \in S
      BY <1>1, <1>9
    <2>2. ASSUME NEW k \in 0..(n - 1), k \in S PROVE k + 1 \in S
      <3>1. k + 1 \in 1..n /\ (k + 1) - 1 = k /\ left[k] \in Bpts
        BY <1>1, <2>2
      <3>2. left[k + 1] = Handled(tool, left[k], items[k + 1]).bpts
        BY <1>9, <3>1
      <3>3. Handled(tool, left[k], items[k + 1]).bpts \in Bpts
        BY <1>1, <3>1, AllHandledWell DEF HandledWell
      <3> QED BY <3>1, <3>2, <3>3
    <2>3. \A k \in 0..n : k \in S
      <3> HIDE DEF S
      <3> QED BY <1>1, <2>1, <2>2, UpTo
    <2> QED BY <2>3
  <1>11. left \in [0..n -> Bpts]
    <2>1. left = [i \in DOMAIN left |-> left[i]]
      BY <1>8 DEF left
    <2> QED BY <1>9, <1>10, <2>1
  <1> QED BY <1>9, <1>11 DEF left

(* What the items from i + 1 to j do not name is left alone by them. *)
LEMMA OthersKept ==
    ASSUME NEW tool \in Calls, NEW items \in Seq(Wanted), NEW left \in [0..Len(items) -> Bpts],
           \A k \in 1..Len(items) : left[k] = Handled(tool, left[k - 1], items[k]).bpts,
           NEW i \in 0..Len(items), NEW a \in Known,
           \A k \in (i + 1)..Len(items) : items[k].addr # a
    PROVE  LET b == left[Len(items)]
           IN  (a \in DOMAIN b <=> a \in DOMAIN left[i]) /\ (a \in DOMAIN left[i] => b[a] = left[i][a])
  <1> DEFINE n == Len(items)
             Same(j) == /\ a \in DOMAIN left[j] <=> a \in DOMAIN left[i]
                        /\ a \in DOMAIN left[i] => left[j][a] = left[i][a]
             S == {m \in 0..(n - i) : Same(i + m)}
  <1>1. n \in Nat /\ n - i \in Nat /\ i \in Nat
    OBVIOUS
  <1>2. 0 \in S
    BY <1>1
  <1>3. ASSUME NEW m \in 0..((n - i) - 1), m \in S PROVE m + 1 \in S
    <2> DEFINE k == i + m + 1
    <2>1. /\ k \in 1..n /\ k \in (i + 1)..n /\ k - 1 = i + m /\ k = i + (m + 1)
          /\ m + 1 \in 0..(n - i) /\ i + m \in 0..n
      BY <1>1
    <2>2. Same(i + m)
      BY <1>3
    <2> HIDE DEF k, Same
    <2>3. items[k] \in Wanted /\ left[k - 1] \in Bpts /\ items[k].addr # a
      BY <2>1
    <2>4. left[k] = Handled(tool, left[k - 1], items[k]).bpts
      BY <2>1
    <2>5. HandledWell(tool, left[k - 1], items[k])
      BY <2>3, AllHandledWell
    <2>6. /\ a \in DOMAIN left[k] <=> a \in DOMAIN left[k - 1]
          /\ a \in DOMAIN left[k - 1] => left[k][a] = left[k - 1][a]
      BY <2>3, <2>4, <2>5 DEF HandledWell
    <2>7. Same(k)
      BY <2>1, <2>2, <2>6 DEF Same
    <2> QED BY <2>1, <2>7
  <1>4. \A m \in 0..(n - i) : m \in S
    <2> HIDE DEF S, n
    <2> QED BY <1>1, <1>2, <1>3, UpTo
  <1>5. n - i \in S
    <2> HIDE DEF S, n
    <2>1. n - i \in 0..(n - i)
      BY <1>1
    <2> QED BY <1>4, <2>1
  <1> QED BY <1>1, <1>5

LEMMA BatchAnswers ==
    ASSUME bpts \in Bpts, NEW tool \in Calls, NEW items \in Seq(Wanted), Batch(tool, items)
    PROVE  bpts' \in Bpts /\ BatchesAreAnswered'
  <1> DEFINE n == Len(items)
             left == Left(tool, items)
             replies == [i \in 1..n |-> Handled(tool, left[i - 1], items[i]).reply]
             set(i) == {items[j].cond : j \in {k \in 1..i : replies[k] \in Stored}}
  <1>1. /\ bpts' = left[n]
        /\ batch' = [tool |-> tool, items |-> items, before |-> bpts, replies |-> replies]
    BY DEF Batch
  <1>2. /\ left \in [0..n -> Bpts] /\ left[0] = bpts
        /\ \A k \in 1..n : left[k] = Handled(tool, left[k - 1], items[k]).bpts
    BY LeftIs
  <1>3. n \in Nat /\ Len(replies) = n /\ \A k \in 1..n : items[k] \in Wanted
    OBVIOUS
  <1> HIDE DEF left
  <1>4. ASSUME NEW a \in Known \ {items[i].addr : i \in 1..n}
        PROVE  /\ a \in DOMAIN bpts' <=> a \in DOMAIN bpts
               /\ a \in DOMAIN bpts' => bpts'[a] = bpts[a]
    <2>1. 0 \in 0..n /\ \A k \in (0 + 1)..n : items[k].addr # a
      BY <1>3
    <2>2. (a \in DOMAIN left[n] <=> a \in DOMAIN left[0]) /\ (a \in DOMAIN left[0] => left[n][a] = left[0][a])
      <3> HIDE DEF replies, set
      <3> QED BY <2>1, <1>2, OthersKept, ZenonT(30)
    <2> QED BY <1>1, <1>2, <2>2
  <1>5. ASSUME NEW i \in 1..n
        PROVE  HandledWell(tool, left[i - 1], items[i]) /\ left[i - 1] \in Bpts /\ left[i] \in Bpts
    <2>1. i - 1 \in 0..n /\ i \in 0..n
      BY <1>3
    <2> QED BY <1>2, <1>3, <2>1, AllHandledWell
  <1>6. ASSUME NEW i \in 1..n, \A j \in (i + 1)..n : items[j].addr # items[i].addr,
               replies[i] = "ok"
        PROVE  Holds(tool, items[i])'
    <2>1. left[i] = Handled(tool, left[i - 1], items[i]).bpts /\ Handled(tool, left[i - 1], items[i]).reply = "ok"
      BY <1>2, <1>6
    <2> DEFINE a == items[i].addr
    <2>2. CASE a \in Known
      <3>1. i \in 0..n
        BY <1>3
      <3>2. (a \in DOMAIN left[n] <=> a \in DOMAIN left[i]) /\ (a \in DOMAIN left[i] => left[n][a] = left[i][a])
        <4>1. \A k \in (i + 1)..n : items[k].addr # a
          BY <1>6
        <4> HIDE DEF a
        <4> QED BY <1>2, <2>2, <3>1, <4>1, OthersKept
      <3> QED BY <1>1, <1>5, <2>1, <3>2 DEF Holds, HandledWell
    <2>3. CASE a \notin Known
      <3>1. a \notin DOMAIN left[i] /\ a \notin DOMAIN left[n]
        BY <1>2, <1>3, <1>5, <2>3, BptsAre
      <3> QED BY <1>1, <1>5, <2>1, <3>1 DEF Holds, HandledWell, Calls
    <2> QED BY <2>2, <2>3
  <1>7. ASSUME tool = "condition"
        PROVE \A i \in 0..n : \A a \in DOMAIN bpts :
                a \in DOMAIN left[i] /\ left[i][a].cond \in {"none", bpts[a].cond} \union set(i)
    <2> DEFINE S == {i \in 0..n : \A a \in DOMAIN bpts :
                       a \in DOMAIN left[i] /\ left[i][a].cond \in {"none", bpts[a].cond} \union set(i)}
    <2>1. 0 \in S
      BY <1>2, <1>3
    <2>2. ASSUME NEW i \in 0..(n - 1), i \in S PROVE i + 1 \in S
      <3> DEFINE k == i + 1
                 a == items[k].addr
      <3>1. k \in 1..n /\ k - 1 = i /\ k \in 0..n /\ set(i) \subseteq set(k)
        <4>1. k \in 1..n /\ k - 1 = i /\ k \in 0..n /\ 1..i \subseteq 1..k
          BY <1>3
        <4> HIDE DEF k, replies
        <4> QED BY <4>1
      <3>2. replies[k] \in Stored => items[k].cond \in set(k)
        <4>1. k \in 1..k
          BY <1>3, <3>1
        <4> HIDE DEF k, replies
        <4> QED BY <4>1
      <3>3. replies[k] = Handled(tool, left[i], items[k]).reply /\ left[k] = Handled(tool, left[i], items[k]).bpts
        BY <1>2, <3>1
      <3>4. \A x \in DOMAIN bpts : x \in DOMAIN left[i] /\ left[i][x].cond \in {"none", bpts[x].cond} \union set(i)
        BY <2>2
      <3>5. HandledWell(tool, left[i], items[k]) /\ left[i] \in Bpts
        BY <1>5, <3>1
      <3> HIDE DEF set, replies, k
      <3>6. ASSUME NEW x \in DOMAIN bpts
            PROVE  x \in DOMAIN left[k] /\ left[k][x].cond \in {"none", bpts[x].cond} \union set(k)
        <4>1. x \in Known /\ x \in DOMAIN left[k]
          BY <1>7, <3>3, <3>4, <3>5, BptsAre DEF HandledWell
        <4>2. CASE x # a
          <5>1. left[k][x] = left[i][x]
            BY <3>3, <3>4, <3>5, <4>1, <4>2 DEF HandledWell
          <5> QED BY <3>1, <3>4, <4>1, <5>1
        <4>3. CASE x = a
          <5>1. \/ left[k][x].cond \in {"none", left[i][x].cond}
                \/ left[k][x].cond = items[k].cond /\ replies[k] \in Stored
            BY <1>7, <3>3, <3>4, <3>5, <4>3 DEF HandledWell
          <5> QED BY <3>1, <3>2, <3>4, <4>1, <5>1
        <4> QED BY <4>2, <4>3
      <3> QED BY <3>1, <3>6 DEF k
    <2>3. \A i \in 0..n : i \in S
      <3> HIDE DEF S
      <3> QED BY <1>3, <2>1, <2>2, UpTo, SMTT(30)
    <2> QED BY <2>3
  <1>8. bpts' \in Bpts
    BY <1>1, <1>2, <1>3
  <1>9. ASSUME NEW i \in 1..n, \A j \in (i + 1)..n : items[j].addr # items[i].addr,
               tool = "condition", items[i].addr \in DOMAIN bpts
        PROVE  /\ items[i].addr \in DOMAIN bpts'
               /\ bpts'[items[i].addr].cond \in {"none", bpts[items[i].addr].cond} \union set(i)
    <2> DEFINE a == items[i].addr
    <2>1. i \in 0..n /\ a \in Known
      BY <1>3, <1>9, BptsAre
    <2>2. (a \in DOMAIN left[n] <=> a \in DOMAIN left[i]) /\ (a \in DOMAIN left[i] => left[n][a] = left[i][a])
      <3>1. \A k \in (i + 1)..n : items[k].addr # a
        BY <1>9
      <3> HIDE DEF a
      <3> QED BY <1>2, <2>1, <3>1, OthersKept
    <2>3. a \in DOMAIN left[i] /\ left[i][a].cond \in {"none", bpts[a].cond} \union set(i)
      BY <1>7, <1>9, <2>1
    <2> QED BY <1>1, <2>2, <2>3
  <1>10. BatchesAreAnswered'
    <2>1. /\ batch'.tool = tool /\ batch'.items = items /\ batch'.before = bpts /\ batch'.replies = replies
      BY <1>1
    <2> HIDE DEF replies
    <2> QED BY <1>3, <1>4, <1>6, <1>9, <2>1, SMTT(30) DEF BatchesAreAnswered
  <1> QED BY <1>8, <1>10

-----------------------------------------------------------------------------
(***************************************************************************)
(* Patches.  The addresses looked at rise, and so do the listed ones: the  *)
(* list is full, or has every patch looked at so far.                      *)
(***************************************************************************)

(* A rising sequence has as many elements as it is long. *)
LEMMA RisingCounts ==
    ASSUME NEW s \in Seq(Nat), Rising(s), NEW k \in 0..Len(s)
    PROVE  IsFiniteSet({s[i] : i \in 1..k}) /\ Cardinality({s[i] : i \in 1..k}) = k
  <1> DEFINE n == Len(s)
             R(m) == {s[i] : i \in 1..m}
             P(m) == IsFiniteSet(R(m)) /\ Cardinality(R(m)) = m
             S == {m \in 0..n : P(m)}
  <1>1. n \in Nat
    OBVIOUS
  <1>2. 0 \in S
    <2>1. R(0) = {}
      OBVIOUS
    <2> HIDE DEF R
    <2>2. P(0)
      BY <2>1, FS_EmptySet
    <2> HIDE DEF P
    <2> QED BY <1>1, <2>2
  <1>3. ASSUME NEW m \in 0..(n - 1), m \in S PROVE m + 1 \in S
    <2>1. m + 1 \in 1..n /\ m + 1 \in 0..n /\ P(m) /\ m \in Nat
      BY <1>1, <1>3
    <2>2. R(m + 1) = R(m) \union {s[m + 1]}
      <3>1. 1..(m + 1) = 1..m \union {m + 1}
        BY <2>1
      <3> QED BY <3>1
    <2>3. s[m + 1] \notin R(m)
      <3>1. ASSUME NEW i \in 1..m PROVE s[i] # s[m + 1]
        <4>1. i \in 1..n /\ i < m + 1 /\ s[i] \in Nat /\ s[m + 1] \in Nat
          BY <2>1
        <4>2. s[i] < s[m + 1]
          BY <2>1, <4>1 DEF Rising
        <4> QED BY <4>1, <4>2
      <3> QED BY <3>1
    <2> HIDE DEF R
    <2>4. P(m + 1)
      <3>1. IsFiniteSet(R(m)) /\ Cardinality(R(m)) = m
        BY <2>1
      <3>2. IsFiniteSet(R(m) \union {s[m + 1]}) /\ Cardinality(R(m) \union {s[m + 1]}) = m + 1
        BY <2>3, <3>1, FS_AddElement
      <3> QED BY <2>2, <3>2
    <2> HIDE DEF P
    <2> QED BY <2>1, <2>4
  <1>4. \A m \in 0..n : m \in S
    <2> HIDE DEF S
    <2> QED BY <1>1, <1>2, <1>3, UpTo
  <1> QED BY <1>4

LEMMA WindowIs ==
    ASSUME NEW s \in [start : Nat, end : Nat]
    PROVE  /\ Window(s) \in Seq(Nat) /\ Rising(Window(s))
           /\ \A k \in 1..Len(Window(s)) : s.start <= Window(s)[k] /\ Window(s)[k] < s.end
  <1> DEFINE w == Min({PatchWindow, Max({0, s.end - s.start})})
  <1>1. s.start \in Nat /\ s.end \in Nat /\ PatchWindow \in Nat
    BY EditSessionAssumption
  <1>2. PICK m : m = Max({0, s.end - s.start}) /\ m \in Nat /\ (m = 0 \/ m = s.end - s.start)
    BY <1>1, MinMaxOfTwo
  <1>3. w \in Nat /\ (w = 0 \/ w <= s.end - s.start)
    BY <1>1, <1>2, MinMaxOfTwo
  <1>4. Window(s) = [k \in 1..w |-> s.start + k - 1]
    BY DEF Window
  <1> HIDE DEF w
  <1>5. \A k \in 1..w : s.start + k - 1 \in Nat /\ s.start + k - 1 < s.end
    BY <1>1, <1>3
  <1>6. Window(s) \in Seq(Nat) /\ Len(Window(s)) = w
    <2>1. Window(s) \in [1..w -> Nat]
      BY <1>4, <1>5
    <2> QED BY <1>3, <2>1
  <1>7. \A k \in 1..w : Window(s)[k] = s.start + k - 1
    BY <1>4
  <1> QED BY <1>1, <1>3, <1>5, <1>6, <1>7, SMTT(30) DEF Rising

(* The addresses looked at come in order, and are those of segments. *)
LEMMA LookedIs ==
    Looked \in Seq(Nat) /\ Rising(Looked) /\ \A k \in 1..Len(Looked) : Looked[k] \in Mapped
  <1> DEFINE n == Len(Segments)
             Rec(g) == g = [i \in 0..n |-> IF i = 0 THEN <<>> ELSE g[i - 1] \o Window(Segments[i])]
             F == [p \in Seq(Nat) \X (1..n) |-> p[1] \o Window(Segments[p[2]])]
             upTo == CHOOSE g : Rec(g)
  <1>1. /\ n \in Nat /\ <<>> \in Seq(Nat)
        /\ \A k \in 1..n : Segments[k] \in [start : Nat, end : Nat]
    <2> DEFINE R == [start : Nat, end : Nat]
    <2>1. Segments \in Seq(R)
      BY EditSessionAssumption
    <2> HIDE DEF R
    <2>2. n \in Nat /\ \A k \in 1..n : Segments[k] \in R
      BY <2>1
    <2> QED BY <2>2 DEF R
  <1>2. F \in [Seq(Nat) \X (1..n) -> Seq(Nat)]
    <2>1. ASSUME NEW p \in Seq(Nat) \X (1..n) PROVE p[1] \o Window(Segments[p[2]]) \in Seq(Nat)
      <3>1. p[1] \in Seq(Nat) /\ Window(Segments[p[2]]) \in Seq(Nat)
        BY <1>1, WindowIs
      <3> HIDE DEF n
      <3> QED BY <3>1, ConcatProperties
    <2> HIDE DEF n
    <2> QED BY <2>1
  <1>3. PICK f : Solves(f, Seq(Nat), <<>>, n, F)
    <2> HIDE DEF F, n
    <2> QED BY <1>1, <1>2, RecursionExists, Zenon
  <1>4. ASSUME NEW k \in 1..n PROVE f[k] = f[k - 1] \o Window(Segments[k])
    <2>1. k - 1 \in 0..n
      BY <1>1
    <2>2. <<f[k - 1], k>> \in Seq(Nat) \X (1..n)
      BY <2>1, <1>3 DEF Solves
    <2> QED BY <2>2, <1>3 DEF Solves
  <1>5. f \in [0..n -> Seq(Nat)] /\ f[0] = <<>>
    BY <1>3 DEF Solves
  <1>6. Rec(f)
    <2>1. \A i \in 0..n : i # 0 => i \in 1..n
      BY <1>1
    <2> HIDE DEF n
    <2> QED BY <1>4, <1>5, <2>1, Zenon
  <1>7. Looked = upTo[n] /\ Rec(upTo)
    <2>1. Looked = upTo[n]
      BY DEF Looked
    <2>2. Rec(upTo)
      <3> HIDE DEF Rec
      <3> QED BY <1>6
    <2> QED BY <2>1, <2>2, Zenon
  <1>8. /\ upTo[0] = <<>>
        /\ \A k \in 1..n : upTo[k] = upTo[k - 1] \o Window(Segments[k])
    <2>1. 0 \in 0..n /\ \A k \in 1..n : k \in 0..n /\ k # 0
      BY <1>1
    <2> HIDE DEF n, upTo
    <2> QED BY <1>7, <2>1
  <1> HIDE DEF upTo
  <1> DEFINE In(i, x) == \E j \in 1..i : Segments[j].start <= x /\ x < Segments[j].end
             P(i) == /\ upTo[i] \in Seq(Nat) /\ Rising(upTo[i])
                     /\ \A k \in 1..Len(upTo[i]) : In(i, upTo[i][k])
             S == {i \in 0..n : P(i)}
  <1>9. 0 \in S
    <2>1. Len(upTo[0]) = 0 /\ upTo[0] \in Seq(Nat) /\ 0 \in 0..n
      BY <1>1, <1>8
    <2>2. P(0)
      BY <2>1 DEF Rising
    <2> HIDE DEF P
    <2> QED BY <2>1, <2>2
  <1>10. ASSUME NEW i \in 0..(n - 1), i \in S PROVE i + 1 \in S
    <2> DEFINE a == upTo[i]
               w == Window(Segments[i + 1])
               c == upTo[i + 1]
    <2>1. i + 1 \in 1..n /\ i + 1 \in 0..n /\ (i + 1) - 1 = i /\ P(i) /\ i \in Nat
      <3> HIDE DEF P, n
      <3> QED BY <1>1, <1>10
    <2>2. c = a \o w
      BY <1>8, <2>1
    <2>3. /\ w \in Seq(Nat) /\ Rising(w)
          /\ \A k \in 1..Len(w) : Segments[i + 1].start <= w[k] /\ w[k] < Segments[i + 1].end
      BY <1>1, <2>1, WindowIs
    <2>4. a \in Seq(Nat) /\ Rising(a) /\ \A k \in 1..Len(a) : In(i, a[k])
      BY <2>1
    <2> HIDE DEF a, w, c, n
    <2>5. /\ c \in Seq(Nat) /\ Len(c) = Len(a) + Len(w) /\ Len(a) \in Nat /\ Len(w) \in Nat
          /\ \A k \in 1..Len(c) : c[k] = IF k <= Len(a) THEN a[k] ELSE w[k - Len(a)]
      BY <2>2, <2>3, <2>4, ConcatProperties
    <2>6. ASSUME NEW k \in 1..Len(a) PROVE a[k] \in Nat /\ a[k] < Segments[i + 1].start
      <3>1. PICK j \in 1..i : Segments[j].start <= a[k] /\ a[k] < Segments[j].end
        BY <2>4
      <3>2. j \in 1..n /\ j < i + 1
        BY <1>1, <2>1
      <3>3. Segments[j].end <= Segments[i + 1].start
        BY <2>1, <3>2, EditSessionAssumption DEF n
      <3>4. a[k] \in Nat /\ Segments[j].end \in Nat /\ Segments[i + 1].start \in Nat
        BY <1>1, <2>1, <2>4, <3>2
      <3> QED BY <3>1, <3>3, <3>4
    <2>7. Rising(c)
      <3> SUFFICES ASSUME NEW k \in 1..Len(c), NEW l \in 1..Len(c), k < l PROVE c[k] < c[l]
        BY DEF Rising
      <3>1. CASE l <= Len(a)
        <4>1. k \in 1..Len(a) /\ l \in 1..Len(a)
          BY <2>5, <3>1
        <4>2. c[k] = a[k] /\ c[l] = a[l]
          BY <2>5, <3>1, <4>1
        <4> QED BY <2>4, <4>1, <4>2 DEF Rising
      <3>2. CASE k <= Len(a) /\ ~ (l <= Len(a))
        <4>1. k \in 1..Len(a) /\ l - Len(a) \in 1..Len(w) /\ c[k] = a[k] /\ c[l] = w[l - Len(a)]
          BY <2>5, <3>2
        <4>2. a[k] \in Nat /\ a[k] < Segments[i + 1].start /\ Segments[i + 1].start <= w[l - Len(a)]
          BY <2>3, <2>6, <4>1
        <4>3. Segments[i + 1].start \in Nat /\ w[l - Len(a)] \in Nat
          BY <1>1, <2>1, <2>3, <4>1
        <4> QED BY <4>1, <4>2, <4>3
      <3>3. CASE ~ (k <= Len(a))
        <4>1. /\ k - Len(a) \in 1..Len(w) /\ l - Len(a) \in 1..Len(w) /\ k - Len(a) < l - Len(a)
              /\ c[k] = w[k - Len(a)] /\ c[l] = w[l - Len(a)]
          BY <2>5, <3>3, SMTT(20)
        <4> QED BY <2>3, <4>1 DEF Rising
      <3> QED BY <2>5, <3>1, <3>2, <3>3
    <2>8. ASSUME NEW k \in 1..Len(c) PROVE In(i + 1, c[k])
      <3>1. CASE k <= Len(a)
        <4>1. In(i, a[k]) /\ c[k] = a[k]
          BY <2>4, <2>5, <3>1
        <4>2. 1..i \subseteq 1..(i + 1)
          BY <2>1
        <4> QED BY <4>1, <4>2
      <3>2. CASE ~ (k <= Len(a))
        <4>1. k - Len(a) \in 1..Len(w) /\ c[k] = w[k - Len(a)]
          BY <2>5, <3>2
        <4>2. i + 1 \in 1..(i + 1)
          BY <2>1
        <4> QED BY <2>3, <4>1, <4>2
      <3> QED BY <3>1, <3>2
    <2> QED BY <2>1, <2>5, <2>7, <2>8 DEF c
  <1>11. \A i \in 0..n : i \in S
    <2> HIDE DEF S
    <2> QED BY <1>1, <1>9, <1>10, UpTo
  <1>12. P(n)
    BY <1>1, <1>11
  <1>13. ASSUME NEW x \in Nat, In(n, x) PROVE x \in Mapped
    <2>1. PICK j \in 1..n : Segments[j].start <= x /\ x < Segments[j].end
      BY <1>13
    <2>2. Segments[j] \in ToSet(Segments)
      <3>1. DOMAIN Segments = 1..n
        BY EditSessionAssumption
      <3> QED BY <2>1, <3>1 DEF ToSet
    <2>3. x \in Segments[j].start..(Segments[j].end - 1)
      BY <1>1, <2>1
    <2> QED BY <2>2, <2>3 DEF Mapped
  <1>14. upTo[n] \in Seq(Nat)
    BY <1>12
  <1>15. \A k \in 1..Len(upTo[n]) : upTo[n][k] \in Nat /\ In(n, upTo[n][k])
    BY <1>12, <1>14
  <1> HIDE DEF In
  <1> QED BY <1>7, <1>12, <1>13, <1>15

(* What is listed after the first n addresses, of those patched so far. *)
LEMMA ListIs ==
    ASSUME NEW made, made = {Looked[i] : i \in {j \in 1..Len(Looked) : bytes[Looked[j]] # Original(Looked[j])}}
    PROVE  /\ ListPatches \in Seq(Nat) /\ Rising(ListPatches) /\ Len(ListPatches) <= PatchCap
           /\ \A i \in 1..Len(ListPatches) : ListPatches[i] \in made
           /\ \A a \in made : \/ \E i \in 1..Len(ListPatches) : ListPatches[i] = a
                              \/ /\ Len(ListPatches) = PatchCap
                                 /\ \A i \in 1..Len(ListPatches) : ListPatches[i] < a
  <1> DEFINE L == Looked
             n == Len(L)
             same(k) == bytes[L[k]] = Original(L[k])
             Rec(g) == g = [k \in 0..n |-> IF k = 0 THEN <<>>
                                           ELSE IF same(k) \/ Len(g[k - 1]) >= PatchCap
                                           THEN g[k - 1] ELSE Append(g[k - 1], L[k])]
             F == [p \in Seq(Nat) \X (1..n) |->
                      IF same(p[2]) \/ Len(p[1]) >= PatchCap THEN p[1] ELSE Append(p[1], L[p[2]])]
             listed == CHOOSE g : Rec(g)
  <1>1. /\ n \in Nat /\ <<>> \in Seq(Nat) /\ PatchCap \in Nat /\ PatchCap > 0
        /\ L \in Seq(Nat) /\ Rising(L) /\ \A k \in 1..n : L[k] \in Nat
    BY EditSessionAssumption, LookedIs
  <1>2. F \in [Seq(Nat) \X (1..n) -> Seq(Nat)]
    <2>1. ASSUME NEW p \in Seq(Nat) \X (1..n)
          PROVE  (IF same(p[2]) \/ Len(p[1]) >= PatchCap THEN p[1] ELSE Append(p[1], L[p[2]])) \in Seq(Nat)
      <3>1. p[1] \in Seq(Nat) /\ L[p[2]] \in Nat
        BY <1>1
      <3>2. Append(p[1], L[p[2]]) \in Seq(Nat)
        BY <3>1, AppendProperties
      <3> QED BY <3>1, <3>2
    <2> HIDE DEF n, L, same
    <2> QED BY <2>1
  <1>3. PICK f : Solves(f, Seq(Nat), <<>>, n, F)
    <2> HIDE DEF F, n
    <2> QED BY <1>1, <1>2, RecursionExists, Zenon
  <1>4. f \in [0..n -> Seq(Nat)] /\ f[0] = <<>>
    BY <1>3 DEF Solves
  <1>5. ASSUME NEW k \in 1..n
        PROVE  f[k] = IF same(k) \/ Len(f[k - 1]) >= PatchCap THEN f[k - 1] ELSE Append(f[k - 1], L[k])
    <2>1. k - 1 \in 0..n
      BY <1>1
    <2>2. <<f[k - 1], k>> \in Seq(Nat) \X (1..n)
      BY <1>4, <2>1
    <2>3. f[k] = F[<<f[k - 1], k>>]
      BY <1>3 DEF Solves
    <2> HIDE DEF n, L, same
    <2> QED BY <2>2, <2>3
  <1>6. Rec(f)
    <2>1. \A i \in 0..n : i # 0 => i \in 1..n
      BY <1>1
    <2> HIDE DEF n, L, same
    <2> QED BY <1>4, <1>5, <2>1
  <1>7. ListPatches = listed[n] /\ Rec(listed)
    <2>1. ListPatches = listed[n]
      BY DEF ListPatches
    <2>2. Rec(listed)
      <3> HIDE DEF Rec
      <3> QED BY <1>6
    <2> QED BY <2>1, <2>2, Zenon
  <1>8. /\ listed[0] = <<>>
        /\ \A k \in 1..n : listed[k] = IF same(k) \/ Len(listed[k - 1]) >= PatchCap
                                       THEN listed[k - 1] ELSE Append(listed[k - 1], L[k])
    <2>1. 0 \in 0..n /\ \A k \in 1..n : k \in 0..n /\ k # 0
      BY <1>1
    <2> HIDE DEF n, L, same, listed
    <2> QED BY <1>7, <2>1
  <1> HIDE DEF listed
  <1> DEFINE Has(s, a) == \E i \in 1..Len(s) : s[i] = a
             Good(s, k) == /\ s \in Seq(Nat) /\ Rising(s) /\ Len(s) <= PatchCap
                           /\ \A i \in 1..Len(s) : \E j \in 1..k : s[i] = L[j] /\ ~ same(j)
                           /\ \A j \in 1..k : same(j) \/ Has(s, L[j])
                                 \/ (Len(s) = PatchCap /\ \A i \in 1..Len(s) : s[i] < L[j])
             S == {k \in 0..n : Good(listed[k], k)}
  <1>9. 0 \in S
    <2>1. <<>> \in Seq(Nat) /\ Len(<<>>) = 0 /\ 0 \in 0..n
      BY <1>1
    <2>2. Good(<<>>, 0)
      BY <1>1, <2>1 DEF Rising
    <2> HIDE DEF Good
    <2> QED BY <1>8, <2>1, <2>2
  <1>10. ASSUME NEW m \in 0..(n - 1), m \in S PROVE m + 1 \in S
    <2> DEFINE k == m + 1
               s == listed[m]
    <2>1. k \in 1..n /\ k \in 0..n /\ k - 1 = m /\ m \in Nat /\ 1..k = 1..m \union {k}
      BY <1>1
    <2>2. Good(s, m)
      BY <1>10
    <2>3. listed[k] = IF same(k) \/ Len(s) >= PatchCap THEN s ELSE Append(s, L[k])
      BY <1>8, <2>1
    <2>4. /\ s \in Seq(Nat) /\ Rising(s) /\ Len(s) <= PatchCap /\ Len(s) \in Nat
          /\ \A i \in 1..Len(s) : \E j \in 1..m : s[i] = L[j] /\ ~ same(j)
          /\ \A j \in 1..m : same(j) \/ Has(s, L[j])
                \/ (Len(s) = PatchCap /\ \A i \in 1..Len(s) : s[i] < L[j])
      BY <2>2
    <2>5. L[k] \in Nat /\ \A i \in 1..Len(s) : s[i] \in Nat /\ s[i] < L[k]
      <3>1. ASSUME NEW i \in 1..Len(s) PROVE s[i] < L[k]
        <4>1. PICK j \in 1..m : s[i] = L[j]
          BY <2>4
        <4>2. j \in 1..n /\ j < k
          BY <1>1, <2>1
        <4> QED BY <1>1, <2>1, <4>1, <4>2 DEF Rising
      <3>2. L[k] \in Nat /\ \A i \in 1..Len(s) : s[i] \in Nat
        <4>1. L[k] \in Nat
          BY <1>1, <2>1
        <4> HIDE DEF L, k, s
        <4> QED BY <2>4, <4>1
      <3> QED BY <3>1, <3>2
    <2> HIDE DEF k, s, n, L
    <2>6. CASE same(k)
      <3> HIDE DEF same, Has
      <3>1. Good(s, k)
        BY <2>1, <2>4, <2>6
      <3> HIDE DEF Good
      <3> QED BY <2>1, <2>3, <2>6, <3>1 DEF k
    <2>7. CASE ~ same(k) /\ Len(s) >= PatchCap
      <3> HIDE DEF same, Has
      <3>1. Len(s) = PatchCap
        BY <1>1, <2>4, <2>7
      <3>2. Good(s, k)
        BY <2>1, <2>4, <2>5, <3>1
      <3> HIDE DEF Good
      <3> QED BY <2>1, <2>3, <2>7, <3>2 DEF k
    <2>8. CASE ~ same(k) /\ ~ (Len(s) >= PatchCap)
      <3> DEFINE c == Append(s, L[k])
      <3>1. /\ c \in Seq(Nat) /\ Len(c) = Len(s) + 1
            /\ \A i \in 1..Len(s) : c[i] = s[i]
            /\ c[Len(s) + 1] = L[k]
        BY <2>4, <2>5, AppendProperties
      <3> HIDE DEF c, same
      <3>2. Rising(c)
        <4> SUFFICES ASSUME NEW i \in 1..Len(c), NEW j \in 1..Len(c), i < j PROVE c[i] < c[j]
          BY DEF Rising
        <4>1. CASE j \in 1..Len(s)
          <5>1. i \in 1..Len(s)
            BY <2>4, <3>1, <4>1
          <5> QED BY <2>4, <3>1, <4>1, <5>1 DEF Rising
        <4>2. CASE j = Len(s) + 1
          <5>1. i \in 1..Len(s)
            BY <2>4, <3>1, <4>2
          <5>2. c[i] = s[i] /\ s[i] < L[k] /\ c[j] = L[k]
            BY <2>5, <3>1, <4>2, <5>1
          <5> QED BY <5>2
        <4>3. j \in 1..Len(s) \/ j = Len(s) + 1
          <5>1. j \in 1..(Len(s) + 1)
            BY <3>1
          <5>2. Len(s) \in Nat
            BY <2>4
          <5> QED BY <5>1, <5>2
        <4> QED BY <4>1, <4>2, <4>3
      <3>3. Len(c) <= PatchCap
        BY <1>1, <2>4, <2>8, <3>1
      <3>4. ASSUME NEW i \in 1..Len(c) PROVE \E j \in 1..k : c[i] = L[j] /\ ~ same(j)
        <4>1. CASE i \in 1..Len(s)
          BY <2>1, <2>4, <3>1, <4>1
        <4>2. CASE i = Len(s) + 1
          BY <2>1, <2>8, <3>1, <4>2
        <4> QED BY <2>4, <3>1, <4>1, <4>2
      <3>5. ASSUME NEW j \in 1..k PROVE same(j) \/ Has(c, L[j])
        <4>1. CASE j = k
          <5>1. Len(s) + 1 \in 1..Len(c)
            BY <2>4, <3>1
          <5> QED BY <3>1, <4>1, <5>1
        <4>2. CASE j \in 1..m
          <5>1. same(j) \/ Has(s, L[j])
            BY <2>4, <2>8, <4>2, <1>1
          <5>2. 1..Len(s) \subseteq 1..Len(c)
            BY <2>4, <3>1
          <5> QED BY <3>1, <5>1, <5>2
        <4> QED BY <2>1, <4>1, <4>2
      <3>6. Good(c, k)
        <4> HIDE DEF Has
        <4> QED BY <3>1, <3>2, <3>3, <3>4, <3>5
      <3> HIDE DEF Good
      <3> QED BY <2>1, <2>3, <2>8, <3>6 DEF k, c
    <2> QED BY <2>6, <2>7, <2>8
  <1>11. \A k \in 0..n : k \in S
    <2> HIDE DEF S, n
    <2> QED BY <1>1, <1>9, <1>10, UpTo
  <1>12. Good(ListPatches, n)
    <2> HIDE DEF Good, n, Rec
    <2>1. n \in 0..n
      BY <1>1
    <2>2. n \in S
      BY <1>11, <2>1
    <2> QED BY <1>7, <2>2
  <1>13. made = {L[j] : j \in {i \in 1..n : ~ same(i)}}
    OBVIOUS
  <1>14. ASSUME NEW a \in made
         PROVE  Has(ListPatches, a) \/ (Len(ListPatches) = PatchCap /\ \A i \in 1..Len(ListPatches) : ListPatches[i] < a)
    <2>1. PICK j \in 1..n : a = L[j] /\ ~ same(j)
      BY <1>13
    <2> HIDE DEF Has, same, L, n
    <2> QED BY <1>12, <2>1
  <1>15. ASSUME NEW i \in 1..Len(ListPatches) PROVE ListPatches[i] \in made
    <2>1. PICK j \in 1..n : ListPatches[i] = L[j] /\ ~ same(j)
      BY <1>12
    <2> HIDE DEF same, L, n
    <2> QED BY <1>13, <2>1
  <1>16. ListPatches \in Seq(Nat) /\ Rising(ListPatches) /\ Len(ListPatches) <= PatchCap
    BY <1>12
  <1> HIDE DEF Rec, F, S, Good, L, n, same
  <1> QED BY <1>14, <1>15, <1>16

(* Listed are the patches that fewer than PatchCap others come before. *)
LEMMA ListedFirst ==
    ASSUME NEW made, made = {Looked[i] : i \in {j \in 1..Len(Looked) : bytes[Looked[j]] # Original(Looked[j])}}
    PROVE  ToSet(ListPatches) = {a \in made : Cardinality({b \in made : b < a}) < PatchCap}
  <1> DEFINE s == ListPatches
             m == Len(s)
             Firsts(k) == {s[i] : i \in 1..k}
             Lower(a) == {b \in made : b < a}
  <1>1. /\ s \in Seq(Nat) /\ Rising(s) /\ m <= PatchCap /\ m \in Nat /\ PatchCap \in Nat
        /\ \A i \in 1..m : s[i] \in made /\ s[i] \in Nat
        /\ \A a \in made : \/ \E i \in 1..m : s[i] = a
                           \/ m = PatchCap /\ \A i \in 1..m : s[i] < a
    <2>1. /\ s \in Seq(Nat) /\ Rising(s) /\ m <= PatchCap
          /\ \A i \in 1..m : s[i] \in made
          /\ \A a \in made : \/ \E i \in 1..m : s[i] = a
                             \/ m = PatchCap /\ \A i \in 1..m : s[i] < a
      BY ListIs
    <2>2. PatchCap \in Nat
      BY EditSessionAssumption
    <2> HIDE DEF s
    <2> QED BY <2>1, <2>2
  <1>2. ToSet(ListPatches) = Firsts(m)
    BY <1>1 DEF ToSet
  <1>3. IsFiniteSet(made) /\ made \subseteq Nat
    <2> DEFINE J == {j \in 1..Len(Looked) : bytes[Looked[j]] # Original(Looked[j])}
    <2>1. Len(Looked) \in Nat /\ \A j \in 1..Len(Looked) : Looked[j] \in Nat
      BY LookedIs
    <2>2. IsFiniteSet(1..Len(Looked))
      BY <2>1, FS_Interval
    <2>3. IsFiniteSet(J)
      BY <2>2, FS_Subset
    <2>4. IsFiniteSet(made)
      <3>1. [i \in J |-> Looked[i]] \in Surjection(J, made)
        BY DEF Surjection
      <3> HIDE DEF J
      <3> QED BY <2>3, <3>1, FS_Surjection
    <2> QED BY <2>1, <2>4
  <1> HIDE DEF s, m
  <1>4. ASSUME NEW i \in 1..m PROVE s[i] \in made /\ Cardinality(Lower(s[i])) < PatchCap
    <2>1. i - 1 \in 0..m /\ i \in Nat
      BY <1>1
    <2>2. Lower(s[i]) \subseteq Firsts(i - 1)
      <3>1. ASSUME NEW b \in made, b < s[i] PROVE b \in Firsts(i - 1)
        <4>1. PICK j \in 1..m : s[j] = b
          <5>1. b \in Nat /\ s[i] \in Nat
            BY <1>1, <1>3
          <5>2. ~ (s[i] < b)
            BY <3>1, <5>1
          <5>3. (\E j \in 1..m : s[j] = b) \/ (\A j \in 1..m : s[j] < b)
            BY <1>1
          <5> QED BY <5>2, <5>3
        <4>2. ~ (i <= j)
          <5>1. i < j => s[i] < s[j]
            BY <1>1, <4>1 DEF Rising, m
          <5>2. b \in Nat /\ s[i] \in Nat /\ i \in Nat /\ j \in Nat
            BY <1>1, <1>3, <4>1
          <5> QED BY <3>1, <4>1, <5>1, <5>2
        <4>3. j \in 1..(i - 1)
          BY <1>1, <4>2
        <4> QED BY <4>1, <4>3
      <3> QED BY <3>1
    <2>3. IsFiniteSet(Firsts(i - 1)) /\ Cardinality(Firsts(i - 1)) = i - 1
      BY <1>1, <2>1, RisingCounts DEF m
    <2> HIDE DEF Firsts, Lower
    <2>4. Cardinality(Lower(s[i])) <= i - 1 /\ Cardinality(Lower(s[i])) \in Nat
      BY <2>2, <2>3, FS_Subset, FS_CardinalityType
    <2> QED BY <1>1, <2>1, <2>4
  <1>5. ASSUME NEW a \in made, Cardinality(Lower(a)) < PatchCap PROVE a \in Firsts(m)
    <2>1. SUFFICES ASSUME m = PatchCap, \A i \in 1..m : s[i] < a PROVE FALSE
      BY <1>1
    <2>2. Firsts(m) \subseteq Lower(a)
      BY <1>1, <2>1
    <2>3. Cardinality(Firsts(m)) = m
      <3>1. m \in 0..m
        BY <1>1
      <3> QED BY <1>1, <3>1, RisingCounts DEF m
    <2>4. IsFiniteSet(Lower(a))
      BY <1>3, FS_Subset
    <2> HIDE DEF Firsts, Lower
    <2>5. Cardinality(Firsts(m)) <= Cardinality(Lower(a)) /\ Cardinality(Lower(a)) \in Nat
      BY <2>2, <2>4, FS_Subset, FS_CardinalityType
    <2> QED BY <1>1, <1>5, <2>1, <2>3, <2>5
  <1>6. Firsts(m) \subseteq {a \in made : Cardinality(Lower(a)) < PatchCap}
    <2> HIDE DEF Lower
    <2> QED BY <1>4
  <1>7. {a \in made : Cardinality(Lower(a)) < PatchCap} \subseteq Firsts(m)
    <2> HIDE DEF Lower, Firsts
    <2> QED BY <1>5
  <1> HIDE DEF Firsts
  <1>8. ToSet(ListPatches) = {a \in made : Cardinality(Lower(a)) < PatchCap}
    BY <1>2, <1>6, <1>7
  <1> QED BY <1>8

-----------------------------------------------------------------------------
(* The last batch is answered, whatever other tools do after it.           *)
LEMMA BptsInvariant == EditSpec => []BptsInv
  <1>1. SessionInit => BptsInv
    <2> SUFFICES ASSUME SessionInit PROVE BptsInv
      OBVIOUS
    <2>1. bpts \in Bpts
      <3>1. {} \subseteq Known /\ bpts \in [{} -> [on : BOOLEAN, cond : Conditions, lang : Languages]]
        BY DEF SessionInit, Empty
      <3> QED BY <3>1, IsBpts
    <2>2. batch.tool = "none"
      BY DEF SessionInit, NoBatch
    <2> QED BY <2>1, <2>2 DEF BptsInv, BatchesAreAnswered
  <1>2. BptsInv /\ [Edits]_session => BptsInv'
    <2> SUFFICES ASSUME BptsInv, [Edits]_session PROVE BptsInv'
      OBVIOUS
    <2>1. ASSUME UNCHANGED bptVars PROVE BptsInv'
      <3>1. bpts' = bpts /\ batch' = batch
        BY <2>1 DEF bptVars
      <3> QED BY <3>1 DEF BptsInv, BatchesAreAnswered, Holds
    <2>2. ASSUME NEW type, NEW luck, NEW failing, Install(type, luck, failing) PROVE UNCHANGED bptVars
      BY <2>2 DEF Install
    <2>3. ASSUME NEW id, Event(id) PROVE UNCHANGED bptVars
      BY <2>3 DEF Event
    <2>4. ASSUME NEW targets, NEW failing, RemoveHooks(targets, failing) PROVE UNCHANGED bptVars
      BY <2>4 DEF RemoveHooks
    <2>5. ASSUME NEW ea, AddBookmark(ea) \/ DeleteBookmark(ea) PROVE UNCHANGED bptVars
      BY <2>5 DEF AddBookmark, DeleteBookmark
    <2>6. ASSUME NEW updates, NEW missed, NEW stored, EnumUpsert(updates, missed, stored)
          PROVE  UNCHANGED bptVars
      BY <2>6 DEF EnumUpsert
    <2>7. ASSUME NEW ea, NEW raw, PatchBytes(ea, raw) \/ RevertPatch(ea) PROVE UNCHANGED bptVars
      BY <2>7 DEF PatchBytes, RevertPatch
    <2>8. CASE UNCHANGED session
      BY <2>1, <2>8 DEF session
    <2>9. ASSUME Read PROVE BptsInv'
      <3>1. bpts' = bpts /\ batch'.tool = "none"
        BY <2>9 DEF Read, NoBatch
      <3> QED BY <3>1 DEF BptsInv, BatchesAreAnswered
    <2>10. ASSUME NEW tool \in Calls, NEW items \in Seq(Wanted), Batch(tool, items) PROVE BptsInv'
      BY <2>10, BatchAnswers DEF BptsInv
    <2> QED
      BY <2>1, <2>2, <2>3, <2>4, <2>5, <2>6, <2>7, <2>8, <2>9, <2>10 DEF Edits
  <1> QED BY <1>1, <1>2, PTL DEF EditSpec

(* Each item of a batch of breakpoints has its reply, an "ok" holds unless  *)
(* a later item undid it, no other breakpoint is touched, and an item that  *)
(* fails half way leaves an old condition or none, unless its error says   *)
(* that the new one is in force (api_debug.py:588-597) - for batches of any *)
(* length, failing at any step.                                            *)
THEOREM BatchesAreAnsweredAlways == EditSpec => []BatchesAreAnswered
  <1>1. BptsInv => BatchesAreAnswered
    BY DEF BptsInv
  <1> QED BY <1>1, BptsInvariant, PTL

(* list_patches lists, in order, the patches made and not taken back within *)
(* the window, but for those that PatchCap others come before - for any     *)
(* segments, windows and patches.                                          *)
THEOREM PatchesAreListedAlways == EditSpec => []PatchesAreListed
  <1>1. ASSUME EditsInv PROVE PatchesAreListed
    <2> DEFINE made == {a \in DOMAIN told.bytes \intersect ToSet(Looked) : told.bytes[a] # Original(a)}
    <2>1. BytesAsTold
      BY <1>1 DEF EditsInv, BytesInv
    <2>2. made = {Looked[i] : i \in {j \in 1..Len(Looked) : bytes[Looked[j]] # Original(Looked[j])}}
      <3>1. \A i \in 1..Len(Looked) :
               bytes[Looked[i]] = IF Looked[i] \in DOMAIN told.bytes THEN told.bytes[Looked[i]]
                                  ELSE Original(Looked[i])
        BY <2>1, LookedIs DEF BytesAsTold
      <3>2. ToSet(Looked) = {Looked[i] : i \in 1..Len(Looked)}
        BY LookedIs DEF ToSet
      <3> QED BY <3>1, <3>2
    <2>3. ToSet(ListPatches) = {a \in made : Cardinality({b \in made : b < a}) < PatchCap}
      <3> HIDE DEF made
      <3> QED BY <2>2, ListedFirst
    <2>4. \A i, j \in DOMAIN ListPatches : i < j => ListPatches[i] < ListPatches[j]
      <3>1. ListPatches \in Seq(Nat) /\ Rising(ListPatches)
        <4> HIDE DEF made
        <4> QED BY <2>2, ListIs
      <3>2. DOMAIN ListPatches = 1..Len(ListPatches)
        BY <3>1
      <3> QED BY <3>1, <3>2 DEF Rising
    <2> QED BY <2>1, <2>3, <2>4 DEF PatchesAreListed, BytesAsTold
  <1> QED BY <1>1, EditsInvariant, PTL

(* What the editing tools replied is what the database holds, whatever the  *)
(* order and the arguments of the calls.                                   *)
THEOREM EditsAsToldAlways == EditSpec => []EditsAsTold
  <1>1. BookmarksAreKept /\ BatchesAreAnswered /\ MembersAreKept /\ PatchesAreListed => EditsAsTold
    BY DEF EditsAsTold
  <1> QED BY <1>1, BookmarksAreKeptAlways, BatchesAreAnsweredAlways, MembersAreKeptAlways,
             PatchesAreListedAlways, PTL

-----------------------------------------------------------------------------
(***************************************************************************)
(* Requests: sums and parts of sequences, which bodies, audits and tables  *)
(* of sessions are made of.                                                *)
(***************************************************************************)

(* Sums of integers are the integers that adding one after another gives. *)
LEMMA SumsAre ==
    ASSUME NEW s \in Seq(Int)
    PROVE  /\ Sums(s) \in [0..Len(s) -> Int] /\ Sums(s)[0] = 0
           /\ \A k \in 1..Len(s) : Sums(s)[k] = Sums(s)[k - 1] + s[k]
  <1> DEFINE n == Len(s)
             Rec(g) == g = [i \in 0..n |-> IF i = 0 THEN 0 ELSE g[i - 1] + s[i]]
             F == [p \in Int \X (1..n) |-> p[1] + s[p[2]]]
             sum == Sums(s)
  <1>1. n \in Nat /\ \A k \in 1..n : s[k] \in Int
    OBVIOUS
  <1>2. F \in [Int \X (1..n) -> Int]
    BY <1>1
  <1>3. PICK f : Solves(f, Int, 0, n, F)
    <2>1. 0 \in Int
      OBVIOUS
    <2> HIDE DEF F, n
    <2> QED BY <1>1, <1>2, <2>1, RecursionExists, Zenon
  <1>4. /\ f \in [0..n -> Int] /\ f[0] = 0
        /\ \A k \in 1..n : k - 1 \in 0..n /\ f[k] = f[k - 1] + s[k]
    <2>1. ASSUME NEW k \in 1..n PROVE k - 1 \in 0..n /\ f[k] = f[k - 1] + s[k]
      <3>1. k - 1 \in 0..n
        BY <1>1
      <3>2. <<f[k - 1], k>> \in Int \X (1..n)
        BY <3>1, <1>3 DEF Solves
      <3> QED BY <3>1, <3>2, <1>3 DEF Solves
    <2> QED BY <1>3, <2>1 DEF Solves
  <1>5. Rec(f)
    <2>1. \A i \in 0..n : i # 0 => i \in 1..n
      BY <1>1
    <2> HIDE DEF n, F
    <2> QED BY <1>4, <2>1
  <1>6. Rec(sum)
    <2>1. sum = CHOOSE g : Rec(g)
      BY DEF Sums
    <2> HIDE DEF Rec, sum
    <2> QED BY <1>5, <2>1
  <1> HIDE DEF sum, F
  <1>7. /\ DOMAIN sum = 0..n /\ sum[0] = 0
        /\ \A k \in 1..n : sum[k] = sum[k - 1] + s[k]
    <2>1. 0 \in 0..n /\ \A k \in 1..n : k \in 0..n /\ k # 0
      BY <1>1
    <2> HIDE DEF n
    <2> QED BY <1>6, <2>1
  <1>8. \A k \in 0..n : sum[k] \in Int
    <2> DEFINE S == {k \in 0..n : sum[k] \in Int}
    <2>1. 0 \in S
      BY <1>1, <1>7
    <2>2. ASSUME NEW k \in 0..(n - 1), k \in S PROVE k + 1 \in S
      <3>1. k + 1 \in 1..n /\ k + 1 \in 0..n /\ (k + 1) - 1 = k
        BY <1>1
      <3>2. sum[k + 1] = sum[k] + s[k + 1] /\ s[k + 1] \in Int /\ sum[k] \in Int
        <4>1. sum[k + 1] = sum[(k + 1) - 1] + s[k + 1] /\ s[k + 1] \in Int
          BY <1>1, <1>7, <3>1
        <4> QED BY <2>2, <3>1, <4>1
      <3> QED BY <3>1, <3>2
    <2> HIDE DEF S, n
    <2>3. \A k \in 0..n : k \in S
      BY <1>1, <2>1, <2>2, UpTo
    <2> QED BY <2>3 DEF S
  <1>9. sum \in [0..n -> Int]
    <2>1. sum = [i \in 0..n |-> sum[i]]
      <3> HIDE DEF n
      <3> QED BY <1>6
    <2> HIDE DEF n
    <2> QED BY <1>8, <2>1
  <1> QED BY <1>7, <1>9 DEF sum

(* Sums of numbers that are not negative rise, to the last place. *)
LEMMA SumsRise ==
    ASSUME NEW s \in Seq(Int), NEW n \in 0..Len(s), \A k \in 1..n : s[k] >= 0
    PROVE  \A i \in 0..n : 0 <= Sums(s)[i] /\ Sums(s)[i] <= Sums(s)[n]
  <1> DEFINE sum == Sums(s)
  <1>1. /\ Len(s) \in Nat /\ n \in Nat /\ sum \in [0..Len(s) -> Int] /\ sum[0] = 0
        /\ \A k \in 1..n : s[k] \in Int /\ s[k] >= 0 /\ sum[k] = sum[k - 1] + s[k]
    BY SumsAre
  <1> HIDE DEF sum
  <1> DEFINE S == {m \in 0..n : 0 <= sum[m] /\ \A i \in 0..m : sum[i] <= sum[m]}
  <1>2. 0 \in S
    BY <1>1
  <1>3. ASSUME NEW m \in 0..(n - 1), m \in S PROVE m + 1 \in S
    <2>1. /\ m + 1 \in 1..n /\ m + 1 \in 0..n /\ (m + 1) - 1 = m /\ m \in 0..Len(s) /\ m + 1 \in 0..Len(s)
          /\ \A i \in 0..(m + 1) : i \in 0..m \/ i = m + 1
          /\ 0..m \subseteq 0..Len(s)
      BY <1>1
    <2>2. sum[m + 1] >= sum[m] /\ sum[m] \in Int /\ sum[m + 1] \in Int
      <3>1. s[m + 1] \in Int /\ s[m + 1] >= 0 /\ sum[m + 1] = sum[(m + 1) - 1] + s[m + 1]
        BY <1>1, <2>1
      <3>2. sum[m] \in Int
        BY <1>1, <2>1
      <3> QED BY <2>1, <3>1, <3>2
    <2>3. 0 <= sum[m] /\ \A i \in 0..m : sum[i] \in Int /\ sum[i] <= sum[m]
      BY <1>1, <1>3, <2>1
    <2>4. \A i \in 0..m : sum[i] <= sum[m + 1]
      BY <2>2, <2>3
    <2>5. 0 <= sum[m + 1]
      BY <2>2, <2>3
    <2> QED BY <2>1, <2>2, <2>4, <2>5
  <1>4. n \in S
    <2>1. n \in 0..n
      BY <1>1
    <2> HIDE DEF S
    <2> QED BY <1>1, <1>2, <1>3, <2>1, UpTo
  <1>5. ASSUME NEW i \in 0..n PROVE 0 <= sum[i] /\ sum[i] <= sum[n]
    <2>1. i \in S
      <3> HIDE DEF S
      <3> QED BY <1>1, <1>2, <1>3, UpTo
    <2> QED BY <1>4, <2>1
  <1> QED BY <1>5 DEF sum

(* What is picked are the elements at the picked places, in order: a key   *)
(* that rises along s rises along them.                                    *)
LEMMA PickedIs ==
    ASSUME NEW A, NEW s \in Seq(A), NEW I, NEW K \in [A -> Int]
    PROVE  /\ Picked(s, I) \in Seq(A) /\ (KeyRises(s, K) => KeyRises(Picked(s, I), K))
           /\ HasThose(Picked(s, I), s, I) /\ Len(Picked(s, I)) <= Len(s)
  <1> DEFINE n == Len(s)
             Rec(g) == g = [i \in 0..n |-> IF i = 0 THEN <<>> ELSE
                                           IF i \in I THEN Append(g[i - 1], s[i]) ELSE g[i - 1]]
             F == [p \in Seq(A) \X (1..n) |-> IF p[2] \in I THEN Append(p[1], s[p[2]]) ELSE p[1]]
             got == CHOOSE g : Rec(g)
  <1>1. n \in Nat /\ <<>> \in Seq(A) /\ \A k \in 1..n : s[k] \in A
    OBVIOUS
  <1>2. F \in [Seq(A) \X (1..n) -> Seq(A)]
    <2>1. ASSUME NEW p \in Seq(A) \X (1..n)
          PROVE  (IF p[2] \in I THEN Append(p[1], s[p[2]]) ELSE p[1]) \in Seq(A)
      <3>1. p[1] \in Seq(A) /\ s[p[2]] \in A
        BY <1>1
      <3>2. Append(p[1], s[p[2]]) \in Seq(A)
        BY <3>1, AppendProperties
      <3> QED BY <3>1, <3>2
    <2> HIDE DEF n
    <2> QED BY <2>1
  <1>3. PICK f : Solves(f, Seq(A), <<>>, n, F)
    <2> HIDE DEF F, n
    <2> QED BY <1>1, <1>2, RecursionExists, Zenon
  <1>4. /\ f \in [0..n -> Seq(A)] /\ f[0] = <<>>
        /\ \A k \in 1..n : f[k] = IF k \in I THEN Append(f[k - 1], s[k]) ELSE f[k - 1]
    <2>1. ASSUME NEW k \in 1..n PROVE f[k] = IF k \in I THEN Append(f[k - 1], s[k]) ELSE f[k - 1]
      <3>1. k - 1 \in 0..n
        BY <1>1
      <3>2. <<f[k - 1], k>> \in Seq(A) \X (1..n)
        BY <3>1, <1>3 DEF Solves
      <3>3. f[k] = F[<<f[k - 1], k>>]
        BY <1>3 DEF Solves
      <3> HIDE DEF n
      <3> QED BY <3>2, <3>3
    <2> QED BY <1>3, <2>1 DEF Solves
  <1>5. Rec(f)
    <2>1. \A i \in 0..n : i # 0 => i \in 1..n
      BY <1>1
    <2> HIDE DEF n, F
    <2> QED BY <1>4, <2>1, Zenon
  <1>6. Picked(s, I) = got[n] /\ Rec(got)
    <2>1. Picked(s, I) = got[n]
      BY DEF Picked
    <2>2. Rec(got)
      <3> HIDE DEF Rec
      <3> QED BY <1>5
    <2> QED BY <2>1, <2>2, Zenon
  <1>7. /\ got[0] = <<>>
        /\ \A k \in 1..n : got[k] = IF k \in I THEN Append(got[k - 1], s[k]) ELSE got[k - 1]
    <2>1. 0 \in 0..n /\ \A k \in 1..n : k \in 0..n /\ k # 0
      BY <1>1
    <2> HIDE DEF n, got
    <2> QED BY <1>6, <2>1
  <1> HIDE DEF got
  <1> DEFINE Has(r, a) == \E i \in 1..Len(r) : r[i] = a
             Good(r, k) == /\ r \in Seq(A) /\ Len(r) <= k /\ (KeyRises(s, K) => KeyRises(r, K))
                           /\ \A i \in 1..Len(r) : \E j \in 1..k : r[i] = s[j] /\ j \in I
                           /\ \A j \in 1..k : j \in I => Has(r, s[j])
             S == {k \in 0..n : Good(got[k], k)}
  <1>8. 0 \in S
    <2>1. <<>> \in Seq(A) /\ Len(<<>>) = 0 /\ 0 \in 0..n
      BY <1>1
    <2>2. Good(<<>>, 0)
      BY <2>1 DEF KeyRises
    <2> HIDE DEF Good
    <2> QED BY <1>7, <2>1, <2>2
  <1>9. ASSUME NEW m \in 0..(n - 1), m \in S PROVE m + 1 \in S
    <2> DEFINE k == m + 1
               r == got[m]
    <2>1. k \in 1..n /\ k \in 0..n /\ k - 1 = m /\ m \in Nat /\ 1..k = 1..m \union {k} /\ 1..m \subseteq 1..n
      BY <1>1
    <2>2. Good(r, m)
      BY <1>9
    <2>3. got[k] = IF k \in I THEN Append(r, s[k]) ELSE r
      BY <1>7, <2>1
    <2>4. /\ r \in Seq(A) /\ Len(r) <= m /\ (KeyRises(s, K) => KeyRises(r, K)) /\ Len(r) \in Nat
          /\ \A i \in 1..Len(r) : \E j \in 1..m : r[i] = s[j] /\ j \in I
          /\ \A j \in 1..m : j \in I => Has(r, s[j])
      <3> HIDE DEF r, Has, n
      <3> QED BY <2>2
    <2>5. s[k] \in A /\ \A i \in 1..Len(r) : r[i] \in A /\ (KeyRises(s, K) => K[r[i]] < K[s[k]])
      <3>1. ASSUME KeyRises(s, K), NEW i \in 1..Len(r) PROVE K[r[i]] < K[s[k]]
        <4>1. PICK j \in 1..m : r[i] = s[j]
          BY <2>4
        <4>2. j \in 1..n /\ j < k
          BY <1>1, <2>1
        <4> QED BY <1>1, <2>1, <3>1, <4>1, <4>2 DEF KeyRises
      <3>2. s[k] \in A
        BY <1>1, <2>1
      <3>3. \A i \in 1..Len(r) : r[i] \in A
        <4> HIDE DEF r
        <4> QED BY <2>4
      <3> QED BY <3>1, <3>2, <3>3
    <2> HIDE DEF k, r, n
    <2>6. CASE k \notin I
      <3>1. Good(r, k)
        <4>1. Len(r) <= k
          BY <2>1, <2>4 DEF k
        <4> HIDE DEF Has
        <4> QED BY <2>1, <2>4, <2>6, <4>1
      <3> HIDE DEF Good
      <3> QED BY <2>1, <2>3, <2>6, <3>1 DEF k
    <2>7. CASE k \in I
      <3> DEFINE c == Append(r, s[k])
      <3>1. /\ c \in Seq(A) /\ Len(c) = Len(r) + 1
            /\ \A i \in 1..Len(r) : c[i] = r[i]
            /\ c[Len(r) + 1] = s[k]
        BY <2>4, <2>5, AppendProperties
      <3> HIDE DEF c
      <3>a. \A j \in 1..Len(c) : j \in 1..Len(r) \/ j = Len(r) + 1
        <4>1. \A j \in 1..(Len(r) + 1) : j \in 1..Len(r) \/ j = Len(r) + 1
          BY <2>4
        <4> QED BY <3>1, <4>1
      <3>2. KeyRises(s, K) => KeyRises(c, K)
        <4> SUFFICES ASSUME KeyRises(s, K), NEW i \in 1..Len(c), NEW j \in 1..Len(c), i < j
                     PROVE  K[c[i]] < K[c[j]]
          BY DEF KeyRises
        <4>1. CASE j \in 1..Len(r)
          <5>1. i \in 1..Len(r)
            BY <2>4, <3>1, <4>1
          <5> QED BY <2>4, <3>1, <4>1, <5>1 DEF KeyRises
        <4>2. CASE j = Len(r) + 1
          <5>1. i \in 1..Len(r)
            BY <2>4, <3>1, <4>2
          <5>2. c[i] = r[i] /\ K[r[i]] < K[s[k]] /\ c[j] = s[k]
            BY <2>5, <3>1, <4>2, <5>1
          <5> QED BY <5>2
        <4> QED BY <3>a, <4>1, <4>2
      <3>3. ASSUME NEW i \in 1..Len(c) PROVE \E j \in 1..k : c[i] = s[j] /\ j \in I
        <4>1. CASE i \in 1..Len(r)
          BY <2>1, <2>4, <3>1, <4>1
        <4>2. CASE i = Len(r) + 1
          BY <2>1, <2>7, <3>1, <4>2
        <4> QED BY <3>a, <4>1, <4>2
      <3>4. ASSUME NEW j \in 1..k, j \in I PROVE Has(c, s[j])
        <4>1. CASE j = k
          <5>1. Len(r) + 1 \in 1..Len(c)
            BY <2>4, <3>1
          <5> QED BY <3>1, <4>1, <5>1
        <4>2. CASE j \in 1..m
          <5>1. Has(r, s[j])
            BY <2>4, <3>4, <4>2
          <5>2. 1..Len(r) \subseteq 1..Len(c)
            BY <2>4, <3>1
          <5> QED BY <3>1, <5>1, <5>2
        <4> QED BY <2>1, <4>1, <4>2
      <3>5. Good(c, k)
        <4>1. Len(c) <= k
          BY <2>1, <2>4, <3>1 DEF k
        <4> HIDE DEF Has
        <4> QED BY <3>1, <3>2, <3>3, <3>4, <4>1
      <3> HIDE DEF Good
      <3> QED BY <2>1, <2>3, <2>7, <3>5 DEF k, c
    <2> QED BY <2>6, <2>7
  <1>10. Good(Picked(s, I), n)
    <2> HIDE DEF Good, n, Rec
    <2>1. n \in 0..n
      BY <1>1
    <2>2. n \in S
      <3> HIDE DEF S
      <3> QED BY <1>1, <1>8, <1>9, <2>1, UpTo
    <2> QED BY <1>6, <2>2
  <1> DEFINE p == Picked(s, I)
  <1> HIDE DEF Rec, F, S, p
  <1>11. p \in Seq(A) /\ Len(p) <= n /\ (KeyRises(s, K) => KeyRises(p, K))
    BY <1>10 DEF p
  <1>12. HasThose(p, s, I)
    BY <1>10 DEF p, HasThose
  <1> QED BY <1>11, <1>12 DEF p

-----------------------------------------------------------------------------
(***************************************************************************)
(* Bodies: what is read is within the limit, however it is framed.         *)
(***************************************************************************)

(* A chunked body is as long as its chunks together, or one byte too long. *)
LEMMA ChunkedIs ==
    ASSUME NEW chunks \in Seq({BadChunk} \union Nat)
    PROVE  /\ Chunked(chunks) \in Int
           /\ /\ chunks # <<>> /\ BadChunk \notin ToSet(chunks)
              /\ \A i \in DOMAIN chunks : chunks[i] = 0 <=> i = Len(chunks)
              => /\ Sums(chunks)[Len(chunks)] \in Nat
                 /\ Chunked(chunks) = IF Sums(chunks)[Len(chunks)] > BodyLimit THEN BodyLimit + 1
                                      ELSE Sums(chunks)[Len(chunks)]
  <1> DEFINE n == Len(chunks)
             stop == {i \in DOMAIN chunks : chunks[i] <= 0}
             upTo == IF stop = {} THEN n ELSE Min(stop) - 1
             sum == Sums(chunks)
             over == {i \in 0..upTo : sum[i] > BodyLimit}
  <1>1. BodyLimit \in Nat
    BY RequestsAssumption
  <1>2. /\ n \in Nat /\ chunks \in Seq(Int) /\ DOMAIN chunks = 1..n
        /\ \A i \in 1..n : chunks[i] \in Int /\ chunks[i] \in {BadChunk} \union Nat
    BY DEF BadChunk
  <1>3. /\ sum \in [0..n -> Int] /\ sum[0] = 0
        /\ \A k \in 1..n : sum[k] = sum[k - 1] + chunks[k]
    BY <1>2, SumsAre
  <1>4. Chunked(chunks) = IF over # {} THEN BodyLimit + 1
                          ELSE IF upTo < n /\ chunks[upTo + 1] = 0 THEN sum[upTo] ELSE BadChunk
    BY DEF Chunked
  <1>5. stop # {} => Min(stop) \in stop /\ \A i \in stop : Min(stop) <= i
    <2>1. stop \in SUBSET Nat
      BY <1>2
    <2> HIDE DEF stop
    <2> QED BY <2>1, MinIs
  <1>6. upTo \in 0..n
    <2>1. CASE stop = {}
      BY <1>2, <2>1
    <2>2. CASE stop # {}
      <3>1. Min(stop) \in 1..n
        BY <1>2, <1>5, <2>2
      <3> HIDE DEF stop, n
      <3> QED BY <1>2, <2>2, <3>1
    <2> QED BY <2>1, <2>2
  <1> HIDE DEF sum, over
  <1>7. Chunked(chunks) \in Int
    BY <1>1, <1>3, <1>4, <1>6 DEF BadChunk
  <1>8. ASSUME chunks # <<>>, \A i \in DOMAIN chunks : chunks[i] = 0 <=> i = Len(chunks),
               BadChunk \notin ToSet(chunks)
        PROVE  /\ sum[n] \in Nat
               /\ Chunked(chunks) = IF sum[n] > BodyLimit THEN BodyLimit + 1 ELSE sum[n]
    <2>1. n \in 1..n /\ n - 1 \in 0..n /\ n \in 0..n /\ (n - 1) + 1 = n
      BY <1>2, <1>8
    <2>2. \A i \in 1..n : chunks[i] \in Nat
      BY <1>2, <1>8 DEF ToSet
    <2>3. \A i \in 1..(n - 1) : i \in 1..n /\ chunks[i] > 0
      BY <1>2, <1>8, <2>2
    <2>4. chunks[n] = 0
      BY <1>2, <1>8, <2>1
    <2>5. stop = {n}
      BY <1>2, <1>8, <2>1, <2>2, <2>4
    <2>6. Min(stop) = n
      BY <1>5, <2>5
    <2>7. upTo = n - 1
      BY <2>5, <2>6
    <2> HIDE DEF upTo
    <2>8. \A i \in 0..(n - 1) : 0 <= sum[i] /\ sum[i] <= sum[n - 1]
      <3>1. \A k \in 1..(n - 1) : chunks[k] >= 0
        BY <1>2, <2>3
      <3> QED BY <1>2, <2>1, <3>1, SumsRise DEF sum
    <2>9. sum[n] = sum[n - 1] /\ sum[n - 1] \in Int /\ 0 <= sum[n - 1]
      <3>1. sum[n] = sum[n - 1] + 0 /\ sum[n - 1] \in Int
        BY <1>3, <2>1, <2>4
      <3>2. n - 1 \in 0..(n - 1)
        BY <1>2, <2>1
      <3> QED BY <2>8, <3>1, <3>2
    <2>10. over # {} <=> sum[n - 1] > BodyLimit
      <3>1. over = {i \in 0..(n - 1) : sum[i] > BodyLimit}
        BY <2>7 DEF over
      <3>2. ASSUME NEW i \in 0..(n - 1), sum[i] > BodyLimit PROVE sum[n - 1] > BodyLimit
        <4>1. i \in 0..n /\ sum[i] \in Int
          BY <1>2, <1>3
        <4> QED BY <1>1, <2>8, <2>9, <3>2, <4>1
      <3>3. n - 1 \in 0..(n - 1)
        BY <1>2, <2>1
      <3> HIDE DEF n
      <3> QED BY <3>1, <3>2, <3>3
    <2>11. upTo < n /\ chunks[upTo + 1] = 0
      BY <1>2, <2>1, <2>4, <2>7
    <2> HIDE DEF n
    <2> QED BY <1>4, <2>7, <2>9, <2>10, <2>11
  <1> QED BY <1>7, <1>8 DEF sum

(* What is read of a body. *)
LEMMA InflatedIs ==
    ASSUME NEW m \in Messages, NEW raw \in Int, raw <= BodyLimit
    PROVE  /\ Inflated(m.encoding, raw, m.inflated).size <= BodyLimit
           /\ m.encoding = "gzip" /\ Inflated(m.encoding, raw, m.inflated).status = 0 =>
                 Inflated(m.encoding, raw, m.inflated).size = m.inflated
  <1>1. BodyLimit \in Nat /\ m.inflated \in Int
    BY RequestsAssumption DEF Messages, BadChunk
  <1>2. \A status, size : BodyOf(status, size).size = size /\ BodyOf(status, size).status = status
    BY DEF BodyOf
  <1>3. CASE m.encoding \in {"gzip", "x-gzip", "deflate"}
    <2>1. Inflated(m.encoding, raw, m.inflated) =
            IF m.inflated = BadChunk THEN BodyOf(400, 0)
            ELSE IF m.inflated > BodyLimit THEN BodyOf(413, 0) ELSE BodyOf(0, m.inflated)
      BY <1>3 DEF Inflated
    <2> QED BY <1>1, <1>2, <2>1
  <1>4. CASE m.encoding \notin {"gzip", "x-gzip", "deflate"}
    <2>1. Inflated(m.encoding, raw, m.inflated) = BodyOf(0, raw)
      BY <1>4 DEF Inflated
    <2> QED BY <1>2, <1>4, <2>1
  <1> QED BY <1>3, <1>4

(* What is parsed of a body is within the limit, inflated or not, and the   *)
(* same bytes in chunks or with their length are read alike.               *)
THEOREM BodyIsBoundedAlways == ASSUME NEW m \in Messages PROVE BodyIsBounded(m)
  <1> DEFINE total == Sums(m.chunks)[Len(m.chunks)]
             plain == [m EXCEPT !.chunked = FALSE, !.length = total]
             Raw(x) == IF x.chunked THEN Chunked(x.chunks) ELSE Max({0, x.length})
             Got(x) == CASE Raw(x) = BadChunk -> BodyOf(400, 0)
                          [] Raw(x) > BodyLimit -> BodyOf(413, 0)
                          [] OTHER -> Inflated(x.encoding, Raw(x), x.inflated)
  <1>1. BodyLimit \in Nat /\ \A x : ReadBody(x) = Got(x)
    BY RequestsAssumption DEF ReadBody
  <1>2. \A status, size : BodyOf(status, size).size = size /\ BodyOf(status, size).status = status
    BY DEF BodyOf
  <1>3. \A b \in Int : Max({0, b}) = IF b >= 0 THEN b ELSE 0
    BY DEF Max
  <1>4. m.chunks \in Seq({BadChunk} \union Nat) /\ m.length \in Int
    BY DEF Messages
  <1>5. Raw(m) \in Int
    <2>1. Chunked(m.chunks) \in Int
      BY <1>4, ChunkedIs
    <2>2. Max({0, m.length}) \in Int
      BY <1>3, <1>4
    <2> QED BY <2>1, <2>2
  <1>6. \/ ReadBody(m) = BodyOf(400, 0) \/ ReadBody(m) = BodyOf(413, 0)
        \/ Raw(m) <= BodyLimit /\ ReadBody(m) = Inflated(m.encoding, Raw(m), m.inflated)
    <2>1. ReadBody(m) = Got(m)
      BY <1>1
    <2> HIDE DEF Raw
    <2> QED BY <1>1, <1>5, <2>1
  <1>7. ReadBody(m).size <= BodyLimit
    <2> HIDE DEF Raw
    <2> QED BY <1>1, <1>2, <1>5, <1>6, InflatedIs
  <1>8. ASSUME m.encoding = "gzip", ReadBody(m).status = 0 PROVE ReadBody(m).size = m.inflated
    <2> HIDE DEF Raw
    <2> QED BY <1>2, <1>5, <1>6, <1>8, InflatedIs
  <1>9. ASSUME m.chunked, \A i \in DOMAIN m.chunks : m.chunks[i] = 0 <=> i = Len(m.chunks),
               m.chunks # <<>>, BadChunk \notin ToSet(m.chunks)
        PROVE  ReadBody(m) = ReadBody(plain)
    <2>1. total \in Nat /\ Raw(m) = IF total > BodyLimit THEN BodyLimit + 1 ELSE total
      BY <1>4, <1>9, ChunkedIs
    <2>2. /\ plain.chunked = FALSE /\ plain.length = total
          /\ plain.encoding = m.encoding /\ plain.inflated = m.inflated
      BY DEF Messages
    <2>3. Raw(plain) = total
      BY <1>3, <2>1, <2>2
    <2> HIDE DEF Raw, plain, total
    <2>4. CASE total > BodyLimit
      <3>1. Raw(m) # BadChunk /\ Raw(m) > BodyLimit /\ Raw(plain) # BadChunk /\ Raw(plain) > BodyLimit
        BY <1>1, <2>1, <2>3, <2>4 DEF BadChunk
      <3> QED BY <1>1, <3>1
    <2>5. CASE ~ (total > BodyLimit)
      <3>1. Raw(m) = Raw(plain)
        BY <2>1, <2>3, <2>5
      <3> QED BY <1>1, <2>2, <3>1
    <2> QED BY <2>4, <2>5
  <1> QED BY <1>7, <1>8, <1>9 DEF BodyIsBounded

-----------------------------------------------------------------------------
(***************************************************************************)
(* Statistics and audit: percentiles and the sizes that are kept.          *)
(***************************************************************************)

(* round() of hundredths is at most half a hundred away. *)
LEMMA RoundIs ==
    ASSUME NEW a \in Nat
    PROVE  LET r == RoundHalfEven(a, 100) IN r \in Nat /\ 100 * r - 50 <= a /\ a <= 100 * r + 50
  <1> DEFINE d == a \div 100
             e == a % 100
             r == RoundHalfEven(a, 100)
  <1>1. d \in Nat /\ e \in 0..99 /\ a = 100 * d + e
    OBVIOUS
  <1>2. r = IF 2 * e > 100 \/ (2 * e = 100 /\ d % 2 = 1) THEN d + 1 ELSE d
    BY DEF RoundHalfEven
  <1> HIDE DEF d, e, r
  <1>3. (2 * e >= 100 /\ r = d + 1) \/ (2 * e <= 100 /\ r = d)
    BY <1>1, <1>2
  <1>4. r \in Nat /\ 100 * r - 50 <= a /\ a <= 100 * r + 50
    BY <1>1, <1>3
  <1> QED BY <1>4 DEF r

LEMMA RoundRises ==
    ASSUME NEW n \in Nat
    PROVE  /\ RoundHalfEven(50 * n, 100) \in 0..n /\ RoundHalfEven(95 * n, 100) \in 0..n
           /\ RoundHalfEven(50 * n, 100) <= RoundHalfEven(95 * n, 100)
  <1> DEFINE p == RoundHalfEven(50 * n, 100)
             q == RoundHalfEven(95 * n, 100)
  <1>1. 50 * n \in Nat /\ 95 * n \in Nat
    OBVIOUS
  <1>2. p \in Nat /\ 100 * p - 50 <= 50 * n /\ 50 * n <= 100 * p + 50
    BY <1>1, RoundIs
  <1>3. q \in Nat /\ 100 * q - 50 <= 95 * n /\ 95 * n <= 100 * q + 50
    BY <1>1, RoundIs
  <1> HIDE DEF p, q
  <1>4. p <= n /\ q <= n /\ p <= q
    BY <1>2, <1>3
  <1> QED BY <1>2, <1>3, <1>4 DEF p, q

(* The sums of a prefix are those of the whole. *)
LEMMA SumsOfPrefix ==
    ASSUME NEW s \in Seq(Int), NEW n \in 0..Len(s)
    PROVE  /\ SubSeq(s, 1, n) \in Seq(Int) /\ Len(SubSeq(s, 1, n)) = n
           /\ \A i \in 1..n : SubSeq(s, 1, n)[i] = s[i]
           /\ Sums(SubSeq(s, 1, n))[n] = Sums(s)[n]
  <1> DEFINE t == SubSeq(s, 1, n)
             S == {k \in 0..n : Sums(t)[k] = Sums(s)[k]}
  <1>1. t \in Seq(Int) /\ Len(t) = n /\ n \in Nat /\ Len(s) \in Nat /\ \A i \in 1..n : t[i] = s[i]
    <2>1. 1 \in 1..Len(s) + 1 /\ n \in 0..Len(s)
      OBVIOUS
    <2>2. \A i \in 1..n : i \in 1..Len(s) /\ s[i] \in Int
      OBVIOUS
    <2>3. t = [i \in 1..n |-> s[i]]
      BY SubSeqProperties
    <2> QED BY <2>2, <2>3
  <1> HIDE DEF t
  <1>2. /\ Sums(t)[0] = 0 /\ \A k \in 1..n : Sums(t)[k] = Sums(t)[k - 1] + t[k]
        /\ Sums(s)[0] = 0 /\ \A k \in 1..Len(s) : Sums(s)[k] = Sums(s)[k - 1] + s[k]
    BY <1>1, SumsAre
  <1>3. 0 \in S
    BY <1>1, <1>2
  <1>4. ASSUME NEW k \in 0..(n - 1), k \in S PROVE k + 1 \in S
    <2>1. k + 1 \in 1..n /\ k + 1 \in 0..n /\ (k + 1) - 1 = k /\ k + 1 \in 1..Len(s)
      BY <1>1
    <2>2. Sums(t)[k + 1] = Sums(t)[(k + 1) - 1] + t[k + 1]
      BY <1>2, <2>1
    <2>3. Sums(s)[k + 1] = Sums(s)[(k + 1) - 1] + s[k + 1]
      BY <1>2, <2>1
    <2> QED BY <1>1, <1>4, <2>1, <2>2, <2>3
  <1>5. n \in S
    <2>1. n \in 0..n
      BY <1>1
    <2> HIDE DEF S
    <2> QED BY <1>1, <1>3, <1>4, <2>1, UpTo
  <1> QED BY <1>1, <1>5 DEF t

(* The percentiles of a tool's times come in order and from its times; the  *)
(* audit keeps the first arguments that fit, each cut to its bound.        *)
THEOREM NumbersAreBoundedAlways == ASSUME NEW sizes \in Seq(Nat) PROVE NumbersAreBounded(sizes)
  <1> DEFINE n == Len(sizes)
             cut == [i \in DOMAIN sizes |-> IF sizes[i] > AuditValue THEN AuditValue + 1 ELSE sizes[i]]
             fits == {i \in 0..Len(cut) : Sums(cut)[i] <= AuditBlob}
             kept == SubSeq(cut, 1, Max(fits))
  <1>1. n \in Nat /\ AuditValue \in Nat /\ AuditBlob \in Nat /\ DOMAIN sizes = 1..n /\ \A i \in 1..n : sizes[i] \in Nat
    BY RequestsAssumption
  <1>2. \A a, b \in Int : Min({a, b}) = IF b <= a THEN b ELSE a
    BY DEF Min
  <1>3. cut \in Seq(Int) /\ Len(cut) = n
    <2>1. cut \in [1..n -> Int]
      BY <1>1
    <2> HIDE DEF cut
    <2> QED BY <1>1, <2>1
  <1>4. \A i \in 1..n : cut[i] = Min({sizes[i], AuditValue + 1})
    BY <1>1, <1>2
  <1> HIDE DEF cut
  <1>5. Max(fits) \in fits /\ Max(fits) \in 0..n
    <2>1. 0 \in fits
      BY <1>1, <1>3, SumsAre
    <2>2. fits \in SUBSET (0..n)
      BY <1>3
    <2> HIDE DEF fits
    <2>3. Max(fits) \in fits
      BY <1>1, <2>1, <2>2, MaxIs
    <2> QED BY <2>2, <2>3
  <1>6. /\ Len(kept) = Max(fits) /\ kept \in Seq(Int) /\ \A i \in 1..Max(fits) : kept[i] = cut[i]
        /\ Sums(kept)[Max(fits)] = Sums(cut)[Max(fits)]
    BY <1>3, <1>5, SumsOfPrefix
  <1>7. AuditSizes(sizes).kept = kept /\ AuditSizes(sizes).truncated = (Max(fits) < n)
    <2>1. AuditSizes(sizes) = [kept |-> kept, truncated |-> Max(fits) < Len(cut)]
      BY DEF AuditSizes, cut
    <2> HIDE DEF kept, fits
    <2> QED BY <1>3, <2>1
  <1>8. Sums(kept)[Len(kept)] <= AuditBlob
    BY <1>5, <1>6
  <1>9. ASSUME NEW i \in DOMAIN kept PROVE kept[i] = Min({sizes[i], AuditValue + 1})
    <2>1. i \in 1..Max(fits) /\ i \in 1..n
      <3> HIDE DEF fits, kept
      <3> QED BY <1>1, <1>5, <1>6
    <2> QED BY <1>4, <1>6, <2>1
  <1>10. ASSUME sizes # <<>>, \A i, j \in DOMAIN sizes : i < j => sizes[i] <= sizes[j]
         PROVE  /\ Percentile(sizes, 50) <= Percentile(sizes, 95)
                /\ Percentile(sizes, 95) <= sizes[n]
    <2> DEFINE p == RoundHalfEven(50 * (n - 1), 100) + 1
               q == RoundHalfEven(95 * (n - 1), 100) + 1
    <2>1. n - 1 \in Nat
      BY <1>1, <1>10
    <2>2. p \in 1..n /\ q \in 1..n /\ p <= q /\ n \in 1..n
      <3>1. /\ RoundHalfEven(50 * (n - 1), 100) \in 0..(n - 1) /\ RoundHalfEven(95 * (n - 1), 100) \in 0..(n - 1)
            /\ RoundHalfEven(50 * (n - 1), 100) <= RoundHalfEven(95 * (n - 1), 100)
        <4> HIDE DEF n
        <4> QED BY <2>1, RoundRises
      <3> HIDE DEF n
      <3> QED BY <1>1, <2>1, <3>1
    <2>3. Percentile(sizes, 50) = sizes[p] /\ Percentile(sizes, 95) = sizes[q]
      <3>1. Min({n, p}) = p /\ Min({n, q}) = q
        <4> HIDE DEF p, q, n
        <4> QED BY <1>1, <1>2, <2>2
      <3> QED BY <3>1 DEF Percentile
    <2> HIDE DEF p, q, n
    <2>4. \A i, j \in 1..n : i <= j => sizes[i] <= sizes[j]
      <3> SUFFICES ASSUME NEW i \in 1..n, NEW j \in 1..n, i <= j PROVE sizes[i] <= sizes[j]
        OBVIOUS
      <3>1. CASE i = j
        BY <1>1, <3>1
      <3>2. CASE i # j
        <4>1. i < j
          BY <1>1, <3>2
        <4> QED BY <1>1, <1>10, <4>1
      <3> QED BY <3>1, <3>2
    <2> QED BY <1>1, <2>2, <2>3, <2>4
  <1> DEFINE a == AuditSizes(sizes)
  <1>11. /\ Sums(a.kept)[Len(a.kept)] <= AuditBlob
         /\ a.truncated <=> Len(a.kept) < Len(sizes)
         /\ \A i \in DOMAIN a.kept : a.kept[i] = Min({sizes[i], AuditValue + 1})
    <2> HIDE DEF kept, fits, a
    <2> QED BY <1>6, <1>7, <1>8, <1>9 DEF a
  <1> HIDE DEF a, n
  <1> QED BY <1>10, <1>11 DEF NumbersAreBounded, a, n

-----------------------------------------------------------------------------
(***************************************************************************)
(* Sessions.  The inductive invariant is Table: the table holds the ones in*)
(* use, by their last use, with the time of it; pruning, registering and   *)
(* looking up keep it, and so does every call.                             *)
(***************************************************************************)

(* After place i of a table come as many sessions as places. *)
LEMMA NamesCount ==
    ASSUME NEW ids, NEW U \in [ids -> Nat], NEW t \in Seq(ids \X Int), UsesRise(t, U), NEW i \in 0..Len(t)
    PROVE  /\ IsFiniteSet({t[j][1] : j \in (i + 1)..Len(t)})
           /\ Cardinality({t[j][1] : j \in (i + 1)..Len(t)}) = Len(t) - i
  <1> DEFINE J == (i + 1)..Len(t)
             T == {t[j][1] : j \in J}
             f == [j \in J |-> t[j][1]]
  <1>1. Len(t) \in Nat /\ \A j \in J : j \in 1..Len(t) /\ t[j][1] \in ids
    OBVIOUS
  <1>2. IsFiniteSet(J) /\ Cardinality(J) = Len(t) - i
    <2>1. i + 1 \in Int /\ Len(t) \in Int /\ Len(t) \in Nat /\ i <= Len(t) /\ i \in Nat
      OBVIOUS
    <2>2. IsFiniteSet((i + 1)..Len(t)) /\ Cardinality((i + 1)..Len(t)) = IF i + 1 > Len(t) THEN 0 ELSE Len(t) - (i + 1) + 1
      BY <2>1, FS_Interval
    <2> HIDE DEF J
    <2>3. (IF i + 1 > Len(t) THEN 0 ELSE Len(t) - (i + 1) + 1) = Len(t) - i
      BY <2>1
    <2> QED BY <2>2, <2>3 DEF J
  <1>3. f \in Surjection(J, T)
    BY DEF Surjection
  <1>4. \A a, b \in J : f[a] = f[b] => a = b
    <2> SUFFICES ASSUME NEW a \in J, NEW b \in J, a < b PROVE f[a] # f[b]
      BY <1>1
    <2>1. U[t[a][1]] < U[t[b][1]]
      BY <1>1 DEF UsesRise
    <2>2. U[t[a][1]] \in Nat /\ U[t[b][1]] \in Nat
      BY <1>1
    <2> QED BY <2>1, <2>2
  <1>5. f \in Injection(J, T)
    <2> HIDE DEF J
    <2> QED BY <1>4 DEF Injection, IsInjective
  <1> HIDE DEF J, T, f
  <1>6. IsFiniteSet(T) /\ Cardinality(T) = Cardinality(J)
    BY <1>2, <1>3, <1>5, FS_Surjection
  <1> QED BY <1>2, <1>6 DEF T, J

(* What is picked of a table is a table of what was picked. *)
LEMMA PickedTable ==
    ASSUME NEW ids, NEW U \in [ids -> Nat], NEW t \in Seq(ids \X Int), UsesRise(t, U), NEW I
    PROVE  /\ Picked(t, I) \in Seq(ids \X Int) /\ UsesRise(Picked(t, I), U)
           /\ HasThose(Picked(t, I), t, I)
  <1> DEFINE A == ids \X Int
             K == [a \in A |-> U[a[1]]]
             p == Picked(t, I)
  <1>1. K \in [A -> Int] /\ t \in Seq(A) /\ \A i \in 1..Len(t) : t[i] \in A /\ K[t[i]] = U[t[i][1]]
    OBVIOUS
  <1> HIDE DEF A, K
  <1>2. KeyRises(t, K)
    BY <1>1 DEF UsesRise, KeyRises
  <1>3. p \in Seq(A) /\ KeyRises(p, K) /\ HasThose(p, t, I)
    <2>1. K \in [A -> Int] /\ t \in Seq(A)
      BY <1>1
    <2> QED BY <2>1, <1>2, PickedIs
  <1> HIDE DEF p
  <1>4. \A i \in 1..Len(p) : p[i] \in A /\ K[p[i]] = U[p[i][1]]
    <2>1. \A i \in 1..Len(p) : p[i] \in A
      BY <1>3
    <2> QED BY <2>1 DEF A, K
  <1>5. UsesRise(p, U)
    BY <1>3, <1>4 DEF UsesRise, KeyRises
  <1> QED BY <1>3, <1>5 DEF p, A

LEMMA LastPlaces ==
    ASSUME NEW ids, NEW U \in [ids -> Nat], NEW t \in Seq(ids \X Int), UsesRise(t, U),
           NEW m \in Nat, m < Len(t)
    PROVE  LET r == SubSeq(t, Len(t) - m + 1, Len(t))
           IN  r \in Seq(ids \X Int) /\ UsesRise(r, U) /\ EndsWith(t, r, m)
  <1> DEFINE n == Len(t)
             r == SubSeq(t, n - m + 1, n)
  <1>1. n \in Nat /\ m \in Nat /\ m < n /\ n - m + 1 \in Int /\ n \in Int /\ \A i \in (n - m + 1)..n : i \in 1..n /\ t[i] \in ids \X Int
    OBVIOUS
  <1>2. /\ r \in Seq(ids \X Int)
        /\ Len(r) = IF n - m + 1 <= n THEN n - (n - m + 1) + 1 ELSE 0
        /\ \A i \in 1..(n - (n - m + 1) + 1) : r[i] = t[(n - m + 1) + i - 1]
    <2>1. \A i \in (n - m + 1)..n : t[i] \in ids \X Int
      BY <1>1
    <2> HIDE DEF n, r
    <2> QED BY <1>1, <2>1, SubSeqProperties DEF r
  <1>3. Len(r) = m /\ \A i \in 1..m : r[i] = t[n - m + i] /\ n - m + i \in 1..n
    <2> HIDE DEF r
    <2>1. Len(r) = m
      BY <1>1, <1>2
    <2>2. \A i \in 1..m : i \in 1..(n - (n - m + 1) + 1) /\ (n - m + 1) + i - 1 = n - m + i /\ n - m + i \in 1..n
      BY <1>1
    <2> HIDE DEF n
    <2> QED BY <1>2, <2>1, <2>2
  <1> HIDE DEF r
  <1>4. UsesRise(r, U)
    <2> SUFFICES ASSUME NEW i \in 1..m, NEW j \in 1..m, i < j PROVE U[r[i][1]] < U[r[j][1]]
      BY <1>3 DEF UsesRise
    <2>1. n - m + i < n - m + j /\ n - m + i \in 1..n /\ n - m + j \in 1..n
      <3>1. n \in Nat /\ m \in Nat /\ m < n
        BY <1>1
      <3>2. i \in Int /\ j \in Int /\ 1 <= i /\ i < j /\ j <= m
        BY <3>1
      <3> HIDE DEF n
      <3> QED BY <3>1, <3>2
    <2>2. U[t[n - m + i][1]] < U[t[n - m + j][1]]
      BY <2>1 DEF UsesRise
    <2> QED BY <1>3, <2>2
  <1> QED BY <1>2, <1>3, <1>4 DEF r, EndsWith

(* Pruning keeps the sessions that are fresh and that fewer than SessionMax *)
(* fresh ones were used after.                                             *)
LEMMA PrunedIs ==
    ASSUME NEW ids, NEW U \in [ids -> Nat], NEW t \in Seq(ids \X Int), UsesRise(t, U), NEW now \in Int,
           NEW F, F = FreshNames(t, now)
    PROVE  PrunedTo(Pruned(t, now), t, ids, U, F)
  <1> DEFINE I == {j \in DOMAIN t : SessionTtl = 0 \/ t[j][2] >= now - SessionTtl}
             fresh == Picked(t, I)
             n == Len(fresh)
             cut == SessionMax > 0 /\ n > SessionMax
             r == Pruned(t, now)
             After(x) == Later(F, U, x)
  <1>1. SessionMax \in Nat
    BY RequestsAssumption
  <1>2. r = IF cut THEN SubSeq(fresh, n - SessionMax + 1, n) ELSE fresh
    BY DEF Pruned
  <1>3. DOMAIN t = 1..Len(t)
    OBVIOUS
  <1> HIDE DEF I
  <1>4. /\ fresh \in Seq(ids \X Int) /\ UsesRise(fresh, U)
        /\ \A i \in 1..n : \E j \in 1..Len(t) : j \in I /\ fresh[i] = t[j]
        /\ \A j \in 1..Len(t) : j \in I => \E i \in 1..n : fresh[i] = t[j]
    <2>1. Picked(t, I) \in Seq(ids \X Int) /\ UsesRise(Picked(t, I), U) /\ HasThose(Picked(t, I), t, I)
      BY PickedTable
    <2> QED BY <2>1 DEF HasThose
  <1> HIDE DEF fresh, r, cut
  <1>5. n \in Nat /\ \A i \in 1..n : fresh[i][1] \in ids /\ U[fresh[i][1]] \in Nat
    <2>1. n \in Nat /\ \A i \in 1..n : fresh[i] \in ids \X Int
      BY <1>4
    <2> HIDE DEF n
    <2> QED BY <2>1
  <1>6. F = {fresh[i][1] : i \in 1..n}
    <2>1. F = {t[j][1] : j \in {k \in 1..Len(t) : k \in I}}
      BY <1>3 DEF I, FreshNames
    <2> HIDE DEF n
    <2>2. ASSUME NEW i \in 1..n PROVE fresh[i][1] \in F
      <3>1. PICK j \in 1..Len(t) : j \in I /\ fresh[i] = t[j]
        BY <1>4
      <3> QED BY <2>1, <3>1
    <2>3. ASSUME NEW j \in 1..Len(t), j \in I PROVE \E i \in 1..n : t[j][1] = fresh[i][1]
      <3>1. PICK i \in 1..n : fresh[i] = t[j]
        BY <1>4, <2>3
      <3> QED BY <3>1
    <2>4. ASSUME NEW x \in F PROVE x \in {fresh[i][1] : i \in 1..n}
      <3>1. PICK j \in 1..Len(t) : j \in I /\ x = t[j][1]
        BY <2>1
      <3>2. PICK i \in 1..n : t[j][1] = fresh[i][1]
        BY <2>3, <3>1
      <3> QED BY <3>1, <3>2
    <2>5. {fresh[i][1] : i \in 1..n} \subseteq F
      BY <2>2
    <2> QED BY <2>4, <2>5
  <1> HIDE DEF n
  <1>7. ASSUME NEW i \in 1..n
        PROVE  /\ After(fresh[i][1]) = {fresh[j][1] : j \in (i + 1)..n}
               /\ Cardinality(After(fresh[i][1])) = n - i
    <2>1. \A j \in 1..n : U[fresh[j][1]] > U[fresh[i][1]] <=> j \in (i + 1)..n
      <3> SUFFICES ASSUME NEW j \in 1..n PROVE U[fresh[j][1]] > U[fresh[i][1]] <=> j \in (i + 1)..n
        OBVIOUS
      <3>1. CASE j = i
        BY <1>5, <3>1
      <3>2. CASE j < i
        <4>1. U[fresh[j][1]] < U[fresh[i][1]]
          BY <1>4, <3>2 DEF UsesRise, n
        <4> QED BY <1>5, <3>2, <4>1
      <3>3. CASE j > i
        <4>1. U[fresh[i][1]] < U[fresh[j][1]]
          BY <1>4, <1>5, <3>3 DEF UsesRise, n
        <4> QED BY <1>5, <3>3, <4>1
      <3> QED BY <1>5, <3>1, <3>2, <3>3
    <2>2. \A j \in (i + 1)..n : j \in 1..n
      BY <1>5
    <2>3. After(fresh[i][1]) = {fresh[j][1] : j \in (i + 1)..n}
      BY <1>6, <2>1, <2>2 DEF Later
    <2>4. i \in 0..n
      BY <1>5
    <2>5. Cardinality({fresh[j][1] : j \in (i + 1)..n}) = n - i
      BY <1>4, <2>4, NamesCount DEF n
    <2> HIDE DEF After
    <2> QED BY <2>3, <2>5
  <1> HIDE DEF After
  <1>8. CASE ~ cut
    <2>1. r = fresh /\ (SessionMax > 0 => n <= SessionMax)
      BY <1>1, <1>2, <1>5, <1>8 DEF cut
    <2>2. ASSUME NEW x PROVE HasSession(r, x) <=> x \in F /\ (SessionMax > 0 => Cardinality(After(x)) < SessionMax)
      <3>1. HasSession(r, x) <=> x \in F
        <4>1. DOMAIN r = 1..n
          BY <1>4, <2>1 DEF n
        <4> QED BY <1>6, <2>1, <4>1 DEF HasSession
      <3>2. ASSUME x \in F, SessionMax > 0 PROVE Cardinality(After(x)) < SessionMax
        <4>1. PICK i \in 1..n : x = fresh[i][1]
          BY <1>6, <3>2
        <4>2. Cardinality(After(x)) = n - i
          BY <1>7, <4>1
        <4> QED BY <1>1, <1>5, <2>1, <3>2, <4>2
      <3> QED BY <3>1, <3>2
    <2>3. \A i \in 1..Len(r) : \E j \in 1..Len(t) : r[i] = t[j]
      BY <1>4, <2>1 DEF n
    <2> QED BY <1>4, <2>1, <2>2, <2>3 DEF n, r, After, PrunedTo
  <1>9. CASE cut
    <2> DEFINE m == SessionMax
    <2>1. r = SubSeq(fresh, n - m + 1, n) /\ m \in Nat /\ m > 0 /\ m < n
      BY <1>1, <1>2, <1>5, <1>9 DEF cut
    <2> HIDE DEF m
    <2>2. /\ r \in Seq(ids \X Int) /\ UsesRise(r, U) /\ Len(r) = m
          /\ \A i \in 1..m : r[i] = fresh[n - m + i]
      <3>1. m \in Nat /\ m < Len(fresh) /\ r = SubSeq(fresh, Len(fresh) - m + 1, Len(fresh))
        BY <2>1 DEF n
      <3>2. fresh \in Seq(ids \X Int) /\ UsesRise(fresh, U)
        BY <1>4
      <3>3. r \in Seq(ids \X Int) /\ UsesRise(r, U) /\ EndsWith(fresh, r, m)
        BY <3>1, <3>2, LastPlaces
      <3> QED BY <3>3 DEF n, EndsWith
    <2>3. \A i \in 1..m : n - m + i \in 1..n
      BY <1>5, <2>1
    <2>4. \A i \in 1..Len(r) : \E j \in 1..Len(t) : r[i] = t[j]
      <3> SUFFICES ASSUME NEW i \in 1..m PROVE \E j \in 1..Len(t) : r[i] = t[j]
        BY <2>2
      <3>1. n - m + i \in 1..n /\ r[i] = fresh[n - m + i]
        BY <2>2, <2>3
      <3> QED BY <1>4, <3>1
    <2>5. ASSUME NEW x PROVE HasSession(r, x) <=> x \in F /\ Cardinality(After(x)) < m
      <3>1. DOMAIN r = 1..m
        BY <2>2
      <3>2. ASSUME HasSession(r, x) PROVE x \in F /\ Cardinality(After(x)) < m
        <4>1. PICK i \in 1..m : r[i][1] = x
          BY <3>1, <3>2 DEF HasSession
        <4>2. x = fresh[n - m + i][1] /\ n - m + i \in 1..n
          BY <2>2, <2>3, <4>1
        <4>3. Cardinality(After(x)) = n - (n - m + i) /\ x \in F
          BY <1>6, <1>7, <4>2
        <4> QED BY <1>5, <2>1, <4>3
      <3>3. ASSUME x \in F, Cardinality(After(x)) < m PROVE HasSession(r, x)
        <4>1. PICK i \in 1..n : x = fresh[i][1]
          BY <1>6, <3>3
        <4>2. n - i < m
          BY <1>7, <3>3, <4>1
        <4> DEFINE k == i - (n - m)
        <4>3. k \in 1..m /\ n - m + k = i
          BY <1>5, <2>1, <4>2
        <4>4. r[k][1] = x
          BY <2>2, <4>1, <4>3
        <4> HIDE DEF k
        <4> QED BY <3>1, <4>3, <4>4 DEF HasSession
      <3> QED BY <3>2, <3>3
    <2>6. m = SessionMax /\ Len(r) <= m
      BY <2>1, <2>2 DEF m
    <2> QED BY <2>1, <2>2, <2>4, <2>5, <2>6 DEF r, After, PrunedTo
  <1> QED BY <1>8, <1>9

(* Moving a session to the end makes it the one in use last. *)
LEMMA RefreshedIs ==
    ASSUME NEW ids, NEW U \in [ids -> Nat], NEW t0 \in Seq(ids \X Int), UsesRise(t0, U),
           NEW id \in ids, NEW now \in Int, NEW n \in Nat, \A x \in ids : U[x] < n
    PROVE  LET t == Append(Without(t0, id), <<id, now>>)
           IN  /\ t \in Seq(ids \X Int) /\ UsesRise(t, [U EXCEPT ![id] = n])
               /\ Refreshed(t, t0, id, now)
  <1> DEFINE I == {i \in DOMAIN t0 : t0[i][1] # id}
             w == Picked(t0, I)
             last == <<id, now>>
             t == Append(w, last)
             V == [U EXCEPT ![id] = n]
  <1>1. Without(t0, id) = w
    BY DEF Without
  <1>2. w \in Seq(ids \X Int) /\ UsesRise(w, U) /\ HasThose(w, t0, I)
    <2> HIDE DEF I
    <2> QED BY PickedTable
  <1>3. \A j : j \in I <=> j \in 1..Len(t0) /\ t0[j][1] # id
    OBVIOUS
  <1> HIDE DEF I, w
  <1>4. last \in ids \X Int /\ Len(w) \in Nat /\ \A i \in 1..Len(w) : w[i] \in ids \X Int
    BY <1>2
  <1>5. /\ t \in Seq(ids \X Int) /\ Len(t) = Len(w) + 1
        /\ \A i \in 1..Len(w) : t[i] = w[i]
        /\ t[Len(w) + 1] = last
    <2> HIDE DEF last
    <2> QED BY <1>2, <1>4, AppendProperties
  <1>6. last[1] = id
    OBVIOUS
  <1> HIDE DEF t, last
  <1>7. \A i \in 1..Len(t) : i \in 1..Len(w) \/ i = Len(w) + 1
    <2>1. \A i \in 1..(Len(w) + 1) : i \in 1..Len(w) \/ i = Len(w) + 1
      BY <1>4
    <2> QED BY <1>5, <2>1
  <1>8. ASSUME NEW i \in 1..Len(w) PROVE V[w[i][1]] = U[w[i][1]] /\ w[i][1] \in ids /\ U[w[i][1]] \in Nat
    <2>1. PICK j \in 1..Len(t0) : w[i] = t0[j] /\ j \in I
      BY <1>2 DEF HasThose
    <2>2. w[i][1] # id /\ w[i][1] \in ids
      BY <1>3, <1>4, <2>1
    <2> QED BY <2>2
  <1>9. V[id] = n
    OBVIOUS
  <1> HIDE DEF V
  <1>10. UsesRise(t, V)
    <2> SUFFICES ASSUME NEW i \in 1..Len(t), NEW j \in 1..Len(t), i < j PROVE V[t[i][1]] < V[t[j][1]]
      BY DEF UsesRise
    <2>1. i \in 1..Len(w)
      BY <1>4, <1>5, <1>7
    <2>2. CASE j \in 1..Len(w)
      <3>1. U[w[i][1]] < U[w[j][1]]
        BY <1>2, <2>1, <2>2 DEF UsesRise
      <3> QED BY <1>5, <1>8, <2>1, <2>2, <3>1
    <2>3. CASE j = Len(w) + 1
      BY <1>5, <1>6, <1>8, <1>9, <2>1, <2>3
    <2> QED BY <1>7, <2>2, <2>3
  <1>11. ASSUME NEW i \in 1..Len(t)
         PROVE  t[i] = last \/ \E j \in 1..Len(t0) : t[i] = t0[j] /\ t0[j][1] # id
    <2>1. CASE i \in 1..Len(w)
      <3>1. PICK j \in 1..Len(t0) : w[i] = t0[j] /\ j \in I
        BY <1>2, <2>1 DEF HasThose
      <3> QED BY <1>3, <1>5, <2>1, <3>1
    <2> QED BY <1>5, <1>7, <2>1
  <1>12. ASSUME NEW j \in 1..Len(t0), t0[j][1] # id PROVE \E i \in 1..Len(t) : t[i] = t0[j]
    <2>1. PICK i \in 1..Len(w) : w[i] = t0[j]
      BY <1>2, <1>3, <1>12 DEF HasThose
    <2>2. i \in 1..Len(t)
      BY <1>4, <1>5
    <2> QED BY <1>5, <2>1, <2>2
  <1>13. Len(w) + 1 \in 1..Len(t)
    BY <1>4, <1>5
  <1>14. Refreshed(t, t0, id, now)
    BY <1>5, <1>11, <1>12, <1>13 DEF Refreshed, last
  <1> QED BY <1>1, <1>5, <1>10, <1>14 DEF t, V, last

(* The names of a table are as many as its places. *)
LEMMA AllNamesCount ==
    ASSUME NEW ids, NEW U \in [ids -> Nat], NEW t \in Seq(ids \X Int), UsesRise(t, U)
    PROVE  LET names == {x \in ids : HasSession(t, x)}
           IN  IsFiniteSet(names) /\ Cardinality(names) = Len(t)
  <1> DEFINE names == {x \in ids : HasSession(t, x)}
  <1>1. Len(t) \in Nat /\ DOMAIN t = 1..Len(t) /\ \A i \in 1..Len(t) : t[i][1] \in ids
    OBVIOUS
  <1>2. 0 \in 0..Len(t) /\ Len(t) - 0 = Len(t) /\ (0 + 1)..Len(t) = 1..Len(t)
    BY <1>1
  <1>3. IsFiniteSet({t[j][1] : j \in (0 + 1)..Len(t)}) /\ Cardinality({t[j][1] : j \in (0 + 1)..Len(t)}) = Len(t) - 0
    BY <1>2, NamesCount
  <1>4. names = {t[j][1] : j \in 1..Len(t)}
    BY <1>1 DEF HasSession
  <1> HIDE DEF names
  <1> QED BY <1>2, <1>3, <1>4 DEF names

(* The sessions of a table that are fresh are those alive. *)
LEMMA FreshAreAlive ==
    ASSUME NEW ids, NEW k \in Nat, NEW U \in [ids -> 0..k],
           NEW C \in [0..(k + 1) -> Int], NEW t, Table(ids, t, U, C), NEW now \in Int
    PROVE  \A x : x \in FreshNames(t, now) <=> x \in ids /\ Alive(x, U, C, now)
  <1> DEFINE F == {t[i][1] : i \in {j \in 1..Len(t) : SessionTtl = 0 \/ t[j][2] >= now - SessionTtl}}
             G == {x \in ids : Alive(x, U, C, now)}
  <1>1. SessionTtl \in Nat
    BY RequestsAssumption
  <1>2. DOMAIN t = 1..Len(t) /\ \A i \in 1..Len(t) : t[i][1] \in ids
    BY SMTT(20) DEF Table
  <1>3. \A i \in 1..Len(t) : U[t[i][1]] > 0 /\ t[i][2] = C[U[t[i][1]]] /\ U[t[i][1]] \in Nat /\ C[U[t[i][1]]] \in Int
    <2> SUFFICES ASSUME NEW i \in 1..Len(t) PROVE U[t[i][1]] > 0 /\ t[i][2] = C[U[t[i][1]]] /\ U[t[i][1]] \in Nat /\ C[U[t[i][1]]] \in Int
      OBVIOUS
    <2>1. U[t[i][1]] > 0 /\ t[i][2] = C[U[t[i][1]]]
      BY DEF Table
    <2>2. U[t[i][1]] \in 0..k
      BY <1>2
    <2> QED BY <2>1, <2>2
  <1>4. ASSUME NEW i \in 1..Len(t) PROVE (SessionTtl = 0 \/ t[i][2] >= now - SessionTtl) <=> Alive(t[i][1], U, C, now)
    <2>1. t[i][2] = C[U[t[i][1]]] /\ U[t[i][1]] # 0 /\ C[U[t[i][1]]] \in Int
      BY <1>3
    <2> DEFINE c == C[U[t[i][1]]]
    <2> HIDE DEF c
    <2>2. c \in Int /\ t[i][2] = c
      BY <2>1 DEF c
    <2>3. c >= now - SessionTtl <=> now - c <= SessionTtl
      BY <1>1, <2>2
    <2> QED BY <2>1, <2>2, <2>3 DEF Alive, c
  <1>5. F \subseteq G
    BY <1>2, <1>4
  <1>6. ASSUME NEW x \in G PROVE x \in F
    <2>1. U[x] > 0
      <3>1. U[x] \in 0..k /\ U[x] # 0
        BY DEF Alive
      <3> QED BY <3>1
    <2>2. PICK i \in 1..Len(t) : t[i][1] = x
      BY <1>2, <2>1 DEF Table, HasSession
    <2> QED BY <1>4, <2>2
  <1> QED BY <1>5, <1>6 DEF FreshNames

(* Registering a session: those alive stay, but for one that as many as    *)
(* SessionMax were used after, and the new one is the last in use.          *)
LEMMA RegisterIs ==
    ASSUME NEW ids, IsFiniteSet(ids), NEW k \in Nat, NEW U \in [ids -> 0..k],
           NEW C \in [0..(k + 1) -> Int], \A i, j \in 0..(k + 1) : i <= j => C[i] <= C[j], C[k + 1] = C[k],
           NEW t, Table(ids, t, U, C), NEW id \in ids,
           NEW V, V = [x \in ids |->
               IF x = id THEN k + 1
               ELSE IF Alive(x, U, C, C[k]) /\ (SessionMax > 0 => Cardinality({y \in ids : U[y] > U[x]} \ {id}) + 1 < SessionMax)
                    THEN U[x] ELSE 0]
    PROVE  Table(ids, RegisterSession(t, id, C[k]), V, C)
  <1> DEFINE now == C[k]
             n == k + 1
             W == [U EXCEPT ![id] = n]
             t1 == Append(Without(t, id), <<id, now>>)
             r == RegisterSession(t, id, now)
             G == {x \in ids : Alive(x, U, C, now)}
             F == FreshNames(t1, now)
             Few(x) == SessionMax > 0 => Cardinality({y \in ids : U[y] > U[x]} \ {id}) + 1 < SessionMax
  <1>1. SessionTtl \in Nat /\ SessionMax \in Nat
    BY RequestsAssumption
  <1>2. n \in Nat /\ now \in Int /\ k \in 0..n /\ n \in 0..n /\ 0..k \subseteq 0..n /\ C[n] = now
    OBVIOUS
  <1>3. t \in Seq(ids \X Int) /\ UsesRise(t, U) /\ Len(t) \in Nat
    BY DEF Table
  <1>4. U \in [ids -> Nat] /\ \A x \in ids : U[x] < n /\ U[x] \in 0..k /\ U[x] \in 0..n
    BY <1>2
  <1>5. W \in [ids -> Nat] /\ W[id] = n /\ \A x \in ids : x # id => W[x] = U[x]
    BY <1>2, <1>4
  <1>6. t1 \in Seq(ids \X Int) /\ UsesRise(t1, W) /\ Refreshed(t1, t, id, now)
    <2> HIDE DEF now, n
    <2> QED BY <1>2, <1>3, <1>4, RefreshedIs
  <1>7. r = Pruned(t1, now)
    BY DEF RegisterSession
  <1> HIDE DEF t1, r, W, now, n, F
  <1>8. FreshNames(t, now) = G
    <2>1. \A x : x \in FreshNames(t, now) <=> x \in ids /\ Alive(x, U, C, now)
      <3>1. now \in Int /\ k \in Nat /\ U \in [ids -> 0..k] /\ C \in [0..(k + 1) -> Int]
        BY <1>2
      <3> QED BY <3>1, FreshAreAlive, Zenon
    <2> QED BY <2>1
  <1>9. F = {id} \union (G \ {id})
    <2> DEFINE P(j, s) == SessionTtl = 0 \/ s[j][2] >= now - SessionTtl
    <2>1. ASSUME NEW x \in F PROVE x \in {id} \union (G \ {id})
      <3>1. PICK i \in 1..Len(t1) : x = t1[i][1] /\ P(i, t1)
        BY <2>1 DEF F, FreshNames
      <3>2. CASE t1[i] = <<id, now>>
        BY <3>1, <3>2
      <3>3. CASE \E j \in 1..Len(t) : t1[i] = t[j] /\ t[j][1] # id
        <4>1. PICK j \in 1..Len(t) : t1[i] = t[j] /\ t[j][1] # id
          BY <3>3
        <4>2. t[j][1] \in G
          BY <1>8, <3>1, <4>1 DEF FreshNames
        <4> QED BY <3>1, <4>1, <4>2
      <3> QED BY <1>6, <3>2, <3>3 DEF Refreshed
    <2>2. id \in F
      <3>1. PICK i \in 1..Len(t1) : t1[i] = <<id, now>>
        BY <1>6 DEF Refreshed
      <3>2. t1[i][1] = id /\ t1[i][2] = now /\ now >= now - SessionTtl
        BY <1>1, <1>2, <3>1
      <3> QED BY <3>1, <3>2 DEF F, FreshNames
    <2>3. ASSUME NEW x \in G, x # id PROVE x \in F
      <3>1. PICK j \in 1..Len(t) : x = t[j][1] /\ P(j, t)
        BY <1>8, <2>3 DEF FreshNames
      <3>2. PICK i \in 1..Len(t1) : t1[i] = t[j]
        BY <1>6, <2>3, <3>1 DEF Refreshed
      <3> QED BY <3>1, <3>2 DEF F, FreshNames
    <2> QED BY <2>1, <2>2, <2>3
  <1>10. /\ r \in Seq(ids \X Int) /\ UsesRise(r, W)
         /\ SessionMax > 0 => Len(r) <= SessionMax
         /\ \A i \in 1..Len(r) : \E j \in 1..Len(t1) : r[i] = t1[j]
         /\ \A x : HasSession(r, x) <=>
               x \in F /\ (SessionMax > 0 => Cardinality(Later(F, W, x)) < SessionMax)
    <2>1. F = FreshNames(t1, now)
      BY DEF F
    <2>2. PrunedTo(Pruned(t1, now), t1, ids, W, F)
      BY <1>2, <1>5, <1>6, <2>1, PrunedIs
    <2> QED BY <1>7, <2>2 DEF PrunedTo
  <1>11. Later(F, W, id) = {}
    <2>1. ASSUME NEW y \in F PROVE ~ (W[y] > W[id])
      <3>1. CASE y = id
        BY <1>2, <1>5, <3>1
      <3>2. CASE y # id
        BY <1>2, <1>4, <1>5, <1>9, <3>2
      <3> QED BY <3>1, <3>2
    <2> QED BY <2>1 DEF Later
  <1>12. HasSession(r, id)
    <2>1. Cardinality(Later(F, W, id)) = 0
      BY <1>11, FS_EmptySet
    <2>2. id \in F
      BY <1>9
    <2> QED BY <1>1, <1>10, <2>1, <2>2
  <1>13. ASSUME NEW x \in G, x # id PROVE HasSession(r, x) <=> Few(x)
    <2> DEFINE N == {y \in ids : U[y] > U[x]} \ {id}
    <2>1. Later(F, W, x) = N \union {id}
      <3>1. \A y \in N : y \in G
        <4> SUFFICES ASSUME NEW y \in N PROVE y \in G
          OBVIOUS
        <4>1. U[x] \in 0..n /\ U[y] \in 0..n /\ U[x] <= U[y] /\ U[x] # 0 /\ U[y] # 0
          BY <1>4 DEF Alive
        <4>2. C[U[x]] <= C[U[y]] /\ C[U[x]] \in Int /\ C[U[y]] \in Int
          BY <4>1 DEF n
        <4>3. SessionTtl = 0 \/ now - C[U[x]] <= SessionTtl
          BY DEF Alive
        <4>4. now - C[U[x]] <= SessionTtl => now - C[U[y]] <= SessionTtl
          BY <1>1, <1>2, <4>2
        <4> QED BY <4>1, <4>3, <4>4 DEF Alive
      <3>2. W[x] = U[x] /\ U[x] < n /\ W[id] = n /\ x \in ids /\ U[x] \in Nat
        BY <1>4, <1>5, <1>13
      <3>3. \A y \in G \ {id} : W[y] = U[y]
        BY <1>5
      <3>4. \A y \in N : y # id /\ y \in F /\ W[y] > W[x]
        BY <1>9, <3>1, <3>2, <3>3
      <3>5. W[id] > W[x] /\ id \in F
        BY <1>2, <1>9, <3>2
      <3>6. \A y \in F : W[y] > W[x] => y = id \/ y \in N
        BY <1>9, <3>2, <3>3
      <3> QED BY <3>4, <3>5, <3>6 DEF Later
    <2>2. IsFiniteSet(N) /\ id \notin N
      <3>1. IsFiniteSet({y \in ids : U[y] > U[x]} \ {id})
        BY FS_Subset
      <3> QED BY <3>1
    <2> HIDE DEF N
    <2>3. Cardinality(Later(F, W, x)) = Cardinality(N) + 1
      BY <2>1, <2>2, FS_AddElement
    <2>4. x \in F
      BY <1>9, <1>13
    <2> QED BY <1>10, <2>3, <2>4 DEF N
  <1>14. \A x : HasSession(r, x) => x \in ids
    <2>1. F \subseteq ids
      BY <1>9
    <2> QED BY <1>10, <2>1
  <1>15. \A x \in ids : HasSession(r, x) => V[x] = W[x] /\ V[x] > 0
    <2> SUFFICES ASSUME NEW x \in ids, HasSession(r, x) PROVE V[x] = W[x] /\ V[x] > 0
      OBVIOUS
    <2>1. CASE x = id
      BY <1>2, <1>5, <2>1 DEF n
    <2>2. CASE x # id
      <3>1. x \in G
        BY <1>9, <1>10, <2>2
      <3>2. Few(x)
        BY <1>13, <2>2, <3>1
      <3>3. V[x] = U[x] /\ U[x] # 0
        BY <2>2, <3>1, <3>2 DEF Alive, now
      <3> QED BY <1>4, <1>5, <2>2, <3>3
    <2> QED BY <2>1, <2>2
  <1>16. \A x \in ids : V[x] > 0 => HasSession(r, x)
    <2> SUFFICES ASSUME NEW x \in ids, V[x] > 0 PROVE HasSession(r, x)
      OBVIOUS
    <2>1. CASE x # id
      <3>1. x \in G /\ Few(x)
        BY <2>1 DEF now
      <3> QED BY <1>13, <2>1, <3>1
    <2> QED BY <1>12, <2>1
  <1>17. \A i \in 1..Len(r) : r[i][1] \in ids /\ HasSession(r, r[i][1])
    <2>1. r \in Seq(ids \X Int)
      BY <1>10
    <2>2. DOMAIN r = 1..Len(r) /\ \A i \in 1..Len(r) : r[i][1] \in ids
      BY <2>1, SMTT(30)
    <2> QED BY <2>2 DEF HasSession
  <1>18. UsesRise(r, V)
    BY <1>10, <1>15, <1>17 DEF UsesRise
  <1>19. ASSUME NEW i \in 1..Len(r) PROVE V[r[i][1]] > 0 /\ r[i][2] = C[V[r[i][1]]]
    <2>1. V[r[i][1]] = W[r[i][1]] /\ V[r[i][1]] > 0
      BY <1>15, <1>17
    <2>2. PICK j \in 1..Len(t1) : r[i] = t1[j]
      BY <1>10
    <2>3. CASE t1[j] = <<id, now>>
      BY <1>2, <1>5, <2>1, <2>2, <2>3
    <2>4. CASE \E m \in 1..Len(t) : t1[j] = t[m] /\ t[m][1] # id
      <3>1. PICK m \in 1..Len(t) : t1[j] = t[m] /\ t[m][1] # id
        BY <2>4
      <3>2. t[m][2] = C[U[t[m][1]]]
        BY DEF Table
      <3>3. U[t[m][1]] = W[t[m][1]]
        BY <1>5, <1>17, <2>2, <3>1
      <3> QED BY <2>1, <2>2, <3>1, <3>2, <3>3
    <2> QED BY <1>6, <2>1, <2>3, <2>4 DEF Refreshed
  <1>20. Table(ids, r, V, C)
    BY <1>10, <1>15, <1>16, <1>18, <1>19 DEF Table
  <1> QED BY <1>20 DEF r, now

(* Looking for a session: those alive stay, and it becomes the last in use *)
(* if it is one of them.                                                    *)
LEMMA LookUpIs ==
    ASSUME NEW ids, NEW k \in Nat, NEW U \in [ids -> 0..k],
           NEW C \in [0..(k + 1) -> Int], C[k + 1] = C[k],
           NEW t, Table(ids, t, U, C), NEW id \in ids,
           NEW V, V = [x \in ids |->
               IF Alive(x, U, C, C[k]) THEN IF x = id THEN k + 1 ELSE U[x] ELSE 0]
    PROVE  Table(ids, LookUpSession(t, id, C[k]), V, C)
  <1> DEFINE now == C[k]
             n == k + 1
             kept == Pruned(t, now)
             t1 == Append(Without(kept, id), <<id, now>>)
             W == [U EXCEPT ![id] = n]
             F == FreshNames(t, now)
  <1>1. SessionMax \in Nat /\ n \in Nat /\ now \in Int /\ C[n] = now
    BY RequestsAssumption
  <1>2. /\ t \in Seq(ids \X Int) /\ UsesRise(t, U) /\ (SessionMax > 0 => Len(t) <= SessionMax)
        /\ \A i \in 1..Len(t) : U[t[i][1]] > 0 /\ t[i][2] = C[U[t[i][1]]]
        /\ \A x \in ids : HasSession(t, x) <=> U[x] > 0
    BY DEF Table
  <1>3. U \in [ids -> Nat] /\ \A x \in ids : U[x] < n /\ U[x] \in 0..k
    OBVIOUS
  <1>4. LookUpSession(t, id, now) = IF HasSession(kept, id) THEN t1 ELSE kept
    BY DEF LookUpSession
  <1> HIDE DEF kept, F
  <1>5. \A x : x \in F <=> x \in ids /\ Alive(x, U, C, now)
    <2>1. \A x : x \in FreshNames(t, now) <=> x \in ids /\ Alive(x, U, C, now)
      <3>1. now \in Int /\ k \in Nat /\ U \in [ids -> 0..k] /\ C \in [0..(k + 1) -> Int]
        BY <1>1
      <3> HIDE DEF now
      <3> QED BY <3>1, FreshAreAlive, Zenon
    <2> QED BY <2>1 DEF F
  <1> HIDE DEF now
  <1>6. /\ kept \in Seq(ids \X Int) /\ UsesRise(kept, U)
        /\ SessionMax > 0 => Len(kept) <= SessionMax
        /\ \A i \in 1..Len(kept) : \E j \in 1..Len(t) : kept[i] = t[j]
        /\ \A x : HasSession(kept, x) <=>
              x \in F /\ (SessionMax > 0 => Cardinality(Later(F, U, x)) < SessionMax)
    <2>1. PrunedTo(Pruned(t, now), t, ids, U, F)
      <3>1. F = FreshNames(t, now)
        BY DEF F
      <3> QED BY <1>1, <1>2, <1>3, <3>1, PrunedIs
    <2> QED BY <2>1 DEF PrunedTo, kept
  <1>7. \A x \in ids : HasSession(kept, x) <=> Alive(x, U, C, now)
    <2> SUFFICES ASSUME NEW x \in F, SessionMax > 0 PROVE Cardinality(Later(F, U, x)) < SessionMax
      BY <1>5, <1>6
    <2> DEFINE names == {y \in ids : HasSession(t, y)}
    <2>1. IsFiniteSet(names) /\ Cardinality(names) = Len(t)
      BY <1>2, <1>3, AllNamesCount
    <2>2. \A y \in F : y \in names
      <3> SUFFICES ASSUME NEW y \in F PROVE y \in ids /\ HasSession(t, y)
        OBVIOUS
      <3>1. y \in ids /\ U[y] # 0 /\ U[y] \in 0..k
        BY <1>3, <1>5 DEF Alive
      <3>2. U[y] > 0
        BY <3>1
      <3> QED BY <1>2, <3>1, <3>2
    <2> HIDE DEF names
    <2>3. Later(F, U, x) \subseteq names \ {x}
      <3>1. U[x] \in Nat
        BY <1>3, <1>5
      <3> QED BY <2>2, <3>1 DEF Later
    <2>4. IsFiniteSet(names \ {x}) /\ Cardinality(names \ {x}) = Cardinality(names) - 1
      BY <2>1, <2>2, FS_RemoveElement
    <2>5. IsFiniteSet(Later(F, U, x)) /\ Cardinality(Later(F, U, x)) <= Cardinality(names \ {x})
      BY <2>3, <2>4, FS_Subset
    <2>6. Cardinality(Later(F, U, x)) \in Nat /\ Cardinality(names) \in Nat
      BY <2>1, <2>5, FS_CardinalityType
    <2> QED BY <1>1, <1>2, <2>1, <2>4, <2>5, <2>6
  <1>8. \A i \in 1..Len(kept) : kept[i][1] \in ids /\ HasSession(kept, kept[i][1])
    <2>1. DOMAIN kept = 1..Len(kept) /\ \A i \in 1..Len(kept) : kept[i] \in ids \X Int
      BY <1>6
    <2> QED BY <2>1 DEF HasSession
  <1>9. \A i \in 1..Len(kept) : U[kept[i][1]] > 0 /\ kept[i][2] = C[U[kept[i][1]]]
    BY <1>2, <1>6
  <1>10. \A x \in ids : V[x] = IF HasSession(kept, x) THEN IF x = id THEN n ELSE U[x] ELSE 0
    BY <1>7 DEF now
  <1> HIDE DEF n
  <1>11. CASE ~ HasSession(kept, id)
    <2>1. \A x \in ids : HasSession(kept, x) => V[x] = U[x]
      BY <1>10, <1>11
    <2>2. \A x \in ids : HasSession(kept, x) <=> V[x] > 0
      <3> SUFFICES ASSUME NEW x \in ids PROVE HasSession(kept, x) <=> V[x] > 0
        OBVIOUS
      <3>1. HasSession(kept, x) => U[x] > 0
        <4>1. Alive(x, U, C, now) => U[x] # 0
          BY DEF Alive
        <4> QED BY <1>3, <1>7, <4>1
      <3> QED BY <1>10, <2>1, <3>1
    <2>3. UsesRise(kept, V)
      BY <1>6, <1>8, <2>1 DEF UsesRise
    <2>4. \A i \in 1..Len(kept) : V[kept[i][1]] > 0 /\ kept[i][2] = C[V[kept[i][1]]]
      BY <1>8, <1>9, <2>1
    <2>5. Table(ids, kept, V, C)
      BY <1>6, <2>2, <2>3, <2>4 DEF Table
    <2> QED BY <1>4, <1>11, <2>5 DEF now
  <1>12. CASE HasSession(kept, id)
    <2>1. t1 \in Seq(ids \X Int) /\ UsesRise(t1, W) /\ Refreshed(t1, kept, id, now)
      BY <1>1, <1>3, <1>6, RefreshedIs
    <2>2. W \in [ids -> Nat] /\ W[id] = n /\ \A x \in ids : x # id => W[x] = U[x]
      BY <1>1, <1>3
    <2> HIDE DEF t1, W
    <2>3. \A x \in ids : HasSession(t1, x) <=> HasSession(kept, x)
      <3> SUFFICES ASSUME NEW x \in ids PROVE HasSession(t1, x) <=> HasSession(kept, x)
        OBVIOUS
      <3>1. DOMAIN t1 = 1..Len(t1) /\ DOMAIN kept = 1..Len(kept)
        BY <1>6, <2>1
      <3>2. CASE x = id
        <4>1. PICK i \in 1..Len(t1) : t1[i] = <<id, now>>
          BY <2>1 DEF Refreshed
        <4>2. t1[i][1] = id
          BY <4>1
        <4> QED BY <1>12, <3>1, <3>2, <4>2 DEF HasSession
      <3>3. CASE x # id
        <4>1. ASSUME HasSession(t1, x) PROVE HasSession(kept, x)
          <5>1. PICK i \in 1..Len(t1) : t1[i][1] = x
            BY <3>1, <4>1 DEF HasSession
          <5>2. PICK j \in 1..Len(kept) : t1[i] = kept[j]
            <6>1. t1[i] # <<id, now>>
              BY <3>3, <5>1
            <6> QED BY <2>1, <6>1 DEF Refreshed
          <5> QED BY <3>1, <5>1, <5>2 DEF HasSession
        <4>2. ASSUME HasSession(kept, x) PROVE HasSession(t1, x)
          <5>1. PICK j \in 1..Len(kept) : kept[j][1] = x
            BY <3>1, <4>2 DEF HasSession
          <5>2. PICK i \in 1..Len(t1) : t1[i] = kept[j]
            BY <2>1, <3>3, <5>1 DEF Refreshed
          <5> QED BY <3>1, <5>1, <5>2 DEF HasSession
        <4> QED BY <4>1, <4>2
      <3> QED BY <3>2, <3>3
    <2>4. \A x \in ids : HasSession(kept, x) => V[x] = W[x]
      BY <1>10, <2>2
    <2>5. \A x \in ids : HasSession(t1, x) <=> V[x] > 0
      <3> SUFFICES ASSUME NEW x \in ids PROVE HasSession(t1, x) <=> V[x] > 0
        OBVIOUS
      <3>1. HasSession(kept, x) => U[x] > 0
        <4>1. Alive(x, U, C, now) => U[x] # 0
          BY DEF Alive
        <4> QED BY <1>3, <1>7, <4>1
      <3>2. n > 0
        BY DEF n
      <3> QED BY <1>10, <2>3, <3>1, <3>2
    <2>6. \A i \in 1..Len(t1) : t1[i][1] \in ids /\ HasSession(t1, t1[i][1])
      <3>1. DOMAIN t1 = 1..Len(t1) /\ \A i \in 1..Len(t1) : t1[i] \in ids \X Int
        BY <2>1
      <3> QED BY <3>1 DEF HasSession
    <2>7. UsesRise(t1, V)
      BY <2>1, <2>3, <2>4, <2>6 DEF UsesRise
    <2>8. ASSUME NEW i \in 1..Len(t1) PROVE V[t1[i][1]] > 0 /\ t1[i][2] = C[V[t1[i][1]]]
      <3>1. V[t1[i][1]] > 0
        BY <2>5, <2>6
      <3>2. V[t1[i][1]] = W[t1[i][1]]
        BY <2>3, <2>4, <2>6
      <3>3. CASE t1[i] = <<id, now>>
        BY <1>1, <2>2, <3>1, <3>2, <3>3
      <3>4. CASE \E j \in 1..Len(kept) : t1[i] = kept[j] /\ kept[j][1] # id
        <4>1. PICK j \in 1..Len(kept) : t1[i] = kept[j] /\ kept[j][1] # id
          BY <3>4
        <4>2. W[kept[j][1]] = U[kept[j][1]]
          BY <1>8, <2>2, <4>1
        <4> QED BY <1>9, <3>1, <3>2, <4>1, <4>2
      <3> QED BY <2>1, <3>3, <3>4 DEF Refreshed
    <2>9. Len(t1) = Len(kept)
      <3> DEFINE N == {x \in ids : HasSession(t1, x)}
                 M == {x \in ids : HasSession(kept, x)}
      <3>1. N = M
        BY <2>3
      <3>2. Cardinality(N) = Len(t1)
        BY <2>1, <2>2, AllNamesCount
      <3>3. Cardinality(M) = Len(kept)
        BY <1>3, <1>6, AllNamesCount
      <3> HIDE DEF N, M
      <3> QED BY <3>1, <3>2, <3>3
    <2>10. Table(ids, t1, V, C)
      BY <1>6, <2>1, <2>5, <2>7, <2>8, <2>9 DEF Table
    <2> QED BY <1>4, <1>12, <2>10 DEF now
  <1> QED BY <1>11, <1>12

(* The clock rises, and only when it ticks. *)
LEMMA ClockIs ==
    ASSUME NEW ops \in Seq(SessionCalls)
    PROVE  /\ Clock(ops) \in [0..Len(ops) -> Int] /\ Clock(ops)[0] = 0
           /\ \A k \in 1..Len(ops) : Clock(ops)[k] = Clock(ops)[k - 1] + (IF ops[k][1] = "tick" THEN 1 ELSE 0)
           /\ \A i, j \in 0..Len(ops) : i <= j => Clock(ops)[i] <= Clock(ops)[j]
  <1> DEFINE s == [k \in DOMAIN ops |-> IF ops[k][1] = "tick" THEN 1 ELSE 0]
  <1>1. DOMAIN ops = 1..Len(ops) /\ Len(ops) \in Nat
    OBVIOUS
  <1>2. s \in Seq(Int) /\ Len(s) = Len(ops) /\ \A k \in 1..Len(ops) : s[k] = (IF ops[k][1] = "tick" THEN 1 ELSE 0)
    <2>1. s \in [1..Len(ops) -> Int]
      BY <1>1
    <2>2. s \in Seq(Int) /\ Len(s) = Len(ops)
      <3> HIDE DEF s
      <3> QED BY <1>1, <2>1
    <2> QED BY <1>1, <2>2
  <1>3. Clock(ops) = Sums(s)
    BY DEF Clock
  <1>4. \A k \in 1..Len(ops) : s[k] >= 0
    BY <1>2
  <1> HIDE DEF s
  <1>5. /\ Sums(s) \in [0..Len(ops) -> Int] /\ Sums(s)[0] = 0
        /\ \A k \in 1..Len(ops) : Sums(s)[k] = Sums(s)[k - 1] + s[k]
    BY <1>2, SumsAre
  <1>6. ASSUME NEW i \in 0..Len(ops), NEW j \in 0..Len(ops), i <= j PROVE Sums(s)[i] <= Sums(s)[j]
    <2>1. j \in 0..Len(s) /\ i \in 0..j /\ \A k \in 1..j : s[k] >= 0
      BY <1>1, <1>2, <1>4, <1>6
    <2> QED BY <1>2, <2>1, SumsRise
  <1> QED BY <1>2, <1>3, <1>5, <1>6

(* The identifiers of some calls are finitely many. *)
LEMMA IdsAreFinite ==
    ASSUME NEW ops \in Seq(SessionCalls)
    PROVE  IsFiniteSet({ops[i][2] : i \in DOMAIN ops})
  <1> DEFINE T == {ops[i][2] : i \in DOMAIN ops}
             f == [i \in 1..Len(ops) |-> ops[i][2]]
  <1>1. DOMAIN ops = 1..Len(ops) /\ Len(ops) \in Nat /\ 1 \in Int /\ Len(ops) \in Int
    OBVIOUS
  <1>2. IsFiniteSet(1..Len(ops))
    BY <1>1, FS_Interval
  <1>3. f \in Surjection(1..Len(ops), T)
    BY <1>1 DEF Surjection
  <1> HIDE DEF f, T
  <1>4. IsFiniteSet(T)
    BY <1>2, <1>3, FS_Surjection
  <1> QED BY <1>4 DEF T

(* A step keeps the table that of the sessions in use. *)
LEMMA StepKeepsTable ==
    ASSUME NEW ops \in Seq(SessionCalls), NEW n \in 1..Len(ops),
           NEW ss, NEW was, NEW st, NEW use, Stepped(ops, n, ss, was, st, use)
    PROVE  use \in [IdsOf(ops) -> 0..n] /\ Table(IdsOf(ops), st.ss, use, Clock(ops)) /\ st.now = Clock(ops)[n]
  <1> DEFINE ids == IdsOf(ops)
  <1>0. /\ was \in [ids -> 0..(n - 1)] /\ Table(ids, ss, was, Clock(ops)) /\ ids = {ops[i][2] : i \in DOMAIN ops}
        /\ st = SessionStep([ss |-> ss, now |-> Clock(ops)[n - 1]], ops[n]) /\ use = UseStep(ops, n, was)
    BY DEF Stepped, IdsOf
  <1> HIDE DEF ids
  <1> DEFINE C == Clock(ops)
             k == n - 1
             now == C[k]
             op == ops[n]
             id == ops[n][2]
             newer(x) == {y \in DOMAIN was : was[y] > was[x]}
             alive(x) == was[x] # 0 /\ (SessionTtl = 0 \/ C[n] - C[was[x]] <= SessionTtl)
             pushed(x) == SessionMax > 0 /\ op[1] = "reg" /\ Cardinality(newer(x) \ {id}) + 1 >= SessionMax
  <1>1. /\ k \in Nat /\ n = k + 1 /\ k \in 0..Len(ops) /\ n \in 0..Len(ops) /\ Len(ops) \in Nat
        /\ op \in SessionCalls /\ DOMAIN ops = 1..Len(ops) /\ DOMAIN was = ids /\ SessionMax \in Nat
    BY <1>0, RequestsAssumption
  <1>2. /\ C \in [0..Len(ops) -> Int] /\ C[n] = now + (IF op[1] = "tick" THEN 1 ELSE 0)
        /\ \A i, j \in 0..Len(ops) : i <= j => C[i] <= C[j]
    BY ClockIs
  <1>3. id \in ids /\ op = <<op[1], id>> /\ op[1] \in {"reg", "has", "tick"}
    BY <1>0, <1>1 DEF SessionCalls
  <1>4. use = [x \in ids |->
                  CASE op[1] = "tick" -> was[x]
                    [] op = <<"reg", x>> \/ (op = <<"has", x>> /\ alive(x)) -> n
                    [] OTHER -> IF alive(x) /\ ~ pushed(x) THEN was[x] ELSE 0]
    BY <1>0, <1>1 DEF UseStep
  <1>5. was \in [ids -> 0..k] /\ \A x \in ids : was[x] \in 0..n
    BY <1>0, <1>1
  <1>6. use \in [ids -> 0..n]
    <2>1. 0 \in 0..n /\ n \in 0..n
      BY <1>1
    <2>2. \A x \in ids : use[x] \in 0..n
      BY <1>4, <1>5, <2>1
    <2> QED BY <1>4, <2>2
  <1> DEFINE D == [i \in 0..n |-> C[i]]
  <1>7. /\ D \in [0..(k + 1) -> Int] /\ D[k] = now /\ D[k + 1] = C[n]
        /\ \A i \in 0..n : D[i] = C[i]
        /\ \A i, j \in 0..(k + 1) : i <= j => D[i] <= D[j]
    <2>1. 0..n \subseteq 0..Len(ops) /\ k \in 0..n /\ k + 1 \in 0..n /\ n \in 0..n
      BY <1>1
    <2> HIDE DEF C, k
    <2> QED BY <1>1, <1>2, <2>1
  <1> HIDE DEF D
  <1>8. ASSUME NEW U \in [ids -> 0..n], NEW t PROVE Table(ids, t, U, C) <=> Table(ids, t, U, D)
    <2> SUFFICES ASSUME t \in Seq(ids \X Int) PROVE Table(ids, t, U, C) <=> Table(ids, t, U, D)
      BY DEF Table
    <2>1. \A i \in 1..Len(t) : U[t[i][1]] \in 0..n
      <3>1. \A i \in 1..Len(t) : t[i] \in ids \X Int
        OBVIOUS
      <3> QED BY <3>1
    <2> HIDE DEF C
    <2> QED BY <1>7, <2>1 DEF Table
  <1>9. Table(ids, ss, was, D)
    <2>1. was \in [ids -> 0..n]
      BY <1>5
    <2> QED BY <1>0, <1>8, <2>1 DEF C
  <1> HIDE DEF now, k, C, op, id
  <1>10. CASE op[1] = "tick"
    <2>1. st.ss = ss /\ st.now = now + 1
      BY <1>0, <1>10 DEF SessionStep, op, now, k, C
    <2>2. use = was
      BY <1>4, <1>5, <1>10
    <2> QED BY <1>0, <1>2, <1>6, <1>10, <2>1, <2>2 DEF C, k, now, op, ids
  <1>11. CASE op[1] # "tick"
    <2>1. C[n] = now
      <3>1. now \in Int
        BY <1>1, <1>2 DEF now
      <3> QED BY <1>2, <1>11, <3>1
    <2>2. \A x \in ids : alive(x) <=> Alive(x, was, D, D[k])
      BY <1>5, <1>7, <2>1 DEF Alive
    <2>3. D[k + 1] = D[k]
      BY <1>7, <2>1
    <2>4. CASE op[1] = "reg"
      <3>1. st.ss = RegisterSession(ss, id, now) /\ st.now = now
        BY <1>0, <2>4 DEF SessionStep, op, id, now, k, C
      <3>2. IsFiniteSet(ids)
        BY <1>0, IdsAreFinite
      <3> DEFINE V == [x \in ids |->
               IF x = id THEN k + 1
               ELSE IF Alive(x, was, D, D[k]) /\ (SessionMax > 0 => Cardinality({y \in ids : was[y] > was[x]} \ {id}) + 1 < SessionMax)
                    THEN was[x] ELSE 0]
      <3>3. \A x \in ids : ~ pushed(x) <=> (SessionMax > 0 => Cardinality({y \in ids : was[y] > was[x]} \ {id}) + 1 < SessionMax)
        <4> SUFFICES ASSUME NEW x \in ids
                     PROVE  ~ pushed(x) <=> (SessionMax > 0 => Cardinality({y \in ids : was[y] > was[x]} \ {id}) + 1 < SessionMax)
          OBVIOUS
        <4> DEFINE N == {y \in ids : was[y] > was[x]} \ {id}
        <4>1. newer(x) \ {id} = N
          BY <1>1
        <4>2. IsFiniteSet(N)
          <5>1. N \subseteq ids
            OBVIOUS
          <5> HIDE DEF N
          <5> QED BY <3>2, <5>1, FS_Subset
        <4> HIDE DEF N
        <4>3. Cardinality(N) \in Nat
          BY <4>2, FS_CardinalityType
        <4> QED BY <1>1, <2>4, <4>1, <4>3 DEF N
      <3>4. \A x \in ids : use[x] = V[x]
        <4>1. \A x \in ids : op = <<"reg", x>> <=> x = id
          BY <1>3, <2>4
        <4>2. \A x \in ids : op # <<"has", x>>
          BY <2>4
        <4> SUFFICES ASSUME NEW x \in ids PROVE use[x] = V[x]
          OBVIOUS
        <4>3. CASE x = id
          <5>1. use[x] = n
            BY <1>4, <1>11, <4>1, <4>3
          <5> QED BY <1>1, <4>3, <5>1
        <4>4. CASE x # id
          <5>1. use[x] = IF alive(x) /\ ~ pushed(x) THEN was[x] ELSE 0
            <6> HIDE DEF alive, pushed
            <6> QED BY <1>4, <1>11, <4>1, <4>2, <4>4
          <5> HIDE DEF pushed, alive
          <5> QED BY <2>2, <3>3, <4>4, <5>1
        <4> QED BY <4>3, <4>4
      <3>5. use = V
        <4> QED BY <1>6, <3>4
      <3>6. Table(ids, RegisterSession(ss, id, D[k]), use, D)
        <4> HIDE DEF pushed, alive, newer
        <4> QED BY <1>1, <1>3, <1>5, <1>7, <1>9, <2>3, <3>2, <3>5, RegisterIs
      <3>7. Table(ids, st.ss, use, C)
        BY <1>6, <1>7, <1>8, <3>1, <3>6
      <3> QED BY <1>6, <2>1, <3>1, <3>7 DEF C, k, now, op, ids
    <2>5. CASE op[1] = "has"
      <3>1. st.ss = LookUpSession(ss, id, now) /\ st.now = now
        BY <1>0, <2>5 DEF SessionStep, op, id, now, k, C
      <3> DEFINE V == [x \in ids |->
               IF Alive(x, was, D, D[k]) THEN IF x = id THEN k + 1 ELSE was[x] ELSE 0]
      <3>2. \A x \in ids : use[x] = V[x]
        <4>1. \A x \in ids : op = <<"has", x>> <=> x = id
          BY <1>3, <2>5
        <4>2. \A x \in ids : op # <<"reg", x>>
          BY <2>5
        <4>3. \A x \in ids : ~ pushed(x)
          BY <2>5
        <4> SUFFICES ASSUME NEW x \in ids PROVE use[x] = V[x]
          OBVIOUS
        <4>4. use[x] = IF x = id /\ alive(x) THEN n ELSE IF alive(x) THEN was[x] ELSE 0
          <5> HIDE DEF alive, pushed
          <5> QED BY <1>4, <1>11, <4>1, <4>2, <4>3
        <4> HIDE DEF pushed, alive
        <4> QED BY <1>1, <2>2, <4>4
      <3>3. use = V
        <4> QED BY <1>6, <3>2
      <3>4. Table(ids, LookUpSession(ss, id, D[k]), use, D)
        <4> HIDE DEF pushed, alive, newer
        <4> QED BY <1>1, <1>3, <1>5, <1>7, <1>9, <2>3, <3>3, LookUpIs
      <3>5. Table(ids, st.ss, use, C)
        BY <1>6, <1>7, <1>8, <3>1, <3>4
      <3> QED BY <1>6, <2>1, <3>1, <3>5 DEF C, k, now, op, ids
    <2> QED BY <1>3, <1>11, <2>4, <2>5
  <1> QED BY <1>10, <1>11

(* What is picked of a sequence, and what a pruning leaves, are sequences  *)
(* of its elements.                                                         *)
LEMMA PrunedType ==
    ASSUME NEW A, NEW t \in Seq(A), NEW now \in Int
    PROVE  Pruned(t, now) \in Seq(A) /\ \A id : Without(t, id) \in Seq(A)
  <1> DEFINE K == [a \in A |-> 0]
  <1>1. K \in [A -> Int]
    OBVIOUS
  <1>2. \A I : Picked(t, I) \in Seq(A)
    <2> SUFFICES ASSUME NEW I PROVE Picked(t, I) \in Seq(A)
      OBVIOUS
    <2> HIDE DEF K
    <2> QED BY <1>1, PickedIs
  <1> DEFINE I == {i \in DOMAIN t : SessionTtl = 0 \/ t[i][2] >= now - SessionTtl}
             fresh == Picked(t, I)
             first == Len(fresh) - SessionMax + 1
  <1>3. Pruned(t, now) = IF SessionMax > 0 /\ Len(fresh) > SessionMax THEN SubSeq(fresh, first, Len(fresh)) ELSE fresh
    BY DEF Pruned
  <1> HIDE DEF I
  <1>4. fresh \in Seq(A)
    BY <1>2
  <1> HIDE DEF fresh
  <1>5. ASSUME SessionMax > 0, Len(fresh) > SessionMax PROVE SubSeq(fresh, first, Len(fresh)) \in Seq(A)
    <2>1. SessionMax \in Nat /\ Len(fresh) \in Nat
      BY <1>4, RequestsAssumption
    <2>2. first \in Int /\ Len(fresh) \in Int /\ \A i \in first..Len(fresh) : i \in 1..Len(fresh)
      BY <1>5, <2>1
    <2>3. \A i \in first..Len(fresh) : fresh[i] \in A
      BY <1>4, <2>2
    <2> HIDE DEF first
    <2> QED BY <1>4, <2>2, <2>3, SubSeqProperties
  <1>6. ASSUME NEW id PROVE Without(t, id) \in Seq(A)
    BY <1>2 DEF Without
  <1> QED BY <1>3, <1>4, <1>5, <1>6

LEMMA SessionsFollow ==
    ASSUME NEW ops \in Seq(SessionCalls), NEW ids, ids = IdsOf(ops)
    PROVE  Follows(ops, ids)
  <1> DEFINE n == Len(ops)
  <1>1. n \in Nat /\ DOMAIN ops = 1..n /\ \A k \in 1..n : ops[k] \in SessionCalls /\ ops[k][2] \in ids
    BY DEF IdsOf
  <1>2. /\ SessionsAfter(ops)[0] = [ss |-> <<>>, now |-> 0]
        /\ \A k \in 1..n : SessionsAfter(ops)[k] = SessionStep(SessionsAfter(ops)[k - 1], ops[k])
    <2> DEFINE start == [ss |-> <<>>, now |-> 0]
               T == Seq(ids \X Int)
               A == [ss : T, now : Int]
               Rec(g) == g = [i \in 0..n |-> IF i = 0 THEN start ELSE SessionStep(g[i - 1], ops[i])]
               F == [p \in A \X (1..n) |-> SessionStep(p[1], ops[p[2]])]
               got == SessionsAfter(ops)
    <2>1. start \in A
      OBVIOUS
    <2>2. ASSUME NEW st \in A, NEW k \in 1..n PROVE SessionStep(st, ops[k]) \in A
      <3> DEFINE id == ops[k][2]
      <3>1. st.ss \in T /\ st.now \in Int /\ id \in ids
        BY <1>1
      <3>2. ASSUME NEW t \in T PROVE Pruned(t, st.now) \in T /\ Append(Without(t, id), <<id, st.now>>) \in T
        <4> DEFINE w == Without(t, id)
                   last == <<id, st.now>>
        <4>1. Pruned(t, st.now) \in T /\ w \in T
          BY <3>1, PrunedType
        <4>2. last \in ids \X Int
          BY <3>1
        <4> HIDE DEF w, last
        <4>3. Append(w, last) \in T
          BY <4>1, <4>2, AppendProperties
        <4> QED BY <4>1, <4>3 DEF w, last
      <3> HIDE DEF T, id
      <3>3. RegisterSession(st.ss, id, st.now) \in T
        <4>1. Append(Without(st.ss, id), <<id, st.now>>) \in T
          BY <3>1, <3>2
        <4> QED BY <3>2, <4>1 DEF RegisterSession
      <3>4. LookUpSession(st.ss, id, st.now) \in T
        <4>1. Pruned(st.ss, st.now) \in T
          BY <3>1, <3>2
        <4> QED BY <3>2, <4>1 DEF LookUpSession
      <3> QED BY <3>1, <3>3, <3>4 DEF SessionStep, id
    <2> HIDE DEF start, A
    <2>3. F \in [A \X (1..n) -> A]
      <3>1. \A p \in A \X (1..n) : SessionStep(p[1], ops[p[2]]) \in A
        <4> HIDE DEF n
        <4> QED BY <2>2
      <3> HIDE DEF n
      <3> QED BY <3>1
    <2>4. PICK f : Solves(f, A, start, n, F)
      <3> HIDE DEF F, n
      <3> QED BY <1>1, <2>1, <2>3, RecursionExists, Zenon
    <2>5. /\ f \in [0..n -> A] /\ f[0] = start
          /\ \A k \in 1..n : f[k] = SessionStep(f[k - 1], ops[k])
      <3>1. ASSUME NEW k \in 1..n PROVE f[k] = SessionStep(f[k - 1], ops[k])
        <4>1. k - 1 \in 0..n
          BY <1>1
        <4>2. <<f[k - 1], k>> \in A \X (1..n)
          BY <2>4, <4>1 DEF Solves
        <4>3. f[k] = F[<<f[k - 1], k>>]
          BY <2>4 DEF Solves
        <4> HIDE DEF n
        <4> QED BY <4>2, <4>3
      <3> QED BY <2>4, <3>1 DEF Solves
    <2>6. Rec(f)
      <3>1. \A i \in 0..n : i # 0 => i \in 1..n
        BY <1>1
      <3> HIDE DEF n, F
      <3> QED BY <2>5, <3>1
    <2>7. Rec(got)
      <3>1. got = CHOOSE g : Rec(g)
        BY DEF SessionsAfter, start
      <3> HIDE DEF Rec, got
      <3> QED BY <2>6, <3>1
    <2>8. 0 \in 0..n /\ \A k \in 1..n : k \in 0..n /\ k # 0
      BY <1>1
    <2> HIDE DEF n, got
    <2>9. got[0] = start /\ \A k \in 1..n : got[k] = SessionStep(got[k - 1], ops[k])
      BY <2>7, <2>8
    <2> QED BY <2>9 DEF got, start
  <1>3. /\ LastUse(ops)[0] = [x \in ids |-> 0]
        /\ \A k \in 1..n : LastUse(ops)[k] = UseStep(ops, k, LastUse(ops)[k - 1])
    <2> DEFINE start == [x \in ids |-> 0]
               A == [ids -> Nat]
               Rec(g) == g = [i \in 0..n |-> IF i = 0 THEN start ELSE UseStep(ops, i, g[i - 1])]
               F == [p \in A \X (1..n) |-> UseStep(ops, p[2], p[1])]
               got == LastUse(ops)
    <2>1. start \in A
      OBVIOUS
    <2>2. ASSUME NEW was \in A, NEW k \in 1..n PROVE UseStep(ops, k, was) \in A
      <3> DEFINE alive(x) == was[x] # 0 /\ (SessionTtl = 0 \/ Clock(ops)[k] - Clock(ops)[was[x]] <= SessionTtl)
                 newer(x) == {y \in DOMAIN was : was[y] > was[x]}
                 pushed(x) == /\ SessionMax > 0 /\ ops[k][1] = "reg"
                              /\ Cardinality(newer(x) \ {ops[k][2]}) + 1 >= SessionMax
                 V(x) == CASE ops[k][1] = "tick" -> was[x]
                           [] ops[k] = <<"reg", x>> \/ (ops[k] = <<"has", x>> /\ alive(x)) -> k
                           [] OTHER -> IF alive(x) /\ ~ pushed(x) THEN was[x] ELSE 0
      <3>1. UseStep(ops, k, was) = [x \in ids |-> V(x)]
        BY DEF UseStep, IdsOf
      <3>2. \A x \in ids : V(x) \in Nat
        <4>1. k \in Nat /\ \A x \in ids : was[x] \in Nat
          BY <1>1
        <4> HIDE DEF alive, pushed
        <4> QED BY <4>1
      <3> HIDE DEF V
      <3> QED BY <3>1, <3>2
    <2> HIDE DEF start, A
    <2>3. F \in [A \X (1..n) -> A]
      <3>1. \A p \in A \X (1..n) : UseStep(ops, p[2], p[1]) \in A
        <4> HIDE DEF n
        <4> QED BY <2>2
      <3> HIDE DEF n
      <3> QED BY <3>1
    <2>4. PICK f : Solves(f, A, start, n, F)
      <3> HIDE DEF F, n
      <3> QED BY <1>1, <2>1, <2>3, RecursionExists, Zenon
    <2>5. /\ f \in [0..n -> A] /\ f[0] = start
          /\ \A k \in 1..n : f[k] = UseStep(ops, k, f[k - 1])
      <3>1. ASSUME NEW k \in 1..n PROVE f[k] = UseStep(ops, k, f[k - 1])
        <4>1. k - 1 \in 0..n
          BY <1>1
        <4>2. <<f[k - 1], k>> \in A \X (1..n)
          BY <2>4, <4>1 DEF Solves
        <4>3. f[k] = F[<<f[k - 1], k>>]
          BY <2>4 DEF Solves
        <4> HIDE DEF n
        <4> QED BY <4>2, <4>3
      <3> QED BY <2>4, <3>1 DEF Solves
    <2>6. Rec(f)
      <3>1. \A i \in 0..n : i # 0 => i \in 1..n
        BY <1>1
      <3> HIDE DEF n, F
      <3> QED BY <2>5, <3>1
    <2>7. Rec(got)
      <3>1. got = CHOOSE g : Rec(g)
        BY DEF LastUse, start, IdsOf
      <3> HIDE DEF Rec, got
      <3> QED BY <2>6, <3>1
    <2>8. 0 \in 0..n /\ \A k \in 1..n : k \in 0..n /\ k # 0
      BY <1>1
    <2> HIDE DEF n, got
    <2>9. got[0] = start /\ \A k \in 1..n : got[k] = UseStep(ops, k, got[k - 1])
      BY <2>7, <2>8
    <2> QED BY <2>9 DEF got, start
  <1> QED BY <1>2, <1>3 DEF Follows

(* The table holds the sessions used last, in that order, and at most      *)
(* SessionMax of them, after any calls.                                     *)
THEOREM SessionsAreTheLatestAlways ==
    ASSUME NEW ops \in Seq(SessionCalls)
    PROVE  SessionsAreTheLatest(ops)
  <1> DEFINE n == Len(ops)
             ids == IdsOf(ops)
             st == SessionsAfter(ops)
             use == LastUse(ops)
             C == Clock(ops)
             S == {k \in 0..n : use[k] \in [ids -> 0..k] /\ Table(ids, st[k].ss, use[k], C) /\ st[k] = [ss |-> st[k].ss, now |-> C[k]]}
  <1>1. n \in Nat
    OBVIOUS
  <1>2. Follows(ops, ids)
    BY SessionsFollow
  <1>3. C[0] = 0
    BY ClockIs
  <1> HIDE DEF n, ids, st, use, C
  <1>4. /\ st[0] = [ss |-> <<>>, now |-> 0] /\ use[0] = [x \in ids |-> 0]
        /\ \A k \in 1..n : st[k] = SessionStep(st[k - 1], ops[k]) /\ use[k] = UseStep(ops, k, use[k - 1])
    BY <1>2 DEF Follows, st, use, n
  <1>5. 0 \in S
    <2>1. use[0] \in [ids -> 0..0] /\ \A x \in ids : use[0][x] = 0
      BY <1>4
    <2>2. \A x : ~ HasSession(<<>>, x)
      BY DEF HasSession
    <2>3. Table(ids, <<>>, use[0], C)
      <3>1. Len(<<>>) = 0 /\ <<>> \in Seq(ids \X Int) /\ SessionMax \in Nat
        BY RequestsAssumption
      <3> QED BY <2>1, <2>2, <3>1 DEF Table, UsesRise
    <2>4. st[0].ss = <<>> /\ st[0] = [ss |-> st[0].ss, now |-> C[0]]
      BY <1>3, <1>4
    <2>5. 0 \in 0..n
      BY <1>1
    <2> QED BY <2>1, <2>3, <2>4, <2>5
  <1>6. ASSUME NEW m \in 0..(n - 1), m \in S PROVE m + 1 \in S
    <2> DEFINE k == m + 1
    <2>1. k \in 1..n /\ k \in 0..n /\ k - 1 = m
      BY <1>1
    <2> HIDE DEF k
    <2>2. use[m] \in [ids -> 0..(k - 1)] /\ Table(ids, st[m].ss, use[m], C) /\ st[m] = [ss |-> st[m].ss, now |-> C[k - 1]]
      BY <1>6, <2>1
    <2> DEFINE new == SessionStep([ss |-> st[m].ss, now |-> Clock(ops)[k - 1]], ops[k])
               newUse == UseStep(ops, k, use[m])
    <2>3. newUse \in [ids -> 0..k] /\ Table(ids, new.ss, newUse, Clock(ops)) /\ new.now = Clock(ops)[k]
      <3>1. k \in 1..Len(ops)
        BY <2>1 DEF n
      <3>2. Stepped(ops, k, st[m].ss, use[m], new, newUse)
        BY <2>2 DEF Stepped, ids, C
      <3> HIDE DEF new, newUse
      <3> QED BY <3>1, <3>2, StepKeepsTable DEF ids
    <2>4. st[k] = new /\ use[k] = newUse
      BY <1>4, <2>1, <2>2 DEF C
    <2>5. new = [ss |-> new.ss, now |-> new.now]
      BY DEF SessionStep
    <2> HIDE DEF new, newUse
    <2>6. st[k] = [ss |-> st[k].ss, now |-> C[k]]
      BY <2>3, <2>4, <2>5 DEF C
    <2>7. k \in S
      BY <2>1, <2>3, <2>4, <2>6 DEF C
    <2> HIDE DEF S
    <2> QED BY <2>7 DEF k
  <1>7. n \in S
    <2>1. n \in 0..n
      BY <1>1
    <2> HIDE DEF S
    <2> QED BY <1>1, <1>5, <1>6, <2>1, UpTo
  <1>8. use[n] \in [ids -> 0..n] /\ Table(ids, st[n].ss, use[n], C)
    BY <1>7
  <1> DEFINE ss == st[n].ss
             U == use[n]
  <1> HIDE DEF ss, U
  <1>9. DOMAIN U = ids /\ DOMAIN ss = 1..Len(ss)
    <2>1. ss \in Seq(ids \X Int)
      BY <1>8 DEF Table, ss
    <2> QED BY <1>8, <2>1 DEF U
  <1>10. /\ SessionMax > 0 => Len(ss) <= SessionMax
         /\ \A id \in DOMAIN U : HasSession(ss, id) <=> U[id] > 0
         /\ \A i, j \in DOMAIN ss : i < j => U[ss[i][1]] < U[ss[j][1]]
    BY <1>8, <1>9 DEF Table, UsesRise, ss, U
  <1> QED BY <1>10 DEF SessionsAreTheLatest, ss, U, st, use, n

-----------------------------------------------------------------------------
(***************************************************************************)
(* Headers, replies, arguments, results and offers, and all together.      *)
(***************************************************************************)

(* A server bound to a loopback name under its own CORS policy goes on     *)
(* only with requests to a loopback name and from a loopback origin, and   *)
(* no origin that may read a reply is turned away for being that origin.   *)
THEOREM HeadersAreLocalAlways == ASSUME NEW r PROVE HeadersAreLocal(r)
  <1>1. ASSUME ~ HostAllowed(r.bound, r.host) PROVE ApiRefusal(r) = 403
    BY <1>1 DEF ApiRefusal
  <1>2. ASSUME r.origin # "none", ~ OriginAllowed(r.policy, r.origin) PROVE ApiRefusal(r) = 403
    BY <1>2 DEF ApiRefusal
  <1>3. ASSUME HostAllowed(r.bound, r.host), r.origin = "none" \/ OriginAllowed(r.policy, r.origin)
        PROVE  ApiRefusal(r) \in {0, 204, 404}
    BY <1>3 DEF ApiRefusal
  <1>4. ASSUME ApiRefusal(r) = 0, r.bound \in Loopback
        PROVE  r.host.form = "absent" \/ HostName(r.host) \in Loopback
    BY <1>1, <1>4 DEF HostAllowed
  <1>5. ASSUME ApiRefusal(r) = 0, r.policy = LocalPolicy
        PROVE  r.origin \in Loopback \union {"none"}
    BY <1>2, <1>5 DEF OriginAllowed
  <1>6. ASSUME CorsOrigin(r) # "none", HostAllowed(r.bound, r.host) PROVE ApiRefusal(r) # 403
    BY <1>3, <1>6 DEF CorsOrigin
  <1> QED BY <1>4, <1>5, <1>6 DEF HeadersAreLocal

(* What `dispatch` gives by the text, the envelope and the method. *)
LEMMA DispatchGives ==
    ASSUME NEW text, NEW req, req.does \in Doings
    PROVE  /\ text = "garbage" => Dispatch(text, req) = ErrorReply("null", -32700)
           /\ text = "other" \/ (text = "object" /\ req.envelope # "ok") =>
                 Dispatch(text, req) = ErrorReply("null", -32600)
           /\ text = "object" /\ req.envelope = "ok" =>
                 \/ req.id = "absent" /\ Dispatch(text, req) = NoReply
                 \/ /\ req.id # "absent" /\ req.does = "answers"
                    /\ Dispatch(text, req) = ResultReply(req.id, req.result)
                 \/ /\ req.id # "absent" /\ req.does # "answers"
                    /\ \E code : Dispatch(text, req) = ErrorReply(req.id, code)
  <1>1. text = "garbage" => Dispatch(text, req) = ErrorReply("null", -32700)
    BY DEF Dispatch
  <1>2. text = "other" \/ (text = "object" /\ req.envelope # "ok") =>
          Dispatch(text, req) = ErrorReply("null", -32600)
    BY DEF Dispatch
  <1>3. ASSUME text = "object", req.envelope = "ok"
        PROVE  Dispatch(text, req) = IF req.id = "absent" THEN NoReply
                                     ELSE IF Called(req).code # 0
                                          THEN ErrorReply(req.id, Called(req).code)
                                          ELSE ResultReply(req.id, req.result)
    BY <1>3 DEF Dispatch
  <1>4. Called(req).code = 0 <=> req.does = "answers"
    BY DEF Called, Doings
  <1> QED BY <1>1, <1>2, <1>3, <1>4

LEMMA RepliesDiffer ==
    ASSUME NEW id, NEW code, NEW result
    PROVE  /\ ErrorReply(id, code) # NoReply /\ ErrorReply(id, code).id = id
           /\ ErrorReply(id, code).kind = "error"
           /\ ResultReply(id, result) # NoReply /\ ResultReply(id, result).id = id
           /\ ResultReply(id, result).kind = "result"
  <1>1. ErrorReply(id, code).kind = "error" /\ ResultReply(id, result).kind = "result"
    BY DEF ErrorReply, ResultReply
  <1>2. NoReply.kind = "no_reply"
    BY DEF NoReply
  <1>3. ErrorReply(id, code).id = id /\ ResultReply(id, result).id = id
    BY DEF ErrorReply, ResultReply
  <1> QED BY <1>1, <1>2, <1>3

(* A request that parses to an object is answered alike by POST /mcp, the  *)
(* SSE transport and stdio: once and with its id, as a result exactly when *)
(* the method answers, and not at all if it has no id.  Of other texts     *)
(* only one that holds a request as a string is answered with its id.      *)
THEOREM RepliesFitAlways ==
    ASSUME NEW text \in JsonTexts,
           NEW req, req.does \in Doings
    PROVE  RepliesFit(text, req)
  <1> DEFINE http == Post(text, req).reply
             sse == SsePost(text, req)
             stdio == StdioLine(text, req)
             replies == {http, sse, stdio}
  <1>1. /\ http = CASE text \in {"garbage", "empty"} -> Dispatch("other", req)
                    [] text = "quoted" -> Dispatch("object", req)
                    [] OTHER -> Dispatch(text, req)
        /\ Post(text, req).status = IF http = NoReply THEN 202 ELSE 200
    BY DEF Post
  <1>2. /\ sse = Dispatch(IF text \in {"empty", "quoted"} THEN "other" ELSE text, req)
        /\ stdio = IF text = "empty" THEN NoReply ELSE sse
    BY DEF SsePost, StdioLine
  <1> HIDE DEF http, sse, stdio
  <1>3. CASE text = "object"
    <2>1. http = Dispatch(text, req) /\ sse = http /\ stdio = http
      BY <1>1, <1>2, <1>3
    <2>2. Cardinality(replies) = 1
      <3>1. replies = {http}
        BY <2>1
      <3> QED BY <3>1, FS_Singleton
    <2>3. req.envelope = "ok" =>
            IF req.id = "absent" THEN http = NoReply
            ELSE http.id = req.id /\ (http.kind = "result" <=> req.does = "answers")
      BY <1>3, <2>1, DispatchGives, RepliesDiffer
    <2> QED BY <1>1, <1>3, <2>1, <2>2, <2>3 DEF RepliesFit, http, sse, stdio
  <1>4. CASE text # "object"
    <2>1. sse = NoReply \/ sse.id = "null"
      BY <1>2, <1>4, DispatchGives, RepliesDiffer DEF JsonTexts
    <2>2. text = "quoted" \/ http = NoReply \/ http.id = "null"
      BY <1>1, <1>4, DispatchGives, RepliesDiffer DEF JsonTexts
    <2>3. stdio = NoReply \/ stdio = sse
      BY <1>2
    <2> QED BY <1>1, <1>4, <2>1, <2>2, <2>3 DEF RepliesFit, http, sse, stdio
  <1> QED BY <1>3, <1>4

(* The statistics count a tools/call as an error exactly when its client   *)
(* is told so, but for a result that json.dumps refuses; what is no error   *)
(* is sent whole, and no result, the text of an error apart, over the limit. *)
THEOREM ResultIsCountedAlways ==
    ASSUME NEW code \in Int, NEW out, out.size \in Nat
    PROVE  ResultIsCountedAsTold(code, out)
  <1> DEFINE r == ToolResult(code, out)
  <1>0. OutputCap \in Nat
    BY RequestsAssumption
  <1>a. ASSUME out.kind # "no_json" => (r.counted <=> r.told = "isError"),
               r.told = "ok" => r.text = out.size,
               code = 0 /\ OutputCap > 0 => r.text <= OutputCap,
               code = 0 /\ r.counted => r.structured = "output_too_large" \/ IsToolError(out)
        PROVE  ResultIsCountedAsTold(code, out)
    BY <1>a, Zenon DEF ResultIsCountedAsTold, IsToolError
  <1>1. CASE code # 0
    <2>1. r = [told |-> "isError", counted |-> TRUE, text |-> out.size, structured |-> "none"]
      BY <1>1, Zenon DEF ToolResult
    <2> HIDE DEF r
    <2>2. r.told = "isError" /\ r.counted = TRUE
      BY <2>1
    <2> QED BY <1>a, <1>1, <2>2, Zenon DEF r
  <1>2. CASE code = 0 /\ out.kind = "no_json"
    <2>1. r = [told |-> "rpc_error", counted |-> FALSE, text |-> 0, structured |-> "none"]
      BY <1>2 DEF ToolResult
    <2> HIDE DEF r
    <2>2. r.told = "rpc_error" /\ r.counted = FALSE /\ r.text = 0
      BY <2>1
    <2>3. OutputCap > 0 => r.text <= OutputCap
      BY <1>0, <2>2
    <2> QED BY <1>a, <1>2, <2>2, <2>3, Zenon DEF r
  <1>3. CASE code = 0 /\ out.kind # "no_json" /\ out.size > OutputCap /\ OutputCap > 0
    <2>1. r = [told |-> "isError", counted |-> TRUE, text |-> 0, structured |-> "output_too_large"]
      BY <1>3 DEF ToolResult
    <2> HIDE DEF r
    <2>2. r.told = "isError" /\ r.counted = TRUE /\ r.text = 0 /\ r.structured = "output_too_large"
      BY <2>1
    <2>3. OutputCap > 0 => r.text <= OutputCap
      BY <1>0, <2>2
    <2> QED BY <1>a, <2>2, <2>3, Zenon DEF r
  <1>4. CASE code = 0 /\ out.kind # "no_json" /\ ~ (out.size > OutputCap /\ OutputCap > 0)
    <2>1. /\ r.told = IF IsToolError(out) THEN "isError" ELSE "ok"
          /\ r.counted = IsToolError(out) /\ r.text = out.size
      BY <1>4 DEF ToolResult
    <2> HIDE DEF r
    <2>2. r.counted <=> r.told = "isError"
      BY <2>1
    <2>3. OutputCap > 0 => r.text <= OutputCap
      BY <1>0, <1>4, <2>1
    <2> QED BY <1>a, <2>1, <2>2, <2>3, Zenon DEF r
  <1> QED BY <1>1, <1>2, <1>3, <1>4

(* A coerced argument has the type that the schema tells the client, text  *)
(* that reads as that type is coerced, nothing else changes, and the tools' *)
(* own reading of integers agrees: for any value, annotation and tool.     *)
THEOREM ArgumentFitsAlways ==
    ASSUME NEW value, Readable(value), NEW a, NEW params,
           NEW arguments, "_meta" \notin DOMAIN arguments, \A p \in DOMAIN arguments : Readable(arguments[p])
    PROVE  ArgumentFitsSchema(value, a, arguments, params)
  <1> DEFINE Fits(v, b) ==
               LET got == CoerceScalar(v, b)
                   type == Unwrapped(b).type
               IN  /\ v.kind # "str" \/ got.kind = "str" => got = v
                   /\ v.kind = "str" /\ got # v => PythonKind(JsonType(type)) = got.kind
                   /\ v.kind = "str" /\ type = "int" =>
                         /\ AsInt(v, Unread) = IF got.kind = "int" THEN got.v ELSE Unread
                         /\ IsWhole(Texts[v.v].float) => got.kind = "int"
                   /\ CoerceScalar(got, b) = got
  <1>1. ASSUME NEW v, NEW b PROVE Fits(v, b)
    <2> DEFINE got == CoerceScalar(v, b)
               t == Texts[v.v]
               type == Unwrapped(b).type
    <2>1. CASE v.kind # "str"
      <3>1. got = v
        BY <2>1 DEF CoerceScalar
      <3> QED BY <2>1, <3>1
    <2>2. CASE v.kind = "str"
      <3> HIDE DEF t, type
      <3>1. got = CASE type = "bool" /\ t.bool # Unread -> Typed("bool", t.bool)
                    [] type = "int" /\ t.int # Unread -> Typed("int", t.int)
                    [] type = "int" /\ t.int = Unread /\ IsWhole(t.float) -> Typed("int", t.float)
                    [] type = "float" /\ t.float # Unread -> Typed("float", t.float)
                    [] OTHER -> v
        BY <2>2 DEF CoerceScalar, t, type
      <3>2. AsInt(v, Unread) = CASE t.int # Unread -> t.int
                                 [] t.int = Unread /\ IsWhole(t.float) -> t.float
                                 [] OTHER -> Unread
        BY <2>2 DEF AsInt, t
      <3> HIDE DEF got
      <3>3. \A k, x : Typed(k, x).kind = k /\ Typed(k, x).v = x
        BY DEF Typed
      <3>4. /\ type = "bool" => PythonKind(JsonType(type)) = "bool"
            /\ type = "int" => PythonKind(JsonType(type)) = "int"
            /\ type = "float" => PythonKind(JsonType(type)) = "float"
        BY DEF PythonKind, JsonType
      <3>5. \/ got = v
            \/ got.kind \in {"bool", "int", "float"} /\ PythonKind(JsonType(type)) = got.kind
        BY <3>1, <3>3, <3>4
      <3>6. got.kind = "str" => got = v
        BY <2>2, <3>5
      <3>7. type = "int" => /\ AsInt(v, Unread) = IF got.kind = "int" THEN got.v ELSE Unread
                            /\ IsWhole(t.float) => got.kind = "int"
        BY <2>2, <3>1, <3>2, <3>3
      <3>8. CoerceScalar(got, b) = got
        <4>1. CASE got = v
          BY <4>1 DEF got
        <4>2. CASE got.kind # "str"
          BY <4>2 DEF CoerceScalar
        <4> QED BY <3>6, <4>1, <4>2
      <3> QED BY <2>2, <3>5, <3>6, <3>7, <3>8 DEF got, t, type
    <2> QED BY <2>1, <2>2
  <1> HIDE DEF Fits
  <1> DEFINE all == CoerceArguments(params, arguments)
             shown == Schema(params).properties
  <1>2. /\ DOMAIN all = DOMAIN arguments
        /\ \A p \in DOMAIN arguments : all[p] = IF p \in DOMAIN params THEN CoerceScalar(arguments[p], params[p])
                                                ELSE arguments[p]
    BY DEF CoerceArguments
  <1>3. \A p \in DOMAIN params : p # "_meta" => shown[p].type = JsonType(Unwrapped(params[p]).type)
    BY DEF Schema
  <1> HIDE DEF all, shown
  <1>4. ASSUME NEW p \in DOMAIN all, all[p] # arguments[p] PROVE PythonKind(shown[p].type) = all[p].kind
    <2>1. p \in DOMAIN params /\ p # "_meta" /\ all[p] = CoerceScalar(arguments[p], params[p])
      BY <1>2, <1>4
    <2>2. Fits(arguments[p], params[p])
      BY <1>1
    <2>3. shown[p].type = JsonType(Unwrapped(params[p]).type)
      BY <1>3, <2>1
    <2> QED BY <1>4, <2>1, <2>2, <2>3 DEF Fits
  <1>5. Fits(value, a)
    BY <1>1
  <1> QED BY <1>2, <1>4, <1>5 DEF ArgumentFitsSchema, Fits, all, shown

(* A prompt called with the arguments listed as required answers, and so   *)
(* does a resource read by a uri that is listed.                           *)
THEOREM OffersHoldAlways ==
    ASSUME NEW prompts, PromptsFit(prompts), NEW resources
    PROVE  OffersHold(prompts, resources)
  <1>1. ASSUME NEW n \in DOMAIN prompts
        PROVE  PromptGet(prompts, n, {x.name : x \in {y \in PromptsListed(prompts)[n] : y.required}}).code = 0
    <2> DEFINE given == {x.name : x \in {y \in PromptsListed(prompts)[n] : y.required}}
               args == prompts[n].args
               required == prompts[n].required
    <2>1. PromptsListed(prompts)[n] = {[name |-> b, required |-> b \in required] : b \in {c \in args : c \notin Underscored}}
      BY DEF PromptsListed
    <2>2. required \subseteq args \ Underscored
      BY DEF PromptsFit
    <2> HIDE DEF args, required
    <2>3. required \subseteq given
      <3> SUFFICES ASSUME NEW b \in required PROVE b \in given
        OBVIOUS
      <3> DEFINE x == [name |-> b, required |-> b \in required]
      <3>1. x \in PromptsListed(prompts)[n]
        BY <2>1, <2>2
      <3>2. x.required /\ x.name = b
        OBVIOUS
      <3> HIDE DEF x
      <3> QED BY <3>1, <3>2
    <2>4. given \subseteq args
      <3> SUFFICES ASSUME NEW x \in PromptsListed(prompts)[n] PROVE x.name \in args
        OBVIOUS
      <3>1. PICK b \in args : x = [name |-> b, required |-> b \in required]
        BY <2>1
      <3> QED BY <3>1
    <2> HIDE DEF given
    <2>5. PromptGet(prompts, n, given) = [code |-> 0]
      BY <2>3, <2>4 DEF PromptGet, args, required
    <2>6. PromptGet(prompts, n, given).code = 0
      BY <2>5
    <2> QED BY <2>6 DEF given
  <1>2. ASSUME NEW u \in ResourcesListed(resources) PROVE ResourceRead(resources, u).code = 0
    <2>1. \E r \in resources : r.uri = u
      BY DEF ResourcesListed
    <2>2. {r \in resources : r.uri = u} # {}
      BY <2>1
    <2> QED BY <2>2 DEF ResourceRead
  <1>3. "resources" \notin Capabilities(resources, prompts) => ResourcesListed(resources) = {}
    <2>1. "resources" \notin Capabilities(resources, prompts) => resources = {}
      BY DEF Capabilities
    <2> QED BY <2>1 DEF ResourcesListed
  <1> QED BY <1>1, <1>2, <1>3, Zenon DEF OffersHold

(* Requests are admitted, read, answered, counted and kept of as they      *)
(* should be, whatever their size and number.                              *)
THEOREM RequestsSoundAlways == []Asked => []RequestsSound
  <1>1. ASSUME Asked PROVE RequestsSound
    <2>1. part = "headers" => HeadersAreLocal(ask)
      BY HeadersAreLocalAlways
    <2>2. part = "body" => BodyIsBounded(ask)
      BY <1>1, BodyIsBoundedAlways DEF Asked
    <2>3. part = "envelope" => RepliesFit(ask.text, ask.req)
      BY <1>1, RepliesFitAlways DEF Asked
    <2>4. part = "result" => ResultIsCountedAsTold(ask.code, ask.out)
      BY <1>1, ResultIsCountedAlways DEF Asked
    <2>5. part = "offers" => OffersHold(ask.prompts, ask.resources)
      BY <1>1, OffersHoldAlways DEF Asked
    <2>6. ASSUME part = "argument"
          PROVE  ArgumentFitsSchema(ask.value, ask.a, [x |-> ask.value, y |-> ask.value], [x |-> ask.a, _meta |-> ask.a])
      <3> DEFINE arguments == [x |-> ask.value, y |-> ask.value]
      <3>1. Readable(ask.value)
        BY <1>1, <2>6 DEF Asked
      <3>2. DOMAIN arguments = {"x", "y"} /\ \A p \in DOMAIN arguments : arguments[p] = ask.value
        OBVIOUS
      <3>3. "_meta" \notin DOMAIN arguments /\ \A p \in DOMAIN arguments : Readable(arguments[p])
        BY <3>1, <3>2
      <3> HIDE DEF arguments
      <3>4. \A params : ArgumentFitsSchema(ask.value, ask.a, arguments, params)
        BY <3>1, <3>3, ArgumentFitsAlways
      <3> QED BY <3>4 DEF arguments
    <2>7. part = "sessions" => SessionsAreTheLatest(ask)
      BY <1>1, SessionsAreTheLatestAlways DEF Asked
    <2>8. part = "sizes" => NumbersAreBounded(ask)
      BY <1>1, NumbersAreBoundedAlways DEF Asked
    <2> QED BY <2>1, <2>2, <2>3, <2>4, <2>5, <2>6, <2>7, <2>8 DEF RequestsSound
  <1> QED BY <1>1, PTL

-----------------------------------------------------------------------------
(***************************************************************************)
(* Patterns of clients: _check refuses nested repeats only, and all.       *)
(***************************************************************************)

LEMMA PatternIs ==
    ASSUME NEW sub \in Patterns
    PROVE  /\ Len(sub) \in Nat /\ DOMAIN sub = 1..Len(sub)
           /\ \A k \in 1..Len(sub) : /\ sub[k].op \in {"repeat", "atomic", "other"}
                                     /\ sub[k].up \in 0..(k - 1)
           /\ Ups(sub) \in [1..Len(sub) -> Nat] /\ \A k \in 1..Len(sub) : Ups(sub)[k] < k
  <1> DEFINE T == [op : {"repeat", "atomic", "other"}, hi : 0..MaxRepeat, up : Nat]
  <1>1. sub \in Seq(T) /\ \A i \in DOMAIN sub : sub[i].up < i
    BY DEF Patterns
  <1> HIDE DEF T
  <1>2. Len(sub) \in Nat /\ DOMAIN sub = 1..Len(sub) /\ \A k \in 1..Len(sub) : sub[k] \in T
    BY <1>1
  <1>3. \A k \in 1..Len(sub) : /\ sub[k].op \in {"repeat", "atomic", "other"}
                               /\ sub[k].up \in Nat
    BY <1>2 DEF T
  <1>4. \A k \in 1..Len(sub) : sub[k].up < k
    BY <1>1, <1>2
  <1> QED BY <1>2, <1>3, <1>4 DEF Ups

(* What _check is told at each node. *)
LEMMA PassedIs ==
    ASSUME NEW sub \in Patterns
    PROVE  /\ Passed(sub) \in [0..Len(sub) -> Said] /\ Passed(sub)[0] = "none"
           /\ \A k \in 1..Len(sub) : Passed(sub)[k] = Below(sub[k], Passed(sub)[sub[k].up])
  <1> DEFINE n == Len(sub)
             up == Ups(sub)
             Rec(g) == g = [i \in 0..n |-> IF i = 0 THEN "none" ELSE Below(sub[i], g[sub[i].up])]
             F == [p \in Said \X (1..n) |-> Below(sub[p[2]], p[1])]
             got == CHOOSE g : Rec(g)
  <1>1. n \in Nat /\ up \in [1..n -> Nat] /\ \A k \in 1..n : up[k] < k /\ up[k] = sub[k].up
    BY PatternIs DEF Ups
  <1>a. \A node, e : e \in Said => Below(node, e) \in Said
    BY DEF Below, Said
  <1> HIDE DEF n, up
  <1>2. F \in [Said \X (1..n) -> Said]
    BY <1>a
  <1>b. "none" \in Said
    BY DEF Said
  <1>c. PICK f : Climbs(f, Said, "none", n, up, F)
    <2> HIDE DEF F
    <2> QED BY <1>1, <1>2, <1>b, ClimbExists, Zenon
  <1>3. f \in [0..n -> Said] /\ f[0] = "none" /\ \A k \in 1..n : f[k] = F[<<f[up[k]], k>>]
    <2> HIDE DEF F
    <2> QED BY <1>c DEF Climbs
  <1>4. \A k \in 1..n : f[k] = Below(sub[k], f[sub[k].up])
    <2> SUFFICES ASSUME NEW k \in 1..n PROVE f[k] = Below(sub[k], f[sub[k].up])
      OBVIOUS
    <2>1. up[k] \in 0..n /\ <<f[up[k]], k>> \in Said \X (1..n) /\ up[k] = sub[k].up
      BY <1>1, <1>3
    <2>2. F[<<f[up[k]], k>>] = Below(sub[k], f[up[k]])
      BY <2>1
    <2> HIDE DEF F
    <2> QED BY <1>3, <2>1, <2>2
  <1>5. Rec(f)
    <2>1. \A i \in 0..n : i # 0 => i \in 1..n
      BY <1>1
    <2> HIDE DEF F
    <2> QED BY <1>3, <1>4, <2>1
  <1>6. Passed(sub) = got
    BY DEF Passed, n
  <1>7. Rec(got)
    <2> HIDE DEF Rec
    <2> QED BY <1>5
  <1> HIDE DEF got
  <1>8. /\ got[0] = "none"
        /\ \A k \in 1..n : got[k] = Below(sub[k], got[sub[k].up])
    <2>1. 0 \in 0..n /\ \A k \in 1..n : k \in 0..n /\ k # 0
      BY <1>1
    <2> QED BY <1>7, <2>1
  <1>9. got = [i \in 0..n |-> got[i]]
    BY <1>7
  <1>10. \A k \in 0..n : got[k] \in Said
    <2> DEFINE S == {m \in 0..n : \A i \in 0..m : got[i] \in Said}
    <2>1. 0 \in S
      BY <1>1, <1>8, <1>b
    <2>2. ASSUME NEW m \in 0..(n - 1), m \in S PROVE m + 1 \in S
      <3>1. m + 1 \in 1..n /\ m + 1 \in 0..n /\ (\A i \in 0..(m + 1) : i \in 0..m \/ i = m + 1)
        BY <1>1
      <3>2. sub[m + 1].up \in 0..m
        BY <1>1, <3>1
      <3>3. got[m + 1] \in Said
        <4>1. got[sub[m + 1].up] \in Said
          BY <2>2, <3>2
        <4>2. got[m + 1] = Below(sub[m + 1], got[sub[m + 1].up])
          BY <1>8, <3>1
        <4> QED BY <1>a, <4>1, <4>2
      <3> QED BY <2>2, <3>1, <3>3
    <2> HIDE DEF S
    <2>3. \A k \in 0..n : k \in S
      BY <1>1, <2>1, <2>2, UpTo
    <2>4. n \in S
      BY <1>1, <2>3
    <2> QED BY <2>4 DEF S
  <1>11. got \in [0..n -> Said]
    BY <1>9, <1>10
  <1> QED BY <1>6, <1>8, <1>11 DEF n

(* And the nodes each is in, itself the last. *)
LEMMA LinesAre ==
    ASSUME NEW sub \in Patterns
    PROVE  /\ Lines(sub)[0] = {}
           /\ \A k \in 1..Len(sub) : Lines(sub)[k] = {k} \union Lines(sub)[sub[k].up]
           /\ \A k \in 0..Len(sub) : Lines(sub)[k] \subseteq 1..k
  <1> DEFINE n == Len(sub)
             up == Ups(sub)
             A == SUBSET (1..n)
             Rec(g) == g = [i \in 0..n |-> IF i = 0 THEN {} ELSE {i} \union g[sub[i].up]]
             F == [p \in A \X (1..n) |-> {p[2]} \union p[1]]
             got == CHOOSE g : Rec(g)
  <1>1. n \in Nat /\ up \in [1..n -> Nat] /\ \A k \in 1..n : up[k] < k /\ up[k] = sub[k].up
    BY PatternIs DEF Ups
  <1> HIDE DEF n, up
  <1>2. F \in [A \X (1..n) -> A]
    OBVIOUS
  <1>b. {} \in A
    OBVIOUS
  <1>c. PICK f : Climbs(f, A, {}, n, up, F)
    <2> HIDE DEF F, A
    <2> QED BY <1>1, <1>2, <1>b, ClimbExists, Zenon
  <1>3. f \in [0..n -> A] /\ f[0] = {} /\ \A k \in 1..n : f[k] = F[<<f[up[k]], k>>]
    <2> HIDE DEF F, A
    <2> QED BY <1>c DEF Climbs
  <1>4. \A k \in 1..n : f[k] = {k} \union f[sub[k].up]
    <2> SUFFICES ASSUME NEW k \in 1..n PROVE f[k] = {k} \union f[sub[k].up]
      OBVIOUS
    <2>1. up[k] \in 0..n /\ <<f[up[k]], k>> \in A \X (1..n) /\ up[k] = sub[k].up
      BY <1>1, <1>3
    <2>2. F[<<f[up[k]], k>>] = {k} \union f[up[k]]
      BY <2>1
    <2> HIDE DEF F
    <2> QED BY <1>3, <2>1, <2>2
  <1>5. Rec(f)
    <2>1. \A i \in 0..n : i # 0 => i \in 1..n
      BY <1>1
    <2> HIDE DEF F
    <2> QED BY <1>3, <1>4, <2>1
  <1>6. Lines(sub) = got
    BY DEF Lines, n
  <1>7. Rec(got)
    <2> HIDE DEF Rec
    <2> QED BY <1>5
  <1> HIDE DEF got
  <1>8. /\ got[0] = {}
        /\ \A k \in 1..n : got[k] = {k} \union got[sub[k].up]
    <2>1. 0 \in 0..n /\ \A k \in 1..n : k \in 0..n /\ k # 0
      BY <1>1
    <2> QED BY <1>7, <2>1
  <1>10. \A k \in 0..n : got[k] \subseteq 1..k
    <2> DEFINE S == {m \in 0..n : \A i \in 0..m : got[i] \subseteq 1..i}
    <2>1. 0 \in S
      BY <1>1, <1>8
    <2>2. ASSUME NEW m \in 0..(n - 1), m \in S PROVE m + 1 \in S
      <3>1. m + 1 \in 1..n /\ m + 1 \in 0..n /\ (\A i \in 0..(m + 1) : i \in 0..m \/ i = m + 1)
        BY <1>1
      <3>2. sub[m + 1].up \in 0..m
        BY <1>1, <3>1
      <3>3. got[m + 1] \subseteq 1..(m + 1)
        <4>1. got[sub[m + 1].up] \subseteq 1..sub[m + 1].up
          BY <2>2, <3>2
        <4>2. got[m + 1] = {m + 1} \union got[sub[m + 1].up]
          BY <1>8, <3>1
        <4> QED BY <3>1, <3>2, <4>1, <4>2
      <3> QED BY <2>2, <3>1, <3>3
    <2> HIDE DEF S
    <2>3. \A k \in 0..n : k \in S
      BY <1>1, <2>1, <2>2, UpTo
    <2>4. n \in S
      BY <1>1, <2>3
    <2> QED BY <2>4 DEF S
  <1> QED BY <1>6, <1>8, <1>10 DEF n

LEMMA PassedIsFree ==
    ASSUME NEW sub \in Patterns
    PROVE  \A i \in 0..Len(sub) :
              /\ Passed(sub)[i] = "none" <=> Free(sub, i) = {}
              /\ Passed(sub)[i] = "unbounded" <=> \E r \in Free(sub, i) : sub[r].hi = MaxRepeat
  <1> DEFINE n == Len(sub)
             said == Passed(sub)
             line == Lines(sub)
             Right(i) == /\ said[i] = "none" <=> Free(sub, i) = {}
                         /\ said[i] = "unbounded" <=> \E r \in Free(sub, i) : sub[r].hi = MaxRepeat
             S == {m \in 0..n : \A i \in 0..m : Right(i)}
  <1>1. /\ n \in Nat /\ said \in [0..n -> Said] /\ said[0] = "none" /\ line[0] = {}
        /\ \A k \in 1..n : /\ said[k] = Below(sub[k], said[sub[k].up]) /\ sub[k].up \in 0..(k - 1)
                           /\ line[k] = {k} \union line[sub[k].up]
        /\ \A k \in 0..n : line[k] \subseteq 1..k
    BY PatternIs, PassedIs, LinesAre
  <1>2. \A i \in 0..n : Free(sub, i) = {r \in line[i] : Repeats(sub[r]) /\ \A k \in line[i] : k > r => sub[k].op # "atomic"}
    BY DEF Free
  <1> HIDE DEF n, said, line
  <1>3. 0 \in S
    <2>1. Free(sub, 0) = {}
      BY <1>1 DEF Free, line
    <2> QED BY <1>1, <2>1
  <1>4. ASSUME NEW m \in 0..(n - 1), m \in S PROVE m + 1 \in S
    <2> DEFINE i == m + 1
               u == sub[i].up
    <2>1. i \in 1..n /\ i \in 0..n /\ (\A j \in 0..i : j \in 0..m \/ j = i) /\ u \in 0..m /\ u \in 0..n
      BY <1>1
    <2>2. Right(u)
      BY <1>4, <2>1
    <2>3. said[i] = Below(sub[i], said[u]) /\ line[i] = {i} \union line[u] /\ said[u] \in Said
      BY <1>1, <2>1
    <2>4. line[u] \subseteq Nat /\ i \in Nat /\ \A r \in line[u] : r < i /\ ~ (i < r)
      BY <1>1, <2>1, SMTT(20)
    <2> HIDE DEF i, u, Right
    <2>5. Right(i)
      <3>1. CASE Repeats(sub[i])
        <4>1. sub[i].op # "atomic"
          BY <3>1 DEF Repeats
        <4>a. \A r : r \in Free(sub, i) <=> r = i \/ r \in Free(sub, u)
          <5>1. ASSUME NEW r \in Free(sub, i) PROVE r = i \/ r \in Free(sub, u)
            BY <1>2, <2>1, <2>3, <5>1
          <5>2. i \in Free(sub, i)
            BY <1>2, <2>1, <2>3, <2>4, <3>1
          <5>3. ASSUME NEW r \in Free(sub, u) PROVE r \in Free(sub, i)
            BY <1>2, <2>1, <2>3, <4>1, <5>3
          <5> QED BY <5>1, <5>2, <5>3
        <4>2. said[i] = IF said[u] = "unbounded" \/ sub[i].hi = MaxRepeat THEN "unbounded" ELSE "bounded"
          BY <2>3, <3>1, <4>1 DEF Below
        <4> QED BY <2>2, <3>1, <4>a, <4>2 DEF Right
      <3>2. CASE ~ Repeats(sub[i]) /\ sub[i].op = "atomic"
        <4>1. Free(sub, i) = {}
          BY <1>2, <2>1, <2>3, <2>4, <3>2
        <4>2. said[i] = "none"
          BY <2>3, <3>2 DEF Below
        <4> QED BY <2>2, <4>1, <4>2 DEF Right
      <3>3. CASE ~ Repeats(sub[i]) /\ sub[i].op # "atomic"
        <4>1. Free(sub, i) = Free(sub, u)
          BY <1>2, <2>1, <2>3, <2>4, <3>3
        <4>2. said[i] = said[u]
          BY <2>3, <3>3 DEF Below
        <4> QED BY <2>2, <4>1, <4>2 DEF Right
      <3> QED BY <3>1, <3>2, <3>3
    <2> QED BY <1>4, <2>1, <2>5 DEF i
  <1> HIDE DEF S, n
  <1>5. \A m \in 0..n : m \in S
    BY <1>1, <1>3, <1>4, UpTo
  <1>6. n \in 0..n
    BY <1>1
  <1> QED BY <1>5, <1>6 DEF S, n, said

(* The induction along the lines above: what _check is told says which      *)
(* repeats are open, so it raises where one of them meets another.          *)
LEMMA GuardIsExact == ASSUME NEW sub \in Patterns PROVE OnlyNestedRefused(sub)
  <1> DEFINE n == Len(sub)
             Nested(j, i) == /\ Repeats(sub[i]) /\ Repeats(sub[j]) /\ MaxRepeat \in {sub[i].hi, sub[j].hi}
                             /\ \A k \in Lines(sub)[sub[j].up] : k > i => sub[k].op # "atomic"
             Raises(j) == /\ Repeats(sub[j]) /\ Passed(sub)[sub[j].up] # "none"
                          /\ Passed(sub)[sub[j].up] = "unbounded" \/ sub[j].hi = MaxRepeat
  <1>1. DOMAIN sub = 1..n /\ \A j \in 1..n : sub[j].up \in 0..n
    BY PatternIs
  <1>2. ASSUME NEW j \in 1..n PROVE Raises(j) <=> \E i \in Lines(sub)[sub[j].up] : Nested(j, i)
    <2> DEFINE u == sub[j].up
    <2>1. /\ Passed(sub)[u] = "none" <=> Free(sub, u) = {}
          /\ Passed(sub)[u] = "unbounded" <=> \E r \in Free(sub, u) : sub[r].hi = MaxRepeat
      BY <1>1, PassedIsFree
    <2>2. \A i : i \in Free(sub, u) <=> /\ i \in Lines(sub)[u] /\ Repeats(sub[i])
                                        /\ \A k \in Lines(sub)[u] : k > i => sub[k].op # "atomic"
      BY DEF Free
    <2> HIDE DEF u
    <2>3. Raises(j) <=> /\ Repeats(sub[j])
                        /\ \E i \in Free(sub, u) : MaxRepeat \in {sub[i].hi, sub[j].hi}
      BY <2>1 DEF u
    <2> QED BY <2>2, <2>3 DEF u
  <1>3. Check(sub) <=> ~ \E j \in 1..n : Raises(j)
    <2> HIDE DEF n
    <2> QED BY <1>1 DEF Check
  <1> HIDE DEF Raises, n
  <1> QED BY <1>1, <1>2, <1>3 DEF OnlyNestedRefused

-----------------------------------------------------------------------------
(***************************************************************************)
(* Byte signatures: the walk over the instructions ends, each pattern it    *)
(* passes matches where it began, and what IDA finds first decides whether  *)
(* it matches anywhere else.                                                *)
(***************************************************************************)

(* An image. *)
LEMMA ImageIs ==
    ASSUME NEW img, IsImage(img)
    PROVE  /\ Len(img.bytes) \in Nat /\ Addresses(img) = 1..Len(img.bytes)
           /\ \A ea \in Addresses(img) : img.bytes[ea] \in Nat /\ img.size[ea] \in Nat
           /\ NoAddr \notin Addresses(img) /\ Addresses(img) \in SUBSET Nat
  BY DEF IsImage, Addresses, NoAddr

(* One instruction, where there is one: it lies in the image and matches it. *)
LEMMA InsnIs ==
    ASSUME NEW img, IsImage(img), NEW ea \in Nat, NEW wildcards
    PROVE  InsnSig(img, ea, wildcards) \in Seq(Pat) /\ SigMatches(img, InsnSig(img, ea, wildcards), ea)
  <1> DEFINE n == InsnSize(img, ea)
             piece == InsnSig(img, ea, wildcards)
  <1>1. n \in Nat /\ (n # 0 => ea \in Addresses(img) /\ ea + n - 1 \in Addresses(img))
    BY ImageIs DEF InsnSize
  <1>2. piece = [i \in 1..n |-> IF wildcards /\ i > 1 /\ i - 1 \in img.ops[ea] THEN Wild ELSE img.bytes[ea + i - 1]]
    BY DEF InsnSig
  <1> HIDE DEF n, piece
  <1>3. \A i \in 1..n : ea + i - 1 \in Addresses(img) /\ img.bytes[ea + i - 1] \in Nat
    <2> SUFFICES ASSUME NEW i \in 1..n PROVE ea + i - 1 \in Addresses(img)
      BY ImageIs
    <2>1. ea >= 1 /\ ea + n - 1 <= Len(img.bytes) /\ Len(img.bytes) \in Nat /\ Addresses(img) = 1..Len(img.bytes)
      BY <1>1, ImageIs
    <2> QED BY <1>1, <2>1
  <1>4. \A i \in 1..n : piece[i] \in {Wild, img.bytes[ea + i - 1]} /\ piece[i] \in Pat
    BY <1>2, <1>3 DEF Pat
  <1>5. DOMAIN piece = 1..n
    BY <1>2
  <1>6. piece \in Seq(Pat)
    <2>1. piece \in [1..n -> Pat]
      BY <1>2, <1>4
    <2> QED BY <1>1, <2>1
  <1>7. SigMatches(img, piece, ea)
    BY <1>3, <1>4, <1>5 DEF SigMatches
  <1> QED BY <1>6, <1>7 DEF piece

(* What is put behind a pattern that matches, and matches there. *)
LEMMA LongerMatches ==
    ASSUME NEW img, NEW start \in Nat, NEW sig \in Seq(Pat), NEW more \in Seq(Pat),
           SigMatches(img, sig, start), SigMatches(img, more, start + Len(sig))
    PROVE  /\ sig \o more \in Seq(Pat) /\ Len(sig \o more) = Len(sig) + Len(more)
           /\ SigMatches(img, sig \o more, start)
  <1> DEFINE c == sig \o more
  <1>1. /\ c \in Seq(Pat) /\ Len(c) = Len(sig) + Len(more) /\ Len(sig) \in Nat /\ Len(more) \in Nat
        /\ DOMAIN c = 1..(Len(sig) + Len(more)) /\ DOMAIN sig = 1..Len(sig) /\ DOMAIN more = 1..Len(more)
        /\ \A i \in 1..(Len(sig) + Len(more)) : c[i] = IF i <= Len(sig) THEN sig[i] ELSE more[i - Len(sig)]
    BY ConcatProperties
  <1> HIDE DEF c
  <1>2. ASSUME NEW i \in DOMAIN c
        PROVE  start + i - 1 \in Addresses(img) /\ c[i] \in {Wild, img.bytes[start + i - 1]}
    <2>1. CASE i <= Len(sig)
      <3>1. i \in DOMAIN sig /\ c[i] = sig[i]
        BY <1>1, <2>1
      <3> QED BY <3>1 DEF SigMatches
    <2>2. CASE ~ (i <= Len(sig))
      <3> DEFINE j == i - Len(sig)
      <3>1. j \in DOMAIN more /\ c[i] = more[j] /\ start + i - 1 = start + Len(sig) + j - 1
        BY <1>1, <2>2
      <3> HIDE DEF j
      <3> QED BY <3>1 DEF SigMatches
    <2> QED BY <2>1, <2>2
  <1>3. SigMatches(img, c, start)
    BY <1>2 DEF SigMatches
  <1> QED BY <1>1, <1>3 DEF c

(* A pattern that matches of an address is no longer than the image from it. *)
LEMMA MatchFits ==
    ASSUME NEW img, IsImage(img), NEW start \in Nat, NEW sig \in Seq(Pat), SigMatches(img, sig, start)
    PROVE  Len(sig) \in Nat /\ (sig # <<>> => start + Len(sig) - 1 \in Addresses(img))
  <1>1. Len(sig) \in Nat /\ DOMAIN sig = 1..Len(sig)
    OBVIOUS
  <1>2. CASE Len(sig) = 0
    BY <1>1, <1>2
  <1>3. CASE Len(sig) > 0
    <2>1. Len(sig) \in DOMAIN sig
      BY <1>1, <1>3
    <2> QED BY <1>1, <2>1 DEF SigMatches
  <1> QED BY <1>1, <1>2, <1>3

(* The walk over the instructions. *)
LEMMA WalkIs ==
    ASSUME NEW img, IsImage(img), NEW start \in Nat, NEW wildcards
    PROVE  LET walk == Walk(img, start, wildcards)
               n == Len(img.bytes) + 1
           IN  /\ DOMAIN walk = 0..n /\ walk[0] = <<>>
               /\ \A k \in 1..n : walk[k] = walk[k - 1] \o InsnSig(img, start + Len(walk[k - 1]), wildcards)
               /\ \A k \in 0..n : walk[k] \in Seq(Pat) /\ SigMatches(img, walk[k], start)
  <1> DEFINE n == Len(img.bytes) + 1
             A == Seq(Pat)
             Next1(sig) == sig \o InsnSig(img, start + Len(sig), wildcards)
             F == [p \in A \X (1..n) |-> Next1(p[1])]
             Rec(g) == WalkRec(img, start, wildcards, g)
             walk == Walk(img, start, wildcards)
  <1>1. n \in Nat /\ <<>> \in A
    BY ImageIs
  <1>2. \A sig \in A : Next1(sig) \in A
    <2> SUFFICES ASSUME NEW sig \in A PROVE Next1(sig) \in A
      OBVIOUS
    <2>1. start + Len(sig) \in Nat
      OBVIOUS
    <2>2. InsnSig(img, start + Len(sig), wildcards) \in A
      BY <2>1, InsnIs
    <2> QED BY <2>2, ConcatProperties
  <1>3. F \in [A \X (1..n) -> A]
    <2> HIDE DEF Next1, n, A
    <2> QED BY <1>2
  <1>4. PICK f : Solves(f, A, <<>>, n, F)
    <2> HIDE DEF F, n, A
    <2> QED BY <1>1, <1>3, RecursionExists, Zenon
  <1>5. /\ f \in [0..n -> A] /\ f[0] = <<>>
        /\ \A k \in 1..n : f[k] = Next1(f[k - 1])
    <2> HIDE DEF n, A, Next1
    <2>1. f \in [0..n -> A] /\ f[0] = <<>>
      BY <1>4 DEF Solves
    <2>2. ASSUME NEW k \in 1..n PROVE f[k] = Next1(f[k - 1])
      <3>1. k - 1 \in 0..n
        BY <1>1
      <3>2. <<f[k - 1], k>> \in A \X (1..n)
        BY <3>1, <2>1
      <3>3. f[k] = F[<<f[k - 1], k>>]
        BY <1>4 DEF Solves
      <3> QED BY <3>2, <3>3
    <2> QED BY <2>1, <2>2
  <1>6. Rec(f)
    <2>1. \A i \in 0..n : i # 0 => i \in 1..n
      BY <1>1
    <2>2. f = [k \in 0..n |-> IF k = 0 THEN <<>> ELSE Next1(f[k - 1])]
      <3> HIDE DEF n, F, A, Next1
      <3> QED BY <1>5, <2>1
    <2> QED BY <2>2 DEF WalkRec
  <1>7. Rec(walk)
    <2>1. walk = CHOOSE g : Rec(g)
      BY DEF Walk, WalkRec
    <2> HIDE DEF Rec, walk
    <2> QED BY <1>6, <2>1
  <1> HIDE DEF walk
  <1>8. /\ DOMAIN walk = 0..n /\ walk[0] = <<>>
        /\ \A k \in 1..n : walk[k] = Next1(walk[k - 1])
    <2>1. 0 \in 0..n /\ \A k \in 1..n : k \in 0..n /\ k # 0
      BY <1>1
    <2>2. walk = [k \in 0..n |-> IF k = 0 THEN <<>> ELSE Next1(walk[k - 1])]
      BY <1>7 DEF WalkRec
    <2> HIDE DEF n, Next1
    <2> QED BY <2>1, <2>2
  <1> DEFINE Good(sig) == sig \in A /\ SigMatches(img, sig, start)
  <1>9. \A sig : Good(sig) => Good(Next1(sig))
    <2> SUFFICES ASSUME NEW sig \in A, SigMatches(img, sig, start) PROVE Good(Next1(sig))
      OBVIOUS
    <2>1. start + Len(sig) \in Nat
      OBVIOUS
    <2>2. /\ InsnSig(img, start + Len(sig), wildcards) \in A
          /\ SigMatches(img, InsnSig(img, start + Len(sig), wildcards), start + Len(sig))
      BY <2>1, InsnIs
    <2> QED BY <2>2, LongerMatches
  <1> HIDE DEF n
  <1>10. \A k \in 0..n : Good(walk[k])
    <2> DEFINE S == {k \in 0..n : Good(walk[k])}
    <2>1. 0 \in S
      <3>1. Good(<<>>)
        BY <1>1 DEF SigMatches
      <3> HIDE DEF Good
      <3> QED BY <1>1, <1>8, <3>1
    <2>2. ASSUME NEW m \in 0..(n - 1), m \in S PROVE m + 1 \in S
      <3>1. m + 1 \in 1..n /\ m + 1 \in 0..n /\ (m + 1) - 1 = m
        BY <1>1
      <3> HIDE DEF Good, Next1
      <3>2. walk[m + 1] = Next1(walk[m])
        BY <1>8, <3>1
      <3> QED BY <1>9, <2>2, <3>1, <3>2
    <2> HIDE DEF S
    <2>3. \A k \in 0..n : k \in S
      BY <1>1, <2>1, <2>2, UpTo
    <2> QED BY <2>3 DEF S
  <1> QED BY <1>8, <1>10 DEF n, walk

LEMMA WalkSettles ==
    ASSUME NEW img, IsImage(img), NEW start \in Nat, NEW wildcards
    PROVE  Settles(Walk(img, start, wildcards), Len(img.bytes) + 1)
  <1> DEFINE n == Len(img.bytes) + 1
             walk == Walk(img, start, wildcards)
             Insn(sig) == InsnSig(img, start + Len(sig), wildcards)
  <1>1. /\ n \in Nat /\ Len(img.bytes) \in Nat /\ DOMAIN walk = 0..n /\ walk[0] = <<>>
        /\ \A k \in 1..n : walk[k] = walk[k - 1] \o Insn(walk[k - 1])
        /\ \A k \in 0..n : walk[k] \in Seq(Pat) /\ SigMatches(img, walk[k], start)
    <2>1. n \in Nat /\ Len(img.bytes) \in Nat
      BY ImageIs
    <2>2. /\ DOMAIN walk = 0..n /\ walk[0] = <<>>
          /\ \A k \in 1..n : walk[k] = walk[k - 1] \o InsnSig(img, start + Len(walk[k - 1]), wildcards)
          /\ \A k \in 0..n : walk[k] \in Seq(Pat) /\ SigMatches(img, walk[k], start)
      BY WalkIs, Zenon
    <2> HIDE DEF walk, n
    <2> QED BY <2>1, <2>2
  <1>2. \A k \in 1..n : Insn(walk[k - 1]) \in Seq(Pat)
    <2> SUFFICES ASSUME NEW k \in 1..n PROVE Insn(walk[k - 1]) \in Seq(Pat)
      OBVIOUS
    <2>1. k - 1 \in 0..n
      BY <1>1
    <2>2. walk[k - 1] \in Seq(Pat)
      BY <1>1, <2>1
    <2>3. start + Len(walk[k - 1]) \in Nat
      BY <2>2
    <2> QED BY <2>3, InsnIs
  <1> HIDE DEF walk, n, Insn
  <1>3. \A k \in 0..n : Len(walk[k]) \in Nat /\ Len(walk[k]) < n
    <2> SUFFICES ASSUME NEW k \in 0..n PROVE Len(walk[k]) \in Nat /\ Len(walk[k]) < n
      OBVIOUS
    <2>1. /\ Len(walk[k]) \in Nat
          /\ walk[k] # <<>> => start + Len(walk[k]) - 1 \in Addresses(img)
      BY <1>1, MatchFits
    <2>2. CASE walk[k] = <<>>
      <3>1. Len(<<>>) = 0
        OBVIOUS
      <3> QED BY <1>1, <2>1, <2>2, <3>1, ImageIs DEF n
    <2>3. CASE walk[k] # <<>>
      <3>1. Len(walk[k]) \in 1..Len(img.bytes) \/ start = 0
        BY <1>1, <2>1, <2>3, ImageIs
      <3>2. start + Len(walk[k]) - 1 <= Len(img.bytes) /\ start \in Nat
        BY <2>1, <2>3, ImageIs
      <3>3. start # 0
        <4> SUFFICES ASSUME start = 0 PROVE FALSE
          OBVIOUS
        <4>1. 1 \in DOMAIN walk[k]
          BY <1>1, <2>1, <2>3
        <4>2. start + 1 - 1 \in Addresses(img)
          BY <1>1, <4>1 DEF SigMatches
        <4> QED BY <4>2, ImageIs
      <3> QED BY <2>1, <3>2, <3>3, <1>1 DEF n
    <2> QED BY <2>2, <2>3
  <1>4. \A k \in 1..n : /\ Len(walk[k - 1]) <= Len(walk[k])
                        /\ walk[k] # walk[k - 1] => Len(walk[k - 1]) < Len(walk[k])
    <2> SUFFICES ASSUME NEW k \in 1..n
                 PROVE  /\ Len(walk[k - 1]) <= Len(walk[k])
                        /\ walk[k] # walk[k - 1] => Len(walk[k - 1]) < Len(walk[k])
      OBVIOUS
    <2> DEFINE a == walk[k - 1]
               b == Insn(a)
    <2>1. k - 1 \in 0..n
      BY <1>1
    <2>2. a \in Seq(Pat) /\ b \in Seq(Pat) /\ walk[k] = a \o b
      BY <1>1, <1>2, <2>1
    <2> HIDE DEF a, b
    <2>3. /\ Len(a \o b) = Len(a) + Len(b) /\ Len(a) \in Nat /\ Len(b) \in Nat
          /\ b = <<>> => a \o b = a
          /\ Len(b) = 0 => b = <<>>
      BY <2>2, ConcatProperties, EmptySeq
    <2> QED BY <2>2, <2>3 DEF a
  <1>5. ASSUME NEW i \in 0..n, NEW j \in 0..n, i <= j PROVE Len(walk[i]) <= Len(walk[j])
    <2> DEFINE S == {m \in 0..n : i <= m => Len(walk[i]) <= Len(walk[m])}
    <2>1. 0 \in S
      BY <1>1, <1>3
    <2>2. ASSUME NEW m \in 0..(n - 1), m \in S PROVE m + 1 \in S
      <3>1. m + 1 \in 1..n /\ m + 1 \in 0..n /\ (m + 1) - 1 = m /\ m \in 0..n
        BY <1>1
      <3>2. Len(walk[m]) <= Len(walk[m + 1])
        BY <1>4, <3>1
      <3>3. CASE i = m + 1
        BY <3>1, <3>3, <1>3
      <3>4. CASE i # m + 1
        <4>1. i <= m + 1 => i <= m
          BY <3>4, <3>1
        <4> QED BY <2>2, <3>1, <3>2, <4>1, <1>3
      <3> QED BY <3>3, <3>4
    <2> HIDE DEF S
    <2>3. \A k \in 0..n : k \in S
      BY <1>1, <2>1, <2>2, UpTo
    <2>4. j \in S
      BY <2>3
    <2> QED BY <1>5, <2>4 DEF S
  <1>6. ASSUME NEW k \in 1..n, walk[k] = walk[k - 1], NEW j \in k..n PROVE walk[j] = walk[k - 1]
    <2> DEFINE S == {m \in 0..n : m >= k => walk[m] = walk[k - 1]}
    <2>1. 0 \in S
      BY <1>1
    <2>2. ASSUME NEW m \in 0..(n - 1), m \in S PROVE m + 1 \in S
      <3>1. m + 1 \in 1..n /\ m + 1 \in 0..n /\ (m + 1) - 1 = m /\ m \in 0..n /\ k \in Nat
        BY <1>1
      <3>2. CASE m + 1 < k
        BY <3>1, <3>2
      <3>3. CASE m + 1 = k
        BY <3>1, <3>3, <1>6
      <3>4. CASE m >= k
        <4>1. walk[m] = walk[k - 1] /\ walk[m + 1] = walk[m] \o Insn(walk[m])
          BY <1>1, <2>2, <3>1, <3>4
        <4>2. walk[k] = walk[k - 1] \o Insn(walk[k - 1])
          BY <1>1
        <4> QED BY <1>6, <3>1, <4>1, <4>2
      <3> QED BY <3>1, <3>2, <3>3, <3>4
    <2> HIDE DEF S
    <2>3. \A x \in 0..n : x \in S
      BY <1>1, <2>1, <2>2, UpTo
    <2>4. j \in 0..n /\ j >= k
      BY <1>1
    <2>5. j \in S
      BY <2>3, <2>4
    <2> QED BY <2>4, <2>5 DEF S
  <1>7. \E k \in 1..n : walk[k] = walk[k - 1]
    <2> SUFFICES ASSUME \A k \in 1..n : walk[k] # walk[k - 1] PROVE FALSE
      OBVIOUS
    <2> DEFINE S == {m \in 0..n : Len(walk[m]) >= m}
    <2>1. 0 \in S
      BY <1>1, <1>3
    <2>2. ASSUME NEW m \in 0..(n - 1), m \in S PROVE m + 1 \in S
      <3>1. m + 1 \in 1..n /\ m + 1 \in 0..n /\ (m + 1) - 1 = m /\ m \in 0..n
        BY <1>1
      <3>2. Len(walk[m]) < Len(walk[m + 1])
        BY <1>4, <3>1
      <3> QED BY <2>2, <3>1, <3>2, <1>3
    <2> HIDE DEF S
    <2>3. \A x \in 0..n : x \in S
      BY <1>1, <2>1, <2>2, UpTo
    <2>4. n \in 0..n /\ n \in S
      BY <1>1, <2>3
    <2>5. Len(walk[n]) >= n
      BY <2>4 DEF S
    <2>6. Len(walk[n]) \in Nat /\ Len(walk[n]) < n
      BY <1>3, <2>4
    <2>7. n \in Nat
      BY <1>1
    <2> HIDE DEF Insn
    <2> QED BY <2>5, <2>6, <2>7
  <1>8. Settles(walk, n)
    BY <1>5, <1>6, <1>7 DEF Settles
  <1> QED BY <1>8 DEF walk, n

LEMMA AddressesAreFinite == ASSUME NEW img, IsImage(img) PROVE IsFiniteSet(Addresses(img))
  <1>1. Addresses(img) = 1..Len(img.bytes) /\ Len(img.bytes) \in Int /\ 1 \in Int
    BY ImageIs
  <1> QED BY <1>1, FS_Interval

(* The first match: the least of them. *)
LEMMA FirstMatch ==
    ASSUME NEW img, IsImage(img), NEW sig, NEW from
    PROVE  LET hits == {ea \in Addresses(img) : ea >= from /\ SigMatches(img, sig, ea)}
           IN  FindNth(img, sig, from, 1, FALSE) = IF hits = {} THEN NoAddr ELSE Min(hits)
  <1> DEFINE hits == {ea \in Addresses(img) : ea >= from /\ SigMatches(img, sig, ea)}
             nth == {ea \in hits : Cardinality({h \in hits : h <= ea}) = 1}
  <1>1. FindNth(img, sig, from, 1, FALSE) = IF nth = {} THEN NoAddr ELSE Min(nth)
    BY DEF FindNth
  <1>2. hits \in SUBSET Nat
    BY ImageIs
  <1> HIDE DEF hits
  <1>3. CASE hits = {}
    BY <1>1, <1>3 DEF hits
  <1>4. CASE hits # {}
    <2> DEFINE m == Min(hits)
    <2>1. m \in hits /\ m \in Nat /\ \A y \in hits : m <= y /\ y \in Nat
      BY <1>2, <1>4, MinIs
    <2> HIDE DEF m
    <2>2. {h \in hits : h <= m} = {m}
      <3>1. ASSUME NEW h \in hits, h <= m PROVE h = m
        BY <2>1, <3>1
      <3>2. m <= m
        BY <2>1
      <3> QED BY <2>1, <3>1, <3>2
    <2>3. Cardinality({m}) = 1
      BY FS_Singleton
    <2>4. m \in nth
      BY <2>1, <2>2, <2>3
    <2>5. ASSUME NEW y \in nth PROVE y = m
      <3> DEFINE T == {h \in hits : h <= y}
      <3>1. Cardinality(T) = 1 /\ y \in hits
        BY <2>5
      <3>2. m \in T /\ y \in T
        BY <2>1, <3>1
      <3> HIDE DEF T
      <3>3. IsFiniteSet(T)
        <4>1. T \subseteq Addresses(img)
          BY DEF T, hits
        <4>2. IsFiniteSet(Addresses(img))
          BY AddressesAreFinite
        <4> QED BY <4>1, <4>2, FS_Subset
      <3>4. PICK x : T = {x}
        BY <3>1, <3>3, FS_Singleton
      <3> QED BY <3>2, <3>4
    <2>6. nth = {m}
      BY <2>4, <2>5
    <2> HIDE DEF nth
    <2>7. Min({m}) = m
      <3>1. {m} \in SUBSET Nat /\ {m} # {}
        BY <2>1
      <3> QED BY <3>1, MinIs
    <2> QED BY <1>1, <1>4, <2>6, <2>7 DEF m, hits
  <1> QED BY <1>3, <1>4

(* What _is_unique tells of a pattern that matches of the address.         *)
LEMMA UniqueIs ==
    ASSUME NEW img, IsImage(img), NEW start \in Addresses(img), NEW sig, SigMatches(img, sig, start), NEW k
    PROVE  UniquenessIsTold(img, sig, start, IsUnique(img, sig, start, k), k)
  <1> DEFINE H == {ea \in Addresses(img) : SigMatches(img, sig, ea)}
             H1 == {ea \in Addresses(img) : ea >= 1 /\ SigMatches(img, sig, ea)}
             H2 == {ea \in Addresses(img) : ea >= start + 1 /\ SigMatches(img, sig, ea)}
             f1 == Failed(img, start, k, 1)
             f2 == Failed(img, start, k, 2)
  <1>1. /\ FindNth(img, sig, 1, 1, f1) = IF f1 \/ H1 = {} THEN NoAddr ELSE Min(H1)
        /\ FindNth(img, sig, start + 1, 1, f2) = IF f2 \/ H2 = {} THEN NoAddr ELSE Min(H2)
    <2>1. /\ FindNth(img, sig, 1, 1, FALSE) = IF H1 = {} THEN NoAddr ELSE Min(H1)
          /\ FindNth(img, sig, start + 1, 1, FALSE) = IF H2 = {} THEN NoAddr ELSE Min(H2)
      BY FirstMatch
    <2>2. \A from : FindNth(img, sig, from, 1, TRUE) = NoAddr
      BY DEF FindNth
    <2>3. f1 \in BOOLEAN /\ f2 \in BOOLEAN
      BY DEF Failed
    <2> HIDE DEF H1, H2, f1, f2
    <2>4. f1 = TRUE \/ f1 = FALSE
      BY <2>3
    <2>5. f2 = TRUE \/ f2 = FALSE
      BY <2>3
    <2> QED BY <2>1, <2>2, <2>4, <2>5
  <1>2. /\ H1 = H /\ start \in H /\ H \in SUBSET Nat /\ NoAddr \notin H
        /\ H2 = {ea \in H : ea >= start + 1} /\ H2 \in SUBSET Nat /\ start \in Nat
    BY ImageIs
  <1>3. MatchesOnce(img, sig) <=> Cardinality(H) = 1
    BY DEF MatchesOnce
  <1>4. IsFiniteSet(H)
    <2>1. H \subseteq Addresses(img)
      OBVIOUS
    <2>2. IsFiniteSet(Addresses(img))
      BY AddressesAreFinite
    <2> QED BY <2>1, <2>2, FS_Subset
  <1> HIDE DEF H, H1, H2, f1, f2
  <1>5. IsUnique(img, sig, start, k) <=> ~ f1 /\ Min(H) = start /\ (f2 \/ H2 = {})
    <2>1. H2 # {} => Min(H2) \in H2
      BY <1>2, MinIs
    <2>2. H2 # {} => Min(H2) # NoAddr
      BY <1>2, <2>1
    <2>3. start # NoAddr
      BY <1>2
    <2> QED BY <1>1, <1>2, <2>2, <2>3 DEF IsUnique, f1, f2
  <1>6. Min(H) \in H /\ \A y \in H : Min(H) <= y
    BY <1>2, MinIs
  <1>7. ASSUME Min(H) = start, H2 = {} PROVE H = {start}
    <2> SUFFICES ASSUME NEW y \in H PROVE y = start
      BY <1>2
    <2>1. ~ (y >= start + 1) /\ y \in Nat /\ start <= y
      BY <1>2, <1>6, <1>7
    <2> QED BY <1>2, <2>1
  <1>8. ASSUME H = {start} PROVE Min(H) = start /\ H2 = {}
    BY <1>2, <1>6, <1>8
  <1>9. Cardinality(H) = 1 <=> H = {start}
    <2>1. Cardinality({start}) = 1
      BY FS_Singleton
    <2>2. ASSUME Cardinality(H) = 1 PROVE H = {start}
      <3>1. PICK x : H = {x}
        BY <1>4, <2>2, FS_Singleton
      <3> QED BY <1>2, <3>1
    <2> QED BY <2>1, <2>2
  <1>10. \A x \in Addresses(img) : SigMatches(img, sig, x) => x \in H
    BY DEF H
  <1> QED BY <1>3, <1>5, <1>6, <1>7, <1>8, <1>9, <1>10 DEF UniquenessIsTold, f1, f2

LEMMA MakeUniqueIs ==
    ASSUME NEW img, IsImage(img), NEW start \in Addresses(img), NEW max \in Nat, NEW wildcards,
           NEW cut \in Nat
    PROVE  SigRight(img, MakeUnique(img, start, max, wildcards, cut), start, max,
                    Walk(img, start, wildcards))
  <1> DEFINE n == Len(img.bytes) + 1
             walk == Walk(img, start, wildcards)
             full(k) == Len(walk[k - 1]) >= max
             cancelled(k) == ~ full(k) /\ cut # 0 /\ k >= cut /\ k % SigPoll = 0
             stops(k) == full(k) \/ cancelled(k) \/ walk[k] = walk[k - 1]
             D == {k \in 1..n : stops(k) \/ IsUnique(img, walk[k], start, k)}
             last == Min(D)
             r == MakeUnique(img, start, max, wildcards, cut)
  <1> SUFFICES SigRight(img, r, start, max, walk)
    OBVIOUS
  <1>1. n \in Nat /\ start \in Nat
    BY ImageIs
  <1>2. /\ walk[0] = <<>>
        /\ \A k \in 0..n : walk[k] \in Seq(Pat) /\ SigMatches(img, walk[k], start)
    <2>1. /\ walk[0] = <<>>
          /\ \A k \in 0..n : walk[k] \in Seq(Pat) /\ SigMatches(img, walk[k], start)
      BY <1>1, WalkIs, Zenon
    <2> QED BY <2>1
  <1>3. /\ \A i, j \in 0..n : i <= j => Len(walk[i]) <= Len(walk[j])
        /\ \A k \in 1..n : walk[k] = walk[k - 1] => \A j \in k..n : walk[j] = walk[k - 1]
        /\ \E k \in 1..n : walk[k] = walk[k - 1]
    <2>1. Settles(walk, n)
      BY <1>1, WalkSettles, Zenon
    <2> HIDE DEF walk, n
    <2> QED BY <2>1 DEF Settles
  <1>4. r = IF ~ stops(last) THEN [sig |-> walk[last], unique |-> TRUE, note |-> "none"]
            ELSE [sig |-> walk[last - 1],
                  unique |-> ~ cancelled(last) /\ walk[last - 1] # <<>> /\ IsUnique(img, walk[last - 1], start, last),
                  note |-> IF cancelled(last) THEN "cancelled" ELSE "none within the limit"]
    BY DEF MakeUnique
  <1> HIDE DEF r, walk, n
  <1>5. \A k \in 0..n, j \in 1..n : UniquenessIsTold(img, walk[k], start, IsUnique(img, walk[k], start, j), j)
    <2> SUFFICES ASSUME NEW k \in 0..n, NEW j \in 1..n
                 PROVE  UniquenessIsTold(img, walk[k], start, IsUnique(img, walk[k], start, j), j)
      OBVIOUS
    <2>1. SigMatches(img, walk[k], start)
      BY <1>2
    <2> QED BY <2>1, UniqueIs
  <1>6. D \in SUBSET Nat /\ D # {}
    <2>1. PICK k \in 1..n : walk[k] = walk[k - 1]
      BY <1>3
    <2>2. k \in D
      <3> HIDE DEF full, cancelled
      <3>1. stops(k)
        BY <2>1
      <3> HIDE DEF stops
      <3> QED BY <3>1
    <2>3. D \subseteq 1..n
      OBVIOUS
    <2> HIDE DEF D
    <2> QED BY <1>1, <2>2, <2>3
  <1> HIDE DEF D
  <1>7. last \in D /\ \A k \in D : last <= k
    BY <1>6, MinIs
  <1>8. last \in 1..n /\ last \in 0..n /\ last - 1 \in 0..n
    BY <1>1, <1>7 DEF D
  <1> HIDE DEF last
  <1> DEFINE Good(k) == MatchesOnce(img, walk[k]) /\ ~ Failed(img, start, k, 1)
  <1>9. \A k \in 1..n : Good(k) => last <= k
    <2> SUFFICES ASSUME NEW k \in 1..n, Good(k), k < last PROVE FALSE
      BY <1>1, <1>8
    <2>1. k \notin D
      BY <1>1, <1>7, <1>8
    <2>2. UniquenessIsTold(img, walk[k], start, IsUnique(img, walk[k], start, k), k)
      BY <1>5
    <2>3. ~ IsUnique(img, walk[k], start, k)
      BY <2>1 DEF D
    <2> QED BY <2>2, <2>3 DEF UniquenessIsTold
  <1> HIDE DEF Good
  <1>10. CASE ~ stops(last)
    <2>1. r.sig = walk[last] /\ r.unique = TRUE
      BY <1>4, <1>10
    <2>2. UniquenessIsTold(img, walk[last], start, TRUE, last)
      <3> HIDE DEF stops
      <3>1. IsUnique(img, walk[last], start, last)
        BY <1>7, <1>8, <1>10 DEF D
      <3>2. UniquenessIsTold(img, walk[last], start, IsUnique(img, walk[last], start, last), last)
        BY <1>5, <1>8
      <3> QED BY <3>1, <3>2 DEF UniquenessIsTold
    <2>3. ASSUME NEW k \in 1..n, Good(k) PROVE Len(walk[k]) >= Len(walk[last])
      <3>1. k \in 0..n /\ Len(walk[last]) <= Len(walk[k])
        BY <1>1, <1>3, <1>8, <1>9, <2>3
      <3>2. Len(walk[k]) \in Nat /\ Len(walk[last]) \in Nat
        BY <1>2, <1>8, <3>1
      <3> QED BY <3>1, <3>2
    <2>4. walk[last] \in Seq(Pat) /\ SigMatches(img, walk[last], start)
      BY <1>2, <1>8
    <2> HIDE DEF stops
    <2>6. /\ r.sig \in Seq(Pat) /\ SigMatches(img, r.sig, start)
          /\ r.sig \in {walk[last - 1], walk[last]} /\ UniquenessIsTold(img, r.sig, start, TRUE, last)
          /\ \A k \in 1..n : walk[k] # walk[k - 1] /\ MatchesOnce(img, walk[k]) /\ ~ Failed(img, start, k, 1) =>
                Len(walk[k]) >= Len(r.sig)
      BY <2>1, <2>2, <2>3, <2>4 DEF Good
    <2>7. r.unique \in BOOLEAN /\ r.unique
      BY <2>1
    <2> QED BY <1>8, <2>6, <2>7, Zenon DEF SigRight, n
  <1>11. CASE stops(last)
    <2> DEFINE sig == walk[last - 1]
    <2>1. /\ r.sig = sig
          /\ r.unique = (~ cancelled(last) /\ sig # <<>> /\ IsUnique(img, sig, start, last))
          /\ r.note = IF cancelled(last) THEN "cancelled" ELSE "none within the limit"
      <3> HIDE DEF stops, cancelled
      <3> QED BY <1>4, <1>11
    <2>2. r.unique \in BOOLEAN
      <3> HIDE DEF cancelled, sig
      <3>1. IsUnique(img, sig, start, last) \in BOOLEAN
        BY DEF IsUnique
      <3> QED BY <2>1, <3>1
    <2>3. r.unique => UniquenessIsTold(img, sig, start, TRUE, last)
      <3>1. UniquenessIsTold(img, sig, start, IsUnique(img, sig, start, last), last)
        BY <1>5, <1>8
      <3> HIDE DEF cancelled, sig
      <3> QED BY <2>1, <3>1 DEF UniquenessIsTold
    <2>4. sig \in Seq(Pat) /\ SigMatches(img, sig, start)
      BY <1>2, <1>8
    <2>9. ASSUME NEW k \in 1..n, Good(k) PROVE Len(walk[k]) >= Len(sig)
      <3>1. k \in 0..n /\ last - 1 <= k
        BY <1>1, <1>8, <1>9, <2>9
      <3>2. Len(walk[last - 1]) <= Len(walk[k])
        BY <1>3, <1>8, <3>1
      <3>3. Len(walk[k]) \in Nat /\ Len(walk[last - 1]) \in Nat
        BY <1>2, <1>8, <3>1
      <3> QED BY <3>2, <3>3
    <2>5. ASSUME r.note # "cancelled", NEW k \in 1..n, walk[k] # walk[k - 1], Good(k)
          PROVE  Len(walk[k - 1]) >= max
      <3>1. ~ cancelled(last)
        <4> HIDE DEF cancelled, sig
        <4> QED BY <2>1, <2>5
      <3>2. last <= k
        BY <1>9, <2>5
      <3>3. walk[last] # walk[last - 1]
        <4> SUFFICES ASSUME walk[last] = walk[last - 1] PROVE FALSE
          OBVIOUS
        <4>1. \A j \in last..n : walk[j] = walk[last - 1]
          BY <1>3, <1>8
        <4>2. k \in last..n /\ (k - 1 = last - 1 \/ k - 1 \in last..n)
          BY <1>1, <1>8, <3>2
        <4>3. walk[k] = walk[last - 1] /\ walk[k - 1] = walk[last - 1]
          BY <4>1, <4>2
        <4> QED BY <4>3, <2>5
      <3>4. full(last)
        BY <1>11, <3>1, <3>3
      <3>5. /\ last - 1 <= k - 1 /\ k - 1 \in 0..n
            /\ Len(walk[last - 1]) \in Nat /\ Len(walk[k - 1]) \in Nat
        <4>1. last - 1 <= k - 1 /\ k - 1 \in 0..n
          BY <1>1, <1>8, <3>2
        <4>2. walk[last - 1] \in Seq(Pat) /\ walk[k - 1] \in Seq(Pat)
          BY <1>2, <1>8, <4>1
        <4> QED BY <4>1, <4>2
      <3>6. Len(walk[last - 1]) <= Len(walk[k - 1])
        BY <1>3, <1>8, <3>5
      <3> QED BY <3>4, <3>5, <3>6
    <2> HIDE DEF sig
    <2>6. r.sig = sig
      BY <2>1
    <2> HIDE DEF stops, cancelled, full
    <2>7. r.sig \in Seq(Pat) /\ SigMatches(img, r.sig, start)
      BY <2>6, <2>4
    <2>8. /\ \A k \in 1..n : walk[k] # walk[k - 1] /\ MatchesOnce(img, walk[k]) /\ ~ Failed(img, start, k, 1) =>
                Len(walk[k]) >= Len(r.sig)
          /\ r.note # "cancelled" => \A k \in 1..n :
                walk[k] # walk[k - 1] /\ MatchesOnce(img, walk[k]) /\ ~ Failed(img, start, k, 1) =>
                   Len(walk[k - 1]) >= max
      BY <2>5, <2>6, <2>9 DEF Good
    <2>10. r.sig \in {walk[last - 1], walk[last]} /\ (r.unique => UniquenessIsTold(img, r.sig, start, TRUE, last))
      BY <2>3, <2>6 DEF sig
    <2> QED BY <1>8, <2>2, <2>7, <2>8, <2>10, Zenon DEF SigRight, n
  <1> HIDE DEF stops
  <1> QED BY <1>10, <1>11

(* A reply is an error, or tells what it was made from. *)
LEMMA RenderedIs ==
    ASSUME NEW r, NEW of
    PROVE  LET x == Rendered(r, of)
           IN  /\ r.sig = <<>> => "signature" \notin DOMAIN x
               /\ r.sig # <<>> => /\ "signature" \in DOMAIN x
                                  /\ x.addr = of /\ x.signature = r.sig /\ x.length = Len(r.sig)
                                  /\ x.unique = r.unique
                                  /\ x.warning = IF r.unique THEN "none" ELSE r.note
  <1>1. CASE r.sig = <<>>
    <2>1. Rendered(r, of) = [error |-> r.note]
      BY <1>1 DEF Rendered, SigFailed
    <2> QED BY <1>1, <2>1
  <1>2. CASE r.sig # <<>>
    <2> DEFINE x == [addr |-> of, signature |-> r.sig, length |-> Len(r.sig), unique |-> r.unique,
                     mask |-> [i \in DOMAIN r.sig |-> r.sig[i] # Wild],
                     warning |-> IF r.unique THEN "none" ELSE r.note]
    <2>1. Rendered(r, of) = x
      BY <1>2 DEF Rendered
    <2>2. "signature" \in DOMAIN x /\ x.addr = of /\ x.signature = r.sig /\ x.length = Len(r.sig)
      OBVIOUS
    <2>3. x.unique = r.unique /\ x.warning = IF r.unique THEN "none" ELSE r.note
      OBVIOUS
    <2> HIDE DEF x
    <2> QED BY <1>2, <2>1, <2>2, <2>3
  <1> QED BY <1>1, <1>2

LEMMA MadeIsGood ==
    ASSUME NEW img, IsImage(img), NEW ea \in Addresses(img), NEW max \in Nat, NEW wildcards,
           NEW cut \in Nat, "signature" \in DOMAIN Made(img, ea, max, wildcards, cut)
    PROVE  GoodSig(img, Made(img, ea, max, wildcards, cut), ea, max, wildcards)
  <1> DEFINE r == MakeUnique(img, ea, max, wildcards, cut)
             x == Made(img, ea, max, wildcards, cut)
             walk == Walk(img, ea, wildcards)
             n == Len(img.bytes) + 1
             runs == {k \in DOMAIN walk \ {0} :
                         walk[k] # walk[k - 1] /\ MatchesOnce(img, walk[k]) /\ ~ Failed(img, ea, k, 1)}
  <1>1. x = Rendered(r, ea)
    BY DEF Made
  <1>2. SigRight(img, r, ea, max, walk)
    BY MakeUniqueIs
  <1>3. DOMAIN walk = 0..n /\ n \in Nat /\ ea \in Nat /\ ea >= 1 /\ Len(img.bytes) \in Nat
    <2>1. ea \in Nat /\ ea >= 1 /\ n \in Nat /\ Len(img.bytes) \in Nat
      BY ImageIs
    <2>2. DOMAIN walk = 0..n
      BY <2>1, WalkIs, Zenon
    <2> QED BY <2>1, <2>2
  <1> HIDE DEF r, x, walk
  <1>4. r.sig # <<>> /\ x.addr = ea /\ x.signature = r.sig /\ x.length = Len(r.sig)
    <2>1. "signature" \in DOMAIN x
      BY DEF x
    <2> QED BY <1>1, <2>1, RenderedIs
  <1>5. x.unique = r.unique /\ x.warning = IF r.unique THEN "none" ELSE r.note
    BY <1>1, <1>4, RenderedIs
  <1>6. r.sig \in Seq(Pat) /\ r.unique \in BOOLEAN /\ SigMatches(img, r.sig, ea)
    BY <1>2 DEF SigRight
  <1>7. x.length \in 1..Len(img.bytes)
    <2>1. Len(r.sig) \in Nat /\ ea + Len(r.sig) - 1 \in Addresses(img)
      BY <1>3, <1>4, <1>6, MatchFits
    <2>2. Len(r.sig) # 0
      BY <1>4, <1>6
    <2>3. ea + Len(r.sig) - 1 <= Len(img.bytes)
      BY <2>1, ImageIs
    <2> QED BY <1>3, <1>4, <2>1, <2>2, <2>3
  <1>8. \A k : k \in runs => /\ k \in 1..n /\ walk[k] # walk[k - 1]
                             /\ MatchesOnce(img, walk[k]) /\ ~ Failed(img, ea, k, 1)
    BY <1>3
  <1>9. x.unique => /\ \E k \in DOMAIN walk \ {0} : /\ x.signature \in {walk[k - 1], walk[k]}
                                                   /\ UniquenessIsTold(img, x.signature, ea, TRUE, k)
                    /\ \A k \in runs : Len(walk[k]) >= x.length
    <2> SUFFICES ASSUME x.unique
                 PROVE  /\ \E k \in DOMAIN walk \ {0} : /\ x.signature \in {walk[k - 1], walk[k]}
                                                        /\ UniquenessIsTold(img, x.signature, ea, TRUE, k)
                        /\ \A k \in runs : Len(walk[k]) >= x.length
      OBVIOUS
    <2>1. r.unique
      BY <1>5
    <2>2. /\ \E k \in 1..n : r.sig \in {walk[k - 1], walk[k]} /\ UniquenessIsTold(img, r.sig, ea, TRUE, k)
          /\ \A k \in 1..n : walk[k] # walk[k - 1] /\ MatchesOnce(img, walk[k]) /\ ~ Failed(img, ea, k, 1) =>
                Len(walk[k]) >= Len(r.sig)
      BY <1>2, <1>4, <2>1 DEF SigRight
    <2> HIDE DEF runs
    <2>3. 1..n \subseteq DOMAIN walk \ {0}
      BY <1>3
    <2>4. \E k \in DOMAIN walk \ {0} : /\ x.signature \in {walk[k - 1], walk[k]}
                                       /\ UniquenessIsTold(img, x.signature, ea, TRUE, k)
      BY <1>4, <2>2, <2>3
    <2>5. \A k \in runs : Len(walk[k]) >= x.length
      BY <1>4, <1>8, <2>2
    <2> QED BY <2>4, <2>5
  <1>10. ~ x.unique /\ x.warning # "cancelled" => \A k \in runs : Len(walk[k - 1]) >= max
    <2> SUFFICES ASSUME ~ x.unique, x.warning # "cancelled"
                 PROVE  \A k \in runs : Len(walk[k - 1]) >= max
      OBVIOUS
    <2>1. ~ r.unique
      BY <1>5
    <2>2. r.note # "cancelled"
      BY <1>5, <2>1
    <2>3. \A k \in 1..n : walk[k] # walk[k - 1] /\ MatchesOnce(img, walk[k]) /\ ~ Failed(img, ea, k, 1) =>
             Len(walk[k - 1]) >= max
      BY <1>2, <1>4, <2>1, <2>2 DEF SigRight
    <2> HIDE DEF runs
    <2> QED BY <1>8, <2>3
  <1>11. SignatureIsShortest(img, x, ea, max, wildcards)
    <2>1. SigMatches(img, x.signature, ea)
      BY <1>4, <1>6
    <2> QED BY <2>1, <1>9, <1>10, Zenon DEF SignatureIsShortest, walk
  <1> HIDE DEF runs
  <1>12. GoodSig(img, x, ea, max, wildcards)
    BY <1>4, <1>7, <1>11, Zenon DEF GoodSig
  <1> QED BY <1>12 DEF x

LEMMA FailedHasNone == ASSUME NEW why PROVE "signature" \notin DOMAIN SigFailed(why)
  BY DEF SigFailed

(* make_signature and make_signature_for_function, asked about every       *)
(* address.                                                                *)
LEMMA SinglesAreGood ==
    ASSUME NEW img, IsImage(img), NEW max \in 1..3, NEW wildcards \in BOOLEAN, NEW cut \in {0, 2}
    PROVE  LET all == [i \in Addresses(img) |-> i]
               one == MakeSignature(img, all, max, wildcards, cut, Len(all))
               fun == MakeSignatureForFunction(img, {1, 3}, all, max, wildcards, cut, Len(all) - 1)
               Good(r) == "signature" \in DOMAIN r => SignatureIsShortest(img, r, r.addr, max, wildcards)
           IN  /\ \A i \in Addresses(img) : Good(one[i]) /\ Good(fun[i])
               /\ \A i \in Addresses(img) : "signature" \in DOMAIN fun[i] =>
                     fun[i] = one[IF i >= 3 THEN 3 ELSE 1]
  <1> DEFINE n == Len(img.bytes)
             all == [i \in Addresses(img) |-> i]
             one == MakeSignature(img, all, max, wildcards, cut, Len(all))
             fun == MakeSignatureForFunction(img, {1, 3}, all, max, wildcards, cut, Len(all) - 1)
             Good(r) == "signature" \in DOMAIN r => SignatureIsShortest(img, r, r.addr, max, wildcards)
             M(i) == Made(img, i, max, wildcards, cut)
             of(i) == IF i >= 3 THEN 3 ELSE 1
  <1>1. /\ n \in Nat /\ Addresses(img) = 1..n /\ DOMAIN all = 1..n /\ Len(all) = n
        /\ \A i \in 1..n : all[i] = i /\ i # NoAddr /\ i \in Nat
    BY ImageIs
  <1>2. max \in Nat /\ cut \in Nat /\ SigLimit(max) = max
    BY DEF SigLimit
  <1> HIDE DEF all
  <1>3. \A i \in 1..n : one[i] = M(i)
    <2> SUFFICES ASSUME NEW i \in 1..n PROVE one[i] = M(i)
      OBVIOUS
    <2>1. one = [j \in 1..n |-> IF j > n THEN SigFailed("Tool budget exceeded")
                                ELSE OneSignature(img, all[j], max, wildcards, cut)]
      BY <1>1, <1>2 DEF MakeSignature, Hops
    <2>2. one[i] = OneSignature(img, i, max, wildcards, cut)
      <3> HIDE DEF one
      <3>1. one[i] = IF i > n THEN SigFailed("Tool budget exceeded")
                     ELSE OneSignature(img, all[i], max, wildcards, cut)
        BY <2>1
      <3>2. ~ (i > n) /\ all[i] = i
        BY <1>1
      <3> QED BY <3>1, <3>2
    <2> QED BY <1>1, <2>2 DEF OneSignature, Made
  <1>4. \A i \in 1..n : fun[i] = IF i > n - 1 THEN SigFailed("Tool budget exceeded") ELSE M(of(i))
    <2> SUFFICES ASSUME NEW i \in 1..n
                 PROVE  fun[i] = IF i > n - 1 THEN SigFailed("Tool budget exceeded") ELSE M(of(i))
      OBVIOUS
    <2> DEFINE before == {s \in {1, 3} : s <= i}
    <2>1. fun = [j \in 1..n |-> IF j > n - 1 THEN SigFailed("Tool budget exceeded")
                                ELSE FunctionSignature(img, {1, 3}, all[j], max, wildcards, cut)]
      BY <1>1, <1>2 DEF MakeSignatureForFunction, Hops
    <2>2. fun[i] = IF i > n - 1 THEN SigFailed("Tool budget exceeded")
                   ELSE FunctionSignature(img, {1, 3}, i, max, wildcards, cut)
      <3> HIDE DEF fun
      <3> QED BY <1>1, <2>1
    <2>3. before # {} /\ Max(before) = of(i)
      <3>1. 1 \in before /\ before \in SUBSET (0..3) /\ 3 \in Nat
        BY <1>1
      <3>2. Max(before) \in before /\ \A y \in before : y <= Max(before)
        BY <3>1, MaxIs
      <3>3. i >= 3 <=> 3 \in before
        BY <1>1
      <3> QED BY <3>1, <3>2, <3>3, <1>1
    <2>4. FunctionSignature(img, {1, 3}, i, max, wildcards, cut) = M(of(i))
      <3> HIDE DEF of
      <3> QED BY <1>1, <2>3 DEF FunctionSignature, Made
    <2> HIDE DEF fun, M, of
    <2> QED BY <2>2, <2>4
  <1> HIDE DEF one, fun
  <1>5. \A i \in 1..n : "signature" \in DOMAIN M(i) =>
           M(i).addr = i /\ SignatureIsShortest(img, M(i), i, max, wildcards)
    <2> SUFFICES ASSUME NEW i \in 1..n, "signature" \in DOMAIN M(i)
                 PROVE  M(i).addr = i /\ SignatureIsShortest(img, M(i), i, max, wildcards)
      OBVIOUS
    <2>1. GoodSig(img, M(i), i, max, wildcards)
      BY <1>1, <1>2, MadeIsGood
    <2> QED BY <2>1 DEF GoodSig
  <1> HIDE DEF M
  <1>6. \A i \in 1..n : of(i) \in 1..n
    BY <1>1
  <1>7. \A i \in 1..n : Good(M(i))
    BY <1>5
  <1>8. \A why : Good(SigFailed(why))
    BY FailedHasNone
  <1> HIDE DEF Good
  <1>9. \A i \in 1..n : Good(one[i]) /\ Good(fun[i])
    <2> SUFFICES ASSUME NEW i \in 1..n PROVE Good(one[i]) /\ Good(fun[i])
      OBVIOUS
    <2>1. of(i) \in 1..n
      BY <1>6
    <2> HIDE DEF of
    <2> QED BY <2>1, <1>3, <1>4, <1>7, <1>8
  <1>10. ASSUME NEW i \in 1..n, "signature" \in DOMAIN fun[i] PROVE fun[i] = one[of(i)]
    <2>1. of(i) \in 1..n
      BY <1>6
    <2> HIDE DEF of
    <2>2. fun[i] = M(of(i))
      BY <1>4, <1>10, FailedHasNone
    <2> QED BY <1>3, <2>1, <2>2
  <1> QED BY <1>1, <1>9, <1>10, Zenon DEF Good, one, fun, all

(* Picked elements are some of the picked ones. *)
LEMMA PickedFrom ==
    ASSUME NEW A, NEW s \in Seq(A), NEW I
    PROVE  Picked(s, I) \in Seq({s[j] : j \in {i \in DOMAIN s : i \in I}})
  <1> DEFINE K == [a \in A |-> 0]
             p == Picked(s, I)
             R == {s[j] : j \in {i \in DOMAIN s : i \in I}}
  <1>1. K \in [A -> Int]
    OBVIOUS
  <1>2. p \in Seq(A) /\ HasThose(p, s, I)
    <2> HIDE DEF K
    <2> QED BY <1>1, PickedIs
  <1> HIDE DEF p
  <1>3. \A i \in 1..Len(p) : p[i] \in R
    <2> SUFFICES ASSUME NEW i \in 1..Len(p) PROVE p[i] \in R
      OBVIOUS
    <2>1. PICK j \in 1..Len(s) : p[i] = s[j] /\ j \in I
      BY <1>2 DEF HasThose
    <2>2. j \in DOMAIN s
      OBVIOUS
    <2> QED BY <2>1, <2>2
  <1> HIDE DEF R
  <1>4. p \in Seq(R)
    <2>1. p \in [1..Len(p) -> R] /\ Len(p) \in Nat
      BY <1>2, <1>3
    <2> QED BY <2>1
  <1> QED BY <1>4 DEF p, R

(* Sorting by length keeps what is sorted and puts the shortest first. *)
LEMMA ByLengthIs ==
    ASSUME NEW img, IsImage(img), NEW R, \A r \in R : r.length \in Nat, NEW found \in Seq(R)
    PROVE  ByLength(img, found) \in Seq(R) /\ Shorter(ByLength(img, found))
  <1> DEFINE n == Len(img.bytes)
             A == Seq(R)
             Those(k) == Picked(found, {i \in DOMAIN found : found[i].length = k})
             F == [p \in A \X (1..n) |-> p[1] \o Those(p[2])]
             Rec(g) == g = [k \in 0..n |-> IF k = 0 THEN <<>> ELSE g[k - 1] \o Those(k)]
             got == CHOOSE g : Rec(g)
  <1>1. n \in Nat /\ <<>> \in A
    BY ImageIs
  <1>2. \A k : Those(k) \in A /\ \A i \in 1..Len(Those(k)) : Those(k)[i].length = k
    <2> SUFFICES ASSUME NEW k PROVE Those(k) \in A /\ \A i \in 1..Len(Those(k)) : Those(k)[i].length = k
      OBVIOUS
    <2> DEFINE I == {i \in DOMAIN found : found[i].length = k}
               Q == {found[j] : j \in {i \in DOMAIN found : i \in I}}
               p == Picked(found, I)
    <2>1. p \in Seq(Q)
      BY PickedFrom
    <2>2. \A q \in Q : q \in R /\ q.length = k
      OBVIOUS
    <2> HIDE DEF Q, p
    <2>3. Len(p) \in Nat /\ \A i \in 1..Len(p) : p[i] \in Q
      BY <2>1
    <2>4. \A i \in 1..Len(p) : p[i] \in R /\ p[i].length = k
      BY <2>2, <2>3
    <2>5. p \in [1..Len(p) -> R]
      BY <2>1, <2>4
    <2>6. p \in Seq(R)
      BY <2>3, <2>5
    <2> QED BY <2>4, <2>6 DEF p
  <1> HIDE DEF n, Those
  <1>3. F \in [A \X (1..n) -> A]
    <2>1. ASSUME NEW p \in A \X (1..n) PROVE p[1] \o Those(p[2]) \in A
      BY <1>2, ConcatProperties
    <2> HIDE DEF A
    <2> QED BY <2>1
  <1>4. PICK f : Solves(f, A, <<>>, n, F)
    <2> HIDE DEF F, A
    <2> QED BY <1>1, <1>3, RecursionExists, Zenon
  <1>5. /\ f \in [0..n -> A] /\ f[0] = <<>>
        /\ \A k \in 1..n : f[k] = f[k - 1] \o Those(k)
    <2> HIDE DEF A
    <2>1. f \in [0..n -> A] /\ f[0] = <<>>
      BY <1>4 DEF Solves
    <2>2. ASSUME NEW k \in 1..n PROVE f[k] = f[k - 1] \o Those(k)
      <3>1. k - 1 \in 0..n
        BY <1>1
      <3>2. <<f[k - 1], k>> \in A \X (1..n)
        BY <3>1, <2>1
      <3>3. f[k] = F[<<f[k - 1], k>>]
        BY <1>4 DEF Solves
      <3> QED BY <3>2, <3>3
    <2> QED BY <2>1, <2>2
  <1>6. Rec(f)
    <2>1. \A i \in 0..n : i # 0 => i \in 1..n
      BY <1>1
    <2> HIDE DEF F, A
    <2> QED BY <1>5, <2>1
  <1>7. ByLength(img, found) = got[n] /\ Rec(got)
    <2>1. ByLength(img, found) = got[n]
      BY DEF ByLength, n, Those
    <2>2. Rec(got)
      <3> HIDE DEF Rec
      <3> QED BY <1>6
    <2> QED BY <2>1, <2>2, Zenon
  <1> HIDE DEF got
  <1>8. /\ got[0] = <<>>
        /\ \A k \in 1..n : got[k] = got[k - 1] \o Those(k)
    <2>1. 0 \in 0..n /\ \A k \in 1..n : k \in 0..n /\ k # 0
      BY <1>1
    <2> QED BY <1>7, <2>1
  <1> HIDE DEF Rec
  <1> DEFINE Good(s, k) == s \in A /\ Shorter(s) /\ \A i \in 1..Len(s) : s[i].length <= k
  <1>9. ASSUME NEW k \in Nat, NEW s, Good(s, k) PROVE Good(s \o Those(k + 1), k + 1)
    <2> DEFINE t == Those(k + 1)
               c == s \o t
    <2>1. s \in A /\ t \in A /\ Shorter(s) /\ \A i \in 1..Len(s) : s[i].length <= k /\ s[i].length \in Nat
      BY <1>2, <1>9
    <2>2. \A i \in 1..Len(t) : t[i].length = k + 1
      BY <1>2
    <2> HIDE DEF t
    <2>3. /\ c \in A /\ Len(c) = Len(s) + Len(t) /\ Len(s) \in Nat /\ Len(t) \in Nat
          /\ \A i \in 1..(Len(s) + Len(t)) : c[i] = IF i <= Len(s) THEN s[i] ELSE t[i - Len(s)]
      BY <2>1, ConcatProperties
    <2> HIDE DEF c, A
    <2>4. ASSUME NEW i \in 1..Len(c)
          PROVE  IF i <= Len(s) THEN i \in 1..Len(s) /\ c[i] = s[i] /\ c[i].length <= k /\ c[i].length \in Nat
                 ELSE c[i].length = k + 1
      <3>1. CASE i <= Len(s)
        <4>1. i \in 1..Len(s) /\ c[i] = s[i]
          BY <2>3, <3>1
        <4> QED BY <2>1, <3>1, <4>1
      <3>2. CASE ~ (i <= Len(s))
        <4>1. i - Len(s) \in 1..Len(t) /\ c[i] = t[i - Len(s)]
          BY <2>3, <3>2
        <4> QED BY <2>2, <3>2, <4>1
      <3> QED BY <3>1, <3>2
    <2>5. Shorter(c)
      <3> SUFFICES ASSUME NEW i \in 1..Len(c), NEW j \in 1..Len(c), i <= j PROVE c[i].length <= c[j].length
        BY DEF Shorter
      <3>1. CASE j <= Len(s)
        <4>1. i <= Len(s)
          BY <2>3, <3>1
        <4>2. i \in 1..Len(s) /\ j \in 1..Len(s) /\ c[i] = s[i] /\ c[j] = s[j]
          BY <2>4, <3>1, <4>1
        <4>3. s[i].length <= s[j].length
          BY <2>1, <4>2 DEF Shorter
        <4> QED BY <4>2, <4>3
      <3>2. CASE ~ (j <= Len(s))
        <4>1. c[j].length = k + 1
          BY <2>4, <3>2
        <4>2. c[i].length <= k + 1
          BY <2>4
        <4> QED BY <4>1, <4>2
      <3> QED BY <3>1, <3>2
    <2>6. \A i \in 1..Len(c) : c[i].length <= k + 1
      BY <2>4
    <2> QED BY <2>3, <2>5, <2>6 DEF c, t
  <1>10. \A k \in 0..n : Good(got[k], k)
    <2> DEFINE S == {k \in 0..n : Good(got[k], k)}
    <2>1. 0 \in S
      <3>1. Good(<<>>, 0)
        BY <1>1 DEF Shorter
      <3> HIDE DEF Good
      <3> QED BY <1>1, <1>8, <3>1
    <2>2. ASSUME NEW m \in 0..(n - 1), m \in S PROVE m + 1 \in S
      <3>1. m + 1 \in 1..n /\ m + 1 \in 0..n /\ (m + 1) - 1 = m /\ m \in Nat
        BY <1>1
      <3> HIDE DEF Good
      <3>2. got[m + 1] = got[m] \o Those(m + 1)
        BY <1>8, <3>1
      <3> QED BY <1>9, <2>2, <3>1, <3>2
    <2> HIDE DEF S
    <2>3. \A k \in 0..n : k \in S
      BY <1>1, <2>1, <2>2, UpTo
    <2> QED BY <2>3 DEF S
  <1> QED BY <1>1, <1>7, <1>10

(* find_xref_signatures: each unique, the shortest first. *)
LEMMA SitesAreGood ==
    ASSUME NEW img, IsImage(img), NEW max \in 1..3, NEW cut \in {0, 2}
    PROVE  LET all == [i \in Addresses(img) |-> i]
               sites == FindXrefSignatures(img, [a \in {1} |-> all], <<1>>, 2, max, cut, 1)[1].signatures
           IN  \A i \in DOMAIN sites : /\ sites[i].unique
                                       /\ SignatureIsShortest(img, sites[i], sites[i].addr, max, TRUE)
                                       /\ i > 1 => sites[i - 1].length <= sites[i].length
  <1> DEFINE n == Len(img.bytes)
             all == [i \in Addresses(img) |-> i]
             sites == FindXrefSignatures(img, [a \in {1} |-> all], <<1>>, 2, max, cut, 1)[1].signatures
             tried == SubSeq(all, 1, Min({Len(all), MaxSites}))
             tries == [i \in DOMAIN tried |-> OneSignature(img, tried[i], max, TRUE, cut)]
             I == {i \in DOMAIN tries : "signature" \in DOMAIN tries[i] /\ tries[i].unique}
             found == Picked(tries, I)
             sorted == ByLength(img, found)
             top == Min({Len(sorted), 2})
             R == {tries[j] : j \in {i \in DOMAIN tries : i \in I}}
  <1>1. /\ n \in Nat /\ Addresses(img) = 1..n /\ Len(all) = n /\ all \in Seq(Nat)
        /\ \A i \in 1..n : all[i] = i /\ i # NoAddr
    BY ImageIs
  <1>2. max \in Nat /\ cut \in Nat /\ SigLimit(max) = max /\ Max({1, 2}) = 2 /\ 1 # NoAddr
    BY MinMaxOfTwo DEF SigLimit, NoAddr
  <1>3. XrefSignatures(img, all, 2, max, cut) =
           [signatures |-> SubSeq(sorted, 1, top), total |-> Len(tried)]
    BY DEF XrefSignatures
  <1>4. sites = SubSeq(sorted, 1, top)
    <2> HIDE DEF all, sorted, top, tried
    <2> DEFINE q == <<1>>
               sitesOf == [a \in {1} |-> all]
               hops == [i \in DOMAIN q |->
                           IF q[i] = NoAddr THEN SigFailed("Unknown address or name")
                           ELSE XrefSignatures(img, sitesOf[q[i]], Max({1, 2}), SigLimit(max), cut)]
    <2>1. DOMAIN q = 1..1 /\ q[1] = 1 /\ 1 \in DOMAIN q /\ sitesOf[1] = all
      OBVIOUS
    <2> HIDE DEF q, sitesOf
    <2>2. hops[1] = XrefSignatures(img, all, 2, max, cut) /\ DOMAIN hops = DOMAIN q
      BY <1>2, <2>1
    <2>3. FindXrefSignatures(img, sitesOf, q, 2, max, cut, 1) = Hops(hops, 1)
      BY DEF FindXrefSignatures
    <2> HIDE DEF hops
    <2>4. Hops(hops, 1)[1] = hops[1]
      BY <2>1, <2>2 DEF Hops
    <2>5. FindXrefSignatures(img, sitesOf, q, 2, max, cut, 1)[1].signatures = SubSeq(sorted, 1, top)
      BY <1>3, <2>2, <2>3, <2>4
    <2> QED BY <2>5 DEF q, sitesOf, sites
  <1> HIDE DEF all, sites
  <1>5. /\ tried \in Seq(Nat) /\ Len(tried) \in Nat /\ DOMAIN tried = 1..Len(tried)
        /\ \A i \in DOMAIN tried : tried[i] \in 1..n
    <2> DEFINE m == Min({Len(all), MaxSites})
    <2>1. m \in 0..n
      <3>1. MaxSites \in Nat /\ MaxSites # 0
        BY SigAssumption
      <3> QED BY <1>1, <3>1, MinMaxOfTwo
    <2> HIDE DEF m
    <2>2. /\ SubSeq(all, 1, m) \in Seq(Nat) /\ Len(SubSeq(all, 1, m)) = m
          /\ \A i \in 1..m : SubSeq(all, 1, m)[i] = all[i] /\ i \in 1..n
      BY <1>1, <2>1, SubSeqProperties
    <2>3. tried = SubSeq(all, 1, m)
      BY DEF m
    <2> HIDE DEF tried
    <2> QED BY <1>1, <2>1, <2>2, <2>3
  <1> HIDE DEF tried
  <1>6. \A i \in DOMAIN tries : tries[i] = Made(img, tried[i], max, TRUE, cut)
    <2> SUFFICES ASSUME NEW i \in DOMAIN tried PROVE OneSignature(img, tried[i], max, TRUE, cut) = Made(img, tried[i], max, TRUE, cut)
      OBVIOUS
    <2>1. tried[i] # NoAddr
      BY <1>1, <1>5
    <2> QED BY <2>1 DEF OneSignature, Made
  <1> DEFINE T == {tries[i] : i \in DOMAIN tried}
  <1>7. tries \in Seq(T) /\ DOMAIN tries = DOMAIN tried
    <2>1. DOMAIN tries = 1..Len(tried) /\ tries = [i \in 1..Len(tried) |-> tries[i]]
      BY <1>5
    <2> HIDE DEF tries
    <2>2. tries \in [1..Len(tried) -> T]
      BY <1>5, <2>1
    <2> HIDE DEF T
    <2> QED BY <1>5, <2>1, <2>2
  <1> HIDE DEF T
  <1> HIDE DEF tries
  <1>8. \A r \in R : r.length \in Nat /\ r.unique /\ SignatureIsShortest(img, r, r.addr, max, TRUE)
    <2> SUFFICES ASSUME NEW j \in DOMAIN tries, "signature" \in DOMAIN tries[j], tries[j].unique
                 PROVE  /\ tries[j].length \in Nat
                        /\ SignatureIsShortest(img, tries[j], tries[j].addr, max, TRUE)
      OBVIOUS
    <2>1. tried[j] \in Addresses(img) /\ tries[j] = Made(img, tried[j], max, TRUE, cut)
      BY <1>1, <1>5, <1>6, <1>7
    <2>2. GoodSig(img, tries[j], tried[j], max, TRUE)
      BY <1>2, <2>1, MadeIsGood
    <2>3. /\ SignatureIsShortest(img, tries[j], tried[j], max, TRUE)
          /\ tries[j].addr = tried[j] /\ tries[j].length \in 1..n
      BY <2>2, Zenon DEF GoodSig
    <2>4. tries[j].length \in Nat
      BY <1>1, <2>3
    <2> QED BY <2>3, <2>4, Zenon
  <1>9. found \in Seq(R)
    <2> HIDE DEF I
    <2> QED BY <1>7, PickedFrom
  <1> HIDE DEF found, R, I
  <1>10. sorted \in Seq(R) /\ Shorter(sorted)
    BY <1>8, <1>9, ByLengthIs
  <1> HIDE DEF sorted
  <1>11. top \in Nat /\ top <= Len(sorted) /\ Len(sorted) \in Nat
    BY <1>10, MinMaxOfTwo
  <1> HIDE DEF top
  <1>12. /\ DOMAIN sites = 1..top
         /\ \A i \in 1..top : sites[i] = sorted[i] /\ i \in 1..Len(sorted)
    <2>1. /\ SubSeq(sorted, 1, top) \in Seq(R) /\ Len(SubSeq(sorted, 1, top)) = top
          /\ \A i \in 1..top : SubSeq(sorted, 1, top)[i] = sorted[i]
      BY <1>10, <1>11, SubSeqProperties
    <2> QED BY <1>4, <1>11, <2>1
  <1>13. ASSUME NEW i \in DOMAIN sites
         PROVE  /\ sites[i].unique
                /\ SignatureIsShortest(img, sites[i], sites[i].addr, max, TRUE)
                /\ i > 1 => sites[i - 1].length <= sites[i].length
    <2>1. sites[i] = sorted[i] /\ sorted[i] \in R
      BY <1>10, <1>12, <1>13
    <2>2. ASSUME i > 1 PROVE sites[i - 1].length <= sites[i].length
      <3>1. i - 1 \in 1..top /\ i - 1 <= i /\ i \in 1..top
        BY <1>11, <1>12, <2>2
      <3>2. sites[i - 1] = sorted[i - 1] /\ i - 1 \in 1..Len(sorted) /\ i \in 1..Len(sorted)
        BY <1>12, <3>1
      <3> QED BY <1>10, <2>1, <3>1, <3>2 DEF Shorter
    <2> QED BY <1>8, <2>1, <2>2
  <1> QED BY <1>13, Zenon DEF sites, all

LEMMA EncodeGoesOn ==
    ASSUME NEW img, IsImage(img), NEW start \in Addresses(img), NEW end \in Addresses(img), NEW wildcards,
           NEW sig \in Seq(Pat)
    PROVE  /\ Encode(img, sig, start, end, wildcards) \in Seq(Pat)
           /\ \A k \in 0..(end - start - 1) : PartOf(img, sig, start, end - start, k) =>
                 PartOf(img, Encode(img, sig, start, end, wildcards), start, end - start, k + 1)
  <1> DEFINE n == Len(img.bytes)
             ea == start + Len(sig)
             piece == InsnSig(img, ea, wildcards)
             byte == IF ea \in Addresses(img) THEN img.bytes[ea] ELSE 0
             m == Min({Len(piece), end - ea})
             c == Encode(img, sig, start, end, wildcards)
  <1>1. /\ n \in Nat /\ Addresses(img) = 1..n /\ start \in 1..n /\ end \in 1..n /\ start \in Nat
        /\ \A x \in Addresses(img) : img.bytes[x] \in Nat
    BY ImageIs
  <1>2. Len(sig) \in Nat /\ ea \in Nat /\ byte \in Nat /\ byte \in Pat
    BY <1>1 DEF Pat
  <1>3. piece \in Seq(Pat) /\ SigMatches(img, piece, ea) /\ Len(piece) \in Nat
    BY <1>2, InsnIs
  <1>4. c = CASE ea >= end -> sig
              [] ea < end /\ piece = <<>> -> Append(sig, byte)
              [] OTHER -> sig \o SubSeq(piece, 1, m)
    BY DEF Encode
  <1> HIDE DEF c, piece, byte, n
  <1> SUFFICES /\ c \in Seq(Pat)
               /\ \A k \in 0..(end - start - 1) : PartOf(img, sig, start, end - start, k) =>
                     PartOf(img, c, start, end - start, k + 1)
    BY DEF c
  <1>5. CASE ea >= end
    <2>1. c = sig
      BY <1>2, <1>1, <1>4, <1>5
    <2>2. \A k \in 0..(end - start - 1) : PartOf(img, sig, start, end - start, k) =>
             PartOf(img, sig, start, end - start, k + 1)
      BY <1>1, <1>2, <1>5 DEF PartOf
    <2> QED BY <2>1, <2>2
  <1>6. CASE ea < end /\ piece = <<>>
    <2>1. c = sig \o <<byte>>
      <3>1. c = Append(sig, byte)
        BY <1>1, <1>2, <1>4, <1>6
      <3> QED BY <3>1, <1>2, AppendIsConcat
    <2>2. <<byte>> \in Seq(Pat) /\ Len(<<byte>>) = 1 /\ DOMAIN <<byte>> = 1..1 /\ <<byte>>[1] = byte
      BY <1>2
    <2>3. SigMatches(img, <<byte>>, ea)
      <3>1. ea \in Addresses(img) /\ byte = img.bytes[ea]
        BY <1>1, <1>2, <1>6 DEF byte
      <3>2. ASSUME NEW i \in DOMAIN <<byte>>
            PROVE  ea + i - 1 \in Addresses(img) /\ <<byte>>[i] \in {Wild, img.bytes[ea + i - 1]}
        <4>1. i = 1 /\ ea + i - 1 = ea /\ <<byte>>[i] = byte
          BY <1>2, <2>2
        <4> QED BY <3>1, <4>1
      <3> QED BY <3>2 DEF SigMatches
    <2> DEFINE b == <<byte>>
    <2> HIDE DEF b
    <2>4. b \in Seq(Pat) /\ Len(b) = 1 /\ SigMatches(img, b, ea) /\ c = sig \o b
      BY <2>1, <2>2, <2>3 DEF b
    <2>5. c \in Seq(Pat)
      BY <2>4, ConcatProperties
    <2>6. ASSUME NEW k \in 0..(end - start - 1), PartOf(img, sig, start, end - start, k)
          PROVE  PartOf(img, c, start, end - start, k + 1)
      <3>1. SigMatches(img, sig, start) /\ Len(sig) >= k
        BY <2>6 DEF PartOf
      <3>a. Len(sig \o b) = Len(sig) + Len(b) /\ SigMatches(img, sig \o b, start)
        <4>1. start \in Nat /\ b \in Seq(Pat) /\ SigMatches(img, b, start + Len(sig))
          BY <1>1, <2>4
        <4> HIDE DEF ea
        <4> QED BY <4>1, <3>1, LongerMatches, SMTT(20)
      <3>2. Len(c) = Len(sig) + 1 /\ SigMatches(img, c, start)
        BY <2>4, <3>a
      <3> QED BY <1>1, <1>2, <1>6, <2>5, <3>1, <3>2 DEF PartOf
    <2> QED BY <2>5, <2>6
  <1>7. CASE ea < end /\ piece # <<>>
    <2> DEFINE b == SubSeq(piece, 1, m)
    <2>1. c = sig \o b
      <3> HIDE DEF b, ea
      <3>1. ~ (ea >= end)
        BY <1>1, <1>2, <1>7
      <3> QED BY <1>4, <1>7, <3>1 DEF b
    <2>2. m \in 1..Len(piece) /\ m <= end - ea
      <3>1. Len(piece) # 0 /\ end - ea \in Nat /\ end - ea # 0
        BY <1>1, <1>2, <1>3, <1>7
      <3> QED BY <1>3, <3>1, MinMaxOfTwo
    <2> HIDE DEF m
    <2>3. /\ b \in Seq(Pat) /\ Len(b) = m /\ \A i \in 1..m : b[i] = piece[i] /\ i \in 1..Len(piece)
      <3>1. \A i \in 1..m : piece[i] \in Pat
        BY <1>3, <2>2
      <3> QED BY <1>3, <2>2, <3>1, SubSeqProperties
    <2> HIDE DEF b
    <2>4. SigMatches(img, b, ea)
      <3>1. ASSUME NEW i \in DOMAIN b
            PROVE  ea + i - 1 \in Addresses(img) /\ b[i] \in {Wild, img.bytes[ea + i - 1]}
        <4>1. i \in DOMAIN piece /\ b[i] = piece[i]
          BY <1>3, <2>3
        <4> QED BY <1>3, <4>1 DEF SigMatches
      <3> QED BY <3>1 DEF SigMatches
    <2>5. c \in Seq(Pat)
      BY <2>1, <2>3, ConcatProperties
    <2>6. ASSUME NEW k \in 0..(end - start - 1), PartOf(img, sig, start, end - start, k)
          PROVE  PartOf(img, c, start, end - start, k + 1)
      <3>1. SigMatches(img, sig, start) /\ Len(sig) >= k
        BY <2>6 DEF PartOf
      <3>a. Len(sig \o b) = Len(sig) + Len(b) /\ SigMatches(img, sig \o b, start)
        <4>1. start \in Nat /\ b \in Seq(Pat) /\ SigMatches(img, b, start + Len(sig))
          BY <1>1, <2>3, <2>4
        <4> HIDE DEF ea
        <4> QED BY <4>1, <3>1, LongerMatches, SMTT(20)
      <3>2. Len(c) = Len(sig) + m /\ SigMatches(img, c, start)
        BY <2>1, <2>3, <3>a
      <3> QED BY <1>1, <1>2, <1>3, <1>7, <2>2, <2>5, <3>1, <3>2 DEF PartOf
    <2> QED BY <2>5, <2>6
  <1> QED BY <1>1, <1>2, <1>5, <1>6, <1>7

(* make_signature_for_range encodes the whole range, byte by byte. *)
LEMMA EncodedIs ==
    ASSUME NEW img, IsImage(img), NEW start \in Addresses(img), NEW end \in Addresses(img), NEW wildcards,
           start < end
    PROVE  PartOf(img, Encoded(img, start, end, wildcards)[end - start], start, end - start, end - start)
  <1> DEFINE n == end - start
             A == Seq(Pat)
             Next1(sig) == Encode(img, sig, start, end, wildcards)
             F == [p \in A \X (1..n) |-> Next1(p[1])]
             Rec(g) == EncodeRec(img, start, end, wildcards, g)
             got == Encoded(img, start, end, wildcards)
  <1>1. n \in Nat /\ <<>> \in A
    BY ImageIs
  <1>2. \A sig \in A : Next1(sig) \in A
    BY EncodeGoesOn
  <1>3. F \in [A \X (1..n) -> A]
    <2> HIDE DEF Next1, n, A
    <2> QED BY <1>2
  <1>4. PICK f : Solves(f, A, <<>>, n, F)
    <2> HIDE DEF F, n, A
    <2> QED BY <1>1, <1>3, RecursionExists, Zenon
  <1>5. /\ f \in [0..n -> A] /\ f[0] = <<>>
        /\ \A k \in 1..n : f[k] = Next1(f[k - 1])
    <2> HIDE DEF n, A, Next1
    <2>1. f \in [0..n -> A] /\ f[0] = <<>>
      BY <1>4 DEF Solves
    <2>2. ASSUME NEW k \in 1..n PROVE f[k] = Next1(f[k - 1])
      <3>1. k - 1 \in 0..n
        BY <1>1
      <3>2. <<f[k - 1], k>> \in A \X (1..n)
        BY <3>1, <2>1
      <3>3. f[k] = F[<<f[k - 1], k>>]
        BY <1>4 DEF Solves
      <3> QED BY <3>2, <3>3
    <2> QED BY <2>1, <2>2
  <1>6. Rec(f)
    <2>1. \A i \in 0..n : i # 0 => i \in 1..n
      BY <1>1
    <2>2. f = [k \in 0..n |-> IF k = 0 THEN <<>> ELSE Next1(f[k - 1])]
      <3> HIDE DEF n, F, A, Next1
      <3> QED BY <1>5, <2>1
    <2> QED BY <2>2 DEF EncodeRec
  <1>7. Rec(got)
    <2>1. got = CHOOSE g : Rec(g)
      BY DEF Encoded, EncodeRec, Encode
    <2> HIDE DEF Rec, got
    <2> QED BY <1>6, <2>1
  <1> HIDE DEF got
  <1>8. /\ got[0] = <<>>
        /\ \A k \in 1..n : got[k] = Next1(got[k - 1])
    <2>1. 0 \in 0..n /\ \A k \in 1..n : k \in 0..n /\ k # 0
      BY <1>1
    <2>2. got = [k \in 0..n |-> IF k = 0 THEN <<>> ELSE Next1(got[k - 1])]
      BY <1>7 DEF EncodeRec
    <2> HIDE DEF n, Next1
    <2> QED BY <2>1, <2>2
  <1> DEFINE S == {k \in 0..n : PartOf(img, got[k], start, n, k)}
  <1>9. 0 \in S
    <2>1. PartOf(img, <<>>, start, n, 0)
      <3>1. SigMatches(img, <<>>, start)
        BY DEF SigMatches
      <3> HIDE DEF n
      <3> QED BY <1>1, <3>1 DEF PartOf
    <2> HIDE DEF n
    <2> QED BY <1>1, <1>8, <2>1
  <1>10. ASSUME NEW m \in 0..(n - 1), m \in S PROVE m + 1 \in S
    <2>1. m + 1 \in 1..n /\ m + 1 \in 0..n /\ (m + 1) - 1 = m /\ m \in 0..(end - start - 1)
      BY <1>1
    <2>2. PartOf(img, got[m], start, n, m)
      BY <1>10
    <2>3. got[m] \in Seq(Pat)
      BY <2>2 DEF PartOf
    <2>4. PartOf(img, Next1(got[m]), start, n, m + 1)
      BY <2>1, <2>2, <2>3, EncodeGoesOn
    <2>5. got[m + 1] = Next1(got[m])
      <3> HIDE DEF Next1, n
      <3> QED BY <1>8, <2>1
    <2> HIDE DEF n, Next1
    <2> QED BY <2>1, <2>4, <2>5
  <1> HIDE DEF S, n
  <1>11. \A k \in 0..n : k \in S
    BY <1>1, <1>9, <1>10, UpTo
  <1>12. n \in S
    BY <1>1, <1>11
  <1>13. PartOf(img, got[n], start, n, n)
    BY <1>12 DEF S
  <1> QED BY <1>13 DEF got, n

LEMMA RangesAreGood ==
    ASSUME NEW img, IsImage(img), NEW wildcards, NEW end \in Addresses(img)
    PROVE  LET r == MakeSignatureForRange(img, 1, end, wildcards)
           IN  "signature" \in DOMAIN r =>
                 /\ r.length = end - 1 /\ SigMatches(img, r.signature, 1)
                 /\ UniquenessIsTold(img, r.signature, 1, r.unique, 0)
  <1> DEFINE sig == Encoded(img, 1, end, wildcards)[end - 1]
             made == [sig |-> sig, unique |-> IsUnique(img, sig, 1, 0), note |-> "none"]
             r == MakeSignatureForRange(img, 1, end, wildcards)
  <1> SUFFICES ASSUME "signature" \in DOMAIN r
               PROVE  /\ r.length = end - 1 /\ SigMatches(img, r.signature, 1)
                      /\ UniquenessIsTold(img, r.signature, 1, r.unique, 0)
    OBVIOUS
  <1>1. r = IF NoAddr \in {1, end} THEN SigFailed("Unknown address or name")
            ELSE IF end <= 1 \/ end - 1 > MaxRange THEN SigFailed("Invalid range")
            ELSE Rendered(made, 1)
    BY DEF MakeSignatureForRange
  <1> HIDE DEF r
  <1>2. end \in Nat /\ end >= 1 /\ 1 \in Addresses(img)
    BY ImageIs
  <1>3. r = Rendered(made, 1) /\ 1 < end
    <2> HIDE DEF made
    <2>1. \A why : r # SigFailed(why)
      BY FailedHasNone
    <2>2. ~ (NoAddr \in {1, end}) /\ ~ (end <= 1 \/ end - 1 > MaxRange)
      BY <1>1, <2>1
    <2>3. r = Rendered(made, 1)
      BY <1>1, <2>2
    <2> QED BY <1>2, <2>2, <2>3
  <1>4. sig \in Seq(Pat) /\ SigMatches(img, sig, 1) /\ Len(sig) = end - 1
    <2>1. PartOf(img, sig, 1, end - 1, end - 1)
      BY <1>2, <1>3, EncodedIs
    <2> HIDE DEF sig
    <2>2. sig \in Seq(Pat) /\ SigMatches(img, sig, 1) /\ Len(sig) <= end - 1 /\ Len(sig) >= end - 1
      BY <2>1 DEF PartOf
    <2> QED BY <1>2, <2>2
  <1> HIDE DEF sig
  <1>5. made.sig = sig /\ sig # <<>> /\ made.unique = IsUnique(img, sig, 1, 0)
    BY <1>2, <1>3, <1>4
  <1> HIDE DEF made
  <1>6. r.signature = sig /\ r.length = Len(sig) /\ r.unique = made.unique
    BY <1>3, <1>5, RenderedIs
  <1>7. UniquenessIsTold(img, sig, 1, IsUnique(img, sig, 1, 0), 0)
    BY <1>2, <1>4, UniqueIs
  <1> QED BY <1>4, <1>5, <1>6, <1>7

(* The signature tools keep their word for every image. *)
LEMMA SignaturesAre == ASSUME NEW img, IsImage(img) PROVE SignaturesAreShortest(img)
  <1> SUFFICES ASSUME NEW max \in 1..3, NEW wildcards \in BOOLEAN, NEW cut \in {0, 2}
               PROVE  LET all == [i \in Addresses(img) |-> i]
            one == MakeSignature(img, all, max, wildcards, cut, Len(all))
            fun == MakeSignatureForFunction(img, {1, 3}, all, max, wildcards, cut, Len(all) - 1)
            sites == FindXrefSignatures(img, [a \in {1} |-> all], <<1>>, 2, max, cut, 1)[1].signatures
            Good(r) == "signature" \in DOMAIN r => SignatureIsShortest(img, r, r.addr, max, wildcards)
        IN  /\ \A i \in Addresses(img) : Good(one[i]) /\ Good(fun[i])
            /\ \A i \in Addresses(img) : "signature" \in DOMAIN fun[i] =>
                  fun[i] = one[IF i >= 3 THEN 3 ELSE 1]
            /\ \A i \in DOMAIN sites : /\ sites[i].unique
                                      /\ SignatureIsShortest(img, sites[i], sites[i].addr, max, TRUE)
                                      /\ i > 1 => sites[i - 1].length <= sites[i].length
            /\ \A end \in Addresses(img) :
                  LET r == MakeSignatureForRange(img, 1, end, wildcards)
                  IN  "signature" \in DOMAIN r =>
                        /\ r.length = end - 1 /\ SigMatches(img, r.signature, 1)
                        /\ UniquenessIsTold(img, r.signature, 1, r.unique, 0)
    BY Zenon DEF SignaturesAreShortest
  <1> DEFINE all == [i \in Addresses(img) |-> i]
             one == MakeSignature(img, all, max, wildcards, cut, Len(all))
             fun == MakeSignatureForFunction(img, {1, 3}, all, max, wildcards, cut, Len(all) - 1)
             sites == FindXrefSignatures(img, [a \in {1} |-> all], <<1>>, 2, max, cut, 1)[1].signatures
             Good(r) == "signature" \in DOMAIN r => SignatureIsShortest(img, r, r.addr, max, wildcards)
  <1>1. /\ \A i \in Addresses(img) : Good(one[i]) /\ Good(fun[i])
        /\ \A i \in Addresses(img) : "signature" \in DOMAIN fun[i] =>
              fun[i] = one[IF i >= 3 THEN 3 ELSE 1]
    BY SinglesAreGood, Zenon
  <1>2. \A i \in DOMAIN sites : /\ sites[i].unique
                                 /\ SignatureIsShortest(img, sites[i], sites[i].addr, max, TRUE)
                                 /\ i > 1 => sites[i - 1].length <= sites[i].length
    BY SitesAreGood, Zenon
  <1>3. \A end \in Addresses(img) :
           LET r == MakeSignatureForRange(img, 1, end, wildcards)
           IN  "signature" \in DOMAIN r =>
                 /\ r.length = end - 1 /\ SigMatches(img, r.signature, 1)
                 /\ UniquenessIsTold(img, r.signature, 1, r.unique, 0)
    BY RangesAreGood, Zenon
  <1> QED BY <1>1, <1>2, <1>3, Zenon

(* Whatever image the signature maker reads and whatever pattern a client   *)
(* sends.                                                                   *)
LEMMA PatternsAreSound == PatternAsked => PatternsSound
  BY SignaturesAre, GuardIsExact DEF PatternAsked, PatternsSound

THEOREM PatternsSoundAlways == []PatternAsked => []PatternsSound
  BY PatternsAreSound, PTL

-----------------------------------------------------------------------------
(* A function over 0..N that goes on by F from `base` as long as it is in A *)
(* is in A.                                                                 *)
LEMMA SolvesWhile ==
    ASSUME NEW A, NEW base \in A, NEW N \in Nat, NEW F \in [A \X (1..N) -> A],
           NEW g, g = [i \in 0..N |-> g[i]], g[0] = base,
           \A k \in 1..N : g[k - 1] \in A => g[k] = F[<<g[k - 1], k>>]
    PROVE  Solves(g, A, base, N, F)
  <1> DEFINE S == {k \in 0..N : g[k] \in A}
  <1>1. 0 \in S
    OBVIOUS
  <1>2. ASSUME NEW k \in 0..(N - 1), k \in S PROVE k + 1 \in S
    <2>1. k + 1 \in 1..N /\ k + 1 \in 0..N /\ (k + 1) - 1 = k /\ g[k] \in A
      BY <1>2
    <2>2. g[k + 1] = F[<<g[k], k + 1>>] /\ <<g[k], k + 1>> \in A \X (1..N)
      BY <2>1
    <2>3. g[k + 1] \in A
      BY <2>2
    <2> QED BY <2>1, <2>3
  <1> HIDE DEF S
  <1>3. \A k \in 0..N : k \in S
    BY <1>1, <1>2, UpTo
  <1>4. \A k \in 0..N : g[k] \in A
    BY <1>3 DEF S
  <1>5. \A k \in 1..N : k - 1 \in 0..N
    OBVIOUS
  <1> QED BY <1>4, <1>5 DEF Solves

-----------------------------------------------------------------------------
(* The recursion of Within, up to one of its places. *)
LEMMA WithinRec ==
    ASSUME NEW fns, NEW near \in [fns -> SUBSET fns], NEW start \in fns, NEW N \in Nat
    PROVE  \E b : BallTo(b, near, fns, start, N) /\ Within(near, start, N) = b[N]
  <1> DEFINE A == SUBSET fns
             F == [p \in A \X (1..N) |-> p[1] \union UNION {near[f] : f \in p[1]}]
             Rec(g) == g = [n \in 0..N |->
                               IF n = 0 THEN {start} ELSE g[n - 1] \union UNION {near[f] : f \in g[n - 1]}]
             ball == CHOOSE g : Rec(g)
  <1>1. {start} \in A /\ F \in [A \X (1..N) -> A]
    OBVIOUS
  <1>2. PICK f : Solves(f, A, {start}, N, F)
    <2> HIDE DEF F, A
    <2> QED BY <1>1, RecursionExists, Zenon
  <1>3. ASSUME NEW k \in 1..N PROVE f[k] = f[k - 1] \union UNION {near[x] : x \in f[k - 1]}
    <2>1. k - 1 \in 0..N
      OBVIOUS
    <2>2. <<f[k - 1], k>> \in A \X (1..N) /\ f[k] = F[<<f[k - 1], k>>]
      <3> HIDE DEF F, A
      <3> QED BY <1>2, <2>1 DEF Solves
    <2> HIDE DEF A
    <2> QED BY <2>2
  <1>4. f \in [0..N -> A] /\ f[0] = {start}
    BY <1>2 DEF Solves
  <1>5. Rec(f)
    <2>1. \A i \in 0..N : i # 0 => i \in 1..N
      OBVIOUS
    <2> HIDE DEF F, A
    <2> QED BY <1>3, <1>4, <2>1
  <1>6. Rec(ball) /\ Within(near, start, N) = ball[N]
    <2>1. Within(near, start, N) = ball[N]
      BY DEF Within
    <2>2. Rec(ball)
      <3> HIDE DEF Rec
      <3> QED BY <1>5
    <2> QED BY <2>1, <2>2
  <1> HIDE DEF ball
  <1>7. /\ ball = [i \in 0..N |-> ball[i]] /\ ball[0] = {start}
        /\ \A k \in 1..N : ball[k] = ball[k - 1] \union UNION {near[x] : x \in ball[k - 1]}
    <2>1. 0 \in 0..N /\ \A k \in 1..N : k \in 0..N /\ k # 0
      OBVIOUS
    <2> QED BY <1>6, <2>1
  <1>8. \A k \in 1..N : ball[k - 1] \in A => ball[k] = F[<<ball[k - 1], k>>]
    <2> SUFFICES ASSUME NEW k \in 1..N, ball[k - 1] \in A PROVE ball[k] = F[<<ball[k - 1], k>>]
      OBVIOUS
    <2>1. <<ball[k - 1], k>> \in A \X (1..N)
      OBVIOUS
    <2> HIDE DEF A
    <2> QED BY <2>1, <1>7
  <1>9. Solves(ball, A, {start}, N, F)
    <2> HIDE DEF F, A
    <2> QED BY <1>1, <1>7, <1>8, SolvesWhile
  <1>10. ball \in [0..N -> SUBSET fns]
    BY <1>9 DEF Solves
  <1> QED BY <1>6, <1>7, <1>10 DEF BallTo

(* Balls of any radius: each is the one before and what lies next to it.   *)
LEMMA WithinIs ==
    ASSUME NEW fns, NEW near \in [fns -> SUBSET fns], NEW start \in fns
    PROVE  BallsOf(Balls(near, start), near, fns, start)
  <1> DEFINE W(k) == Within(near, start, k)
  <1>1. ASSUME NEW N \in Nat
        PROVE  /\ W(N) \in SUBSET fns
               /\ N = 0 => W(N) = {start}
    <2>1. PICK b : BallTo(b, near, fns, start, N) /\ Within(near, start, N) = b[N]
      BY WithinRec
    <2> QED BY <2>1 DEF BallTo
  <1>2. ASSUME NEW N \in Nat PROVE W(N + 1) = W(N) \union UNION {near[f] : f \in W(N)}
    <2>a. PICK b : BallTo(b, near, fns, start, N) /\ Within(near, start, N) = b[N]
      BY WithinRec
    <2>b. PICK c : BallTo(c, near, fns, start, N + 1) /\ Within(near, start, N + 1) = c[N + 1]
      <3>1. N + 1 \in Nat
        OBVIOUS
      <3> QED BY <3>1, WithinRec, Zenon
    <2>1. /\ W(N) = b[N] /\ b[0] = {start}
          /\ \A k \in 1..N : b[k] = b[k - 1] \union UNION {near[f] : f \in b[k - 1]}
      BY <2>a DEF BallTo
    <2>2. /\ W(N + 1) = c[N + 1] /\ c[0] = {start}
          /\ \A k \in 1..(N + 1) : c[k] = c[k - 1] \union UNION {near[f] : f \in c[k - 1]}
      BY <2>b DEF BallTo
    <2> HIDE DEF W
    <2> DEFINE S == {k \in 0..N : b[k] = c[k]}
    <2>3. 0 \in S
      <3>1. b[0] = c[0] /\ 0 \in 0..N
        BY <2>1, <2>2
      <3> QED BY <3>1
    <2>4. ASSUME NEW k \in 0..(N - 1), k \in S PROVE k + 1 \in S
      <3>1. k + 1 \in 1..N /\ k + 1 \in 1..(N + 1) /\ k + 1 \in 0..N /\ (k + 1) - 1 = k /\ b[k] = c[k]
        BY <2>4
      <3>2. b[k + 1] = b[k] \union UNION {near[f] : f \in b[k]}
        BY <3>1, <2>1
      <3>3. c[k + 1] = c[k] \union UNION {near[f] : f \in c[k]}
        BY <3>1, <2>2
      <3> QED BY <3>1, <3>2, <3>3
    <2> HIDE DEF S
    <2>5. N \in S
      <3>1. \A k \in 0..N : k \in S
        BY <2>3, <2>4, UpTo
      <3> QED BY <3>1
    <2>6. b[N] = c[N] /\ N + 1 \in 1..(N + 1) /\ (N + 1) - 1 = N
      BY <2>5 DEF S
    <2> QED BY <2>1, <2>2, <2>6
  <1> HIDE DEF W
  <1>3. \A k \in Nat : Balls(near, start)[k] = W(k)
    BY DEF Balls, W
  <1>4. Balls(near, start) = [k \in Nat |-> W(k)]
    BY DEF Balls, W
  <1> QED BY <1>1, <1>2, <1>3, <1>4 DEF BallsOf

(* More steps reach more. *)
LEMMA BallsGrow ==
    ASSUME NEW ball, NEW near, NEW fns, NEW start, BallsOf(ball, near, fns, start), NEW j \in Nat, NEW k \in Nat, j <= k
    PROVE  ball[j] \subseteq ball[k]
  <1> DEFINE S == {i \in 0..(k - j) : ball[j] \subseteq ball[j + i]}
  <1>1. k - j \in Nat /\ j + (k - j) = k
    OBVIOUS
  <1>2. 0 \in S
    OBVIOUS
  <1>3. ASSUME NEW i \in 0..((k - j) - 1), i \in S PROVE i + 1 \in S
    <2>1. i + 1 \in 0..(k - j) /\ j + i \in Nat /\ (j + i) + 1 = j + (i + 1) /\ ball[j] \subseteq ball[j + i]
      BY <1>3
    <2>2. ball[j + i] \subseteq ball[(j + i) + 1]
      BY <2>1 DEF BallsOf
    <2> QED BY <2>1, <2>2
  <1> HIDE DEF S
  <1>4. k - j \in S
    <2>1. \A i \in 0..(k - j) : i \in S
      BY <1>1, <1>2, <1>3, UpTo
    <2> QED BY <1>1, <2>1
  <1> QED BY <1>1, <1>4 DEF S

(* Whatever lies within K steps was visited when all that is nearer was     *)
(* looked at.                                                               *)
LEMMA NearIsVisited ==
    ASSUME NEW fns, NEW near, NEW start, NEW ball, NEW D, Setting(fns, near, start, ball, D),
           NEW F, NEW E, NEW h, NEW V, NEW c, Lists(F, E, h, fns, V, c, start, ball, D),
           NEW m \in 0..h, Closed(F, E, V, near, D, m),
           NEW K \in 0..D, \A j \in 1..h : E[j] < K => j <= m
    PROVE  ball[K] \subseteq V
  <1> DEFINE S == {k \in 0..K : ball[k] \subseteq V}
  <1>1. /\ h \in Nat /\ D \in Nat /\ BallsOf(ball, near, fns, start)
        /\ \A i \in 1..h : F[i] \in fns /\ E[i] \in Nat
        /\ V = {F[i] : i \in 1..h} /\ start \in V
    BY DEF Setting, Lists
  <1>2. 0 \in S
    BY <1>1 DEF BallsOf
  <1>3. ASSUME NEW k \in 0..(K - 1), k \in S PROVE k + 1 \in S
    <2>1. k \in Nat /\ k + 1 \in 0..K /\ ball[k] \subseteq V /\ k < K
      BY <1>3
    <2>2. ball[k + 1] = ball[k] \union UNION {near[f] : f \in ball[k]}
      BY <1>1, <2>1 DEF BallsOf
    <2>3. ASSUME NEW f \in ball[k] PROVE near[f] \subseteq V
      <3>1. PICK j \in 1..h : f = F[j]
        BY <1>1, <2>1
      <3>2. E[j] \in Nat
        BY <1>1
      <3>3. E[j] <= k
        <4> SUFFICES ASSUME E[j] > k PROVE FALSE
          BY <2>1, <3>2
        <4>1. E[j] - 1 \in Nat /\ k <= E[j] - 1 /\ E[j] > 0
          BY <2>1, <3>2
        <4>2. ball[k] \subseteq ball[E[j] - 1]
          BY <1>1, <2>1, <4>1, BallsGrow
        <4>3. F[j] \notin ball[E[j] - 1]
          BY <4>1 DEF Lists, Distances
        <4> QED BY <3>1, <4>2, <4>3
      <3>4. j \in 1..m /\ E[j] < D
        BY <1>1, <2>1, <3>2, <3>3
      <3> QED BY <3>1, <3>4 DEF Closed
    <2> QED BY <2>1, <2>2, <2>3
  <1> HIDE DEF S
  <1>4. K \in S
    <2>1. \A k \in 0..K : k \in S
      <3>1. K \in Nat
        BY <1>1
      <3> QED BY <1>2, <1>3, <3>1, UpTo
    <2>2. K \in 0..K
      BY <1>1
    <2> QED BY <2>1, <2>2
  <1> QED BY <1>4 DEF S

LEMMA OneMore ==
    ASSUME NEW fns, NEW near, NEW start, NEW ball, NEW D, Setting(fns, near, start, ball, D),
           NEW F, NEW E, NEW h, NEW V, NEW c, Lists(F, E, h, fns, V, c, start, ball, D),
           Closed(F, E, V, near, D, c - 1),
           NEW g, NEW F1, NEW E1, Adds(fns, near, D, F, E, h, V, c, g, F1, E1)
    PROVE  /\ Lists(F1, E1, h + 1, fns, V \union {g}, c, start, ball, D)
           /\ Closed(F1, E1, V \union {g}, near, D, c - 1)
  <1> USE DEF Adds
  <1> DEFINE d == E[c]
  <1>1. /\ h \in Nat /\ c \in 1..h /\ c - 1 \in 0..h /\ D \in Nat /\ BallsOf(ball, near, fns, start)
        /\ \A i \in 1..h : F[i] \in fns /\ E[i] \in Nat /\ E[i] <= d + 1
        /\ V = {F[i] : i \in 1..h} /\ start \in V /\ d \in Nat /\ d \in 0..D
        /\ Distances(F, E, h, ball, D) /\ d + 1 <= D
    BY DEF Setting, Lists
  <1> HIDE DEF d
  <1>2. ball[d] \subseteq V
    <2>1. ASSUME NEW j \in 1..h, E[j] < d PROVE j <= c - 1
      <3>1. ~ (c < j)
        BY <1>1, <2>1 DEF Distances, d
      <3>2. c # j
        BY <1>1, <2>1 DEF d
      <3> QED BY <1>1, <3>1, <3>2, SMTT(30)
    <2>2. \A j \in 1..h : E[j] < d => j <= c - 1
      BY <2>1
    <2>3. d \in 0..D /\ c - 1 \in 0..h
      BY <1>1
    <2> QED BY <2>2, <2>3, NearIsVisited, SMT
  <1>3. g \in ball[d + 1] /\ g \notin ball[d]
    <2>1. F[c] \in ball[d]
      BY <1>1 DEF Distances, d
    <2>2. ball[d + 1] = ball[d] \union UNION {near[x] : x \in ball[d]}
      BY <1>1 DEF BallsOf
    <2>3. g \in UNION {near[x] : x \in ball[d]}
      BY <2>1
    <2>4. g \in ball[d] \union UNION {near[x] : x \in ball[d]}
      BY <2>3
    <2>5. g \in ball[d + 1]
      BY <2>2, <2>4, Zenon
    <2> QED BY <1>2, <2>5
  <1>4. \A i \in 1..(h + 1) : i \in 1..h \/ i = h + 1
    <2>1. h \in Nat
      BY <1>1
    <2> QED BY <2>1
  <1>5. Distances(F1, E1, h + 1, ball, D)
    <2>1. ASSUME NEW i \in 1..(h + 1), NEW j \in 1..(h + 1), i < j
          PROVE  F1[i] # F1[j] /\ E1[i] <= E1[j]
      <3>1. i \in 1..h
        BY <1>1, <2>1
      <3>2. CASE j = h + 1
        <4>1. F1[i] = F[i] /\ F1[j] = g /\ E1[i] = E[i] /\ E1[j] = d + 1
          BY <3>1, <3>2 DEF d
        <4>2. F[i] \in V /\ E[i] <= d + 1
          BY <1>1, <3>1
        <4> QED BY <4>1, <4>2
      <3>3. CASE j \in 1..h
        BY <1>1, <2>1, <3>1, <3>3 DEF Distances
      <3> QED BY <1>4, <3>2, <3>3
    <2>2. ASSUME NEW i \in 1..(h + 1)
          PROVE  /\ E1[i] <= D /\ F1[i] \in ball[E1[i]]
                 /\ E1[i] > 0 => F1[i] \notin ball[E1[i] - 1]
      <3>1. CASE i = h + 1
        <4>1. E1[i] = d + 1 /\ F1[i] = g /\ (d + 1) - 1 = d
          BY <1>1, <3>1 DEF d
        <4> QED BY <1>1, <1>3, <4>1
      <3>2. CASE i \in 1..h
        BY <1>1, <3>2 DEF Distances
      <3> QED BY <1>4, <3>1, <3>2
    <2> QED BY <2>1, <2>2 DEF Distances
  <1>6. V \union {g} = {F1[i] : i \in 1..(h + 1)}
    <2>1. \A i \in 1..h : i \in 1..(h + 1)
      BY <1>1
    <2>2. h + 1 \in 1..(h + 1)
      BY <1>1
    <2>3. V = {F[i] : i \in 1..h}
      BY <1>1
    <2>4. \A x \in V : \E i \in 1..(h + 1) : x = F1[i]
      BY <2>1, <2>3
    <2>5. \A i \in 1..(h + 1) : F1[i] \in V \union {g}
      BY <1>4, <2>3
    <2> QED BY <2>2, <2>4, <2>5
  <1>7. \A i \in 1..(h + 1) : E1[i] <= E1[c] + 1
    <2>1. E1[c] = d
      BY <1>1 DEF d
    <2>2. d \in Nat /\ \A i \in 1..h : E[i] <= d + 1
      BY <1>1
    <2>3. E1[h + 1] = d + 1
      BY DEF d
    <2> QED BY <1>4, <2>1, <2>2, <2>3
  <1>8. Lists(F1, E1, h + 1, fns, V \union {g}, c, start, ball, D)
    <2>1. h + 1 \in Nat /\ c \in 0..(h + 1) /\ c # 0
      BY <1>1
    <2> QED BY <1>1, <1>5, <1>6, <1>7, <2>1 DEF Lists
  <1>9. Closed(F1, E1, V \union {g}, near, D, c - 1)
    <2>1. \A i \in 1..(c - 1) : i \in 1..h
      BY <1>1
    <2> QED BY <2>1 DEF Closed
  <1> QED BY <1>8, <1>9

LEMMA GraphCapsAre == TraceNodes \in Nat /\ TraceNodes > 0 /\ TraceEdges \in Nat /\ TraceEdges > 0
  BY GraphAssumption

(* A sequence and one more. *)
LEMMA Appended ==
    ASSUME NEW A, NEW r \in Seq(A), NEW x \in A, NEW c, c = Append(r, x)
    PROVE  /\ c \in Seq(A) /\ Len(r) \in Nat /\ Len(c) = Len(r) + 1 /\ c[Len(r) + 1] = x
           /\ \A i \in 1..Len(r) : c[i] = r[i] /\ r[i] \in A /\ i \in 1..Len(c)
           /\ \A i \in 1..Len(c) : (i \in 1..Len(r) \/ i = Len(r) + 1) /\ c[i] \in A
           /\ Len(r) + 1 \in 1..Len(c)
  <1>1. /\ c \in Seq(A) /\ Len(r) \in Nat /\ Len(c) = Len(r) + 1 /\ c[Len(r) + 1] = x
        /\ \A i \in 1..Len(r) : c[i] = r[i]
    BY AppendProperties
  <1>2. \A i \in 1..Len(r) : r[i] \in A
    OBVIOUS
  <1>3. \A i \in 1..Len(c) : c[i] \in A
    BY <1>1
  <1> QED BY <1>1, <1>2, <1>3

(* Appended at the end. *)
LEMMA ConcatOne ==
    ASSUME NEW A, NEW r \in Seq(A), NEW s \in Seq(A), NEW x \in A
    PROVE  r \o Append(s, x) = Append(r \o s, x)
  <1>1. Append(s, x) = s \o <<x>> /\ <<x>> \in Seq(A) /\ r \o s \in Seq(A)
    BY AppendIsConcat, ConcatProperties
  <1>2. Append(r \o s, x) = (r \o s) \o <<x>>
    BY <1>1, AppendIsConcat
  <1> QED BY <1>1, <1>2, ConcatAssociative

LEMMA MetIs ==
    ASSUME NEW db, NEW s \in Traces(db)
    PROVE  /\ Met(s) \in Seq(GraphNodes(db)) /\ Len(Met(s)) = Len(s.nodes) + Len(s.queue)
           /\ Len(s.nodes) \in Nat /\ Len(s.queue) \in Nat /\ Len(Met(s)) \in Nat
           /\ \A i \in 1..Len(Met(s)) : Met(s)[i] \in GraphNodes(db) /\ Met(s)[i].depth \in Nat /\ Met(s)[i].fn \in db.fns
           /\ \A i \in 1..Len(s.nodes) : Met(s)[i] = s.nodes[i] /\ i \in 1..Len(Met(s))
           /\ \A i \in 1..Len(s.queue) : Met(s)[Len(s.nodes) + i] = s.queue[i] /\ Len(s.nodes) + i \in 1..Len(Met(s))
  <1> DEFINE a == s.nodes
             b == s.queue
             m == Met(s)
  <1>1. a \in Seq(GraphNodes(db)) /\ b \in Seq(GraphNodes(db))
    BY DEF Traces
  <1>2. m = a \o b
    BY DEF Met
  <1> HIDE DEF a, b, m
  <1>3. /\ m \in Seq(GraphNodes(db)) /\ Len(m) = Len(a) + Len(b)
        /\ \A i \in 1..(Len(a) + Len(b)) : m[i] = IF i <= Len(a) THEN a[i] ELSE b[i - Len(a)]
    BY <1>1, <1>2, ConcatProperties
  <1>4. Len(a) \in Nat /\ Len(b) \in Nat /\ Len(m) \in Nat
    BY <1>1, <1>3
  <1>5. \A i \in 1..Len(m) : m[i] \in GraphNodes(db)
    BY <1>3
  <1>6. ASSUME NEW i \in 1..Len(a) PROVE m[i] = a[i] /\ i \in 1..Len(m)
    BY <1>3, <1>4
  <1>7. ASSUME NEW i \in 1..Len(b) PROVE m[Len(a) + i] = b[i] /\ Len(a) + i \in 1..Len(m)
    <2>1. Len(a) + i \in 1..(Len(a) + Len(b)) /\ ~ (Len(a) + i <= Len(a)) /\ (Len(a) + i) - Len(a) = i
      BY <1>4
    <2> QED BY <1>3, <2>1
  <1>8. \A i \in 1..Len(m) : m[i].depth \in Nat /\ m[i].fn \in db.fns
    BY <1>5 DEF GraphNodes
  <1> QED BY <1>3, <1>4, <1>5, <1>6, <1>7, <1>8 DEF a, b, m

LEMMA TraceIs ==
    ASSUME NEW db, NEW s \in Traces(db)
    PROVE  /\ s.nodes \in Seq(GraphNodes(db)) /\ s.queue \in Seq(GraphNodes(db)) /\ s.edges \in Seq(db.fns \X db.fns)
           /\ s.visited \in SUBSET db.fns /\ s.partial \in BOOLEAN
           /\ Len(s.nodes) \in Nat /\ Len(s.queue) \in Nat /\ Len(s.edges) \in Nat
           /\ s = [visited |-> s.visited, nodes |-> s.nodes, edges |-> s.edges, queue |-> s.queue, partial |-> s.partial]
  BY DEF Traces

(* One reference keeps the trace as it should be.                          *)
LEMMA LooksKeeps ==
    ASSUME NEW db, NEW near, NEW start, NEW ball, NEW D, NEW t, NEW n, NEW g, LooksAt(db, near, start, ball, D, t, n, g),
           NEW dir
    PROVE  LooksGive(db, near, start, ball, D, t, g, Looks(dir, t, n.fn, g, n.depth))
  <1> DEFINE c == Len(t.nodes)
             f == n.fn
             d == n.depth
             edge == IF dir = "forward" THEN <<f, g>> ELSE <<g, f>>
             new == [fn |-> g, depth |-> d + 1]
             e == [t EXCEPT !.edges = Append(@, edge)]
             w == [e EXCEPT !.visited = @ \union {g}, !.queue = Append(@, new)]
             l == Met(t)
             h == Len(l)
             u == Looks(dir, t, n.fn, g, n.depth)
  <1>0. /\ Setting(db.fns, near, start, ball, D)
        /\ Traced(t, db, near, start, ball, D, Len(t.nodes) - 1) /\ Len(t.nodes) # 0
        /\ n = t.nodes[Len(t.nodes)] /\ n.depth < D /\ g \in db.fns /\ g \in near[n.fn]
    BY DEF LooksAt
  <1>1. /\ t \in Traces(db) /\ c \in Nat \ {0} /\ Len(t.queue) \in Nat /\ Len(t.edges) \in Nat
        /\ Len(t.nodes) + Len(t.queue) <= TraceNodes /\ Len(t.edges) <= TraceEdges
        /\ Lists(FnsOf(l), DepthsOf(l), h, db.fns, t.visited, c, start, ball, D)
        /\ FullTrace(t) \/ Closed(FnsOf(l), DepthsOf(l), t.visited, near, D, c - 1)
    BY <1>0, TraceIs DEF Traced
  <1>2. n \in GraphNodes(db) /\ f \in db.fns /\ d \in Nat
    <2>1. n \in GraphNodes(db)
      <3>1. t.nodes \in Seq(GraphNodes(db))
        BY <1>1, TraceIs
      <3>2. c \in 1..c
        BY <1>1
      <3> QED BY <1>0, <3>1, <3>2, ElementOfSeq
    <2> QED BY <2>1 DEF GraphNodes
  <1>3. edge \in db.fns \X db.fns /\ new \in GraphNodes(db)
    BY <1>0, <1>2 DEF GraphNodes
  <1>4. /\ Looks(dir, t, f, g, d) = IF Len(t.edges) >= TraceEdges THEN t ELSE
                                   IF g \in t.visited \/ Len(t.nodes) + Len(t.queue) >= TraceNodes THEN e ELSE w
    BY DEF Looks
  <1> HIDE DEF edge, new, u
  <1>5. /\ e.nodes = t.nodes /\ e.queue = t.queue /\ e.visited = t.visited /\ e.partial = t.partial
        /\ e.edges = Append(t.edges, edge) /\ Len(e.edges) = Len(t.edges) + 1 /\ e \in Traces(db)
    <2>1. Append(t.edges, edge) \in Seq(db.fns \X db.fns) /\ Len(Append(t.edges, edge)) = Len(t.edges) + 1
      <3>1. t.edges \in Seq(db.fns \X db.fns)
        BY <1>1, TraceIs
      <3> QED BY <3>1, <1>3, AppendProperties
    <2>2. t \in Traces(db)
      BY <1>1
    <2> QED BY <2>1, <2>2 DEF Traces
  <1>6. /\ w.nodes = t.nodes /\ w.queue = Append(t.queue, new) /\ w.visited = t.visited \union {g}
        /\ w.partial = t.partial /\ w.edges = e.edges /\ Len(w.queue) = Len(t.queue) + 1 /\ w \in Traces(db)
    <2>1. Append(t.queue, new) \in Seq(GraphNodes(db)) /\ Len(Append(t.queue, new)) = Len(t.queue) + 1
      <3>1. t.queue \in Seq(GraphNodes(db))
        BY <1>1, TraceIs
      <3> QED BY <3>1, <1>3, AppendProperties
    <2>2. e \in Traces(db) /\ e.queue = t.queue /\ g \in db.fns
      BY <1>0, <1>5
    <2> HIDE DEF e
    <2>3. /\ w.nodes = e.nodes /\ w.queue = Append(t.queue, new) /\ w.visited = e.visited \union {g}
          /\ w.partial = e.partial /\ w.edges = e.edges /\ w \in Traces(db)
      BY <2>1, <2>2 DEF Traces
    <2> HIDE DEF w
    <2> QED BY <1>5, <2>1, <2>3
  <1> HIDE DEF e, w, f, d
  <1>7. ASSUME Len(t.edges) >= TraceEdges
        PROVE  LooksGive(db, near, start, ball, D, t, g, u)
    <2>1. u = t
      BY <1>4, <1>7 DEF f, d, u
    <2>2. FullTrace(t)
      BY <1>7 DEF FullTrace
    <2> QED BY <1>0, <2>1, <2>2 DEF LooksGive
  <1>8. ASSUME ~ (Len(t.edges) >= TraceEdges) /\ (g \in t.visited \/ Len(t.nodes) + Len(t.queue) >= TraceNodes)
        PROVE  LooksGive(db, near, start, ball, D, t, g, u)
    <2>1. u = e
      BY <1>4, <1>8 DEF f, d, u
    <2>2. Met(e) = Met(t)
      BY <1>5 DEF Met
    <2>3. FullTrace(t) => FullTrace(e)
      <3>1. Len(t.edges) >= TraceEdges => Len(e.edges) >= TraceEdges
        BY <1>1, <1>5, GraphCapsAre
      <3> QED BY <1>5, <3>1 DEF FullTrace
    <2>4. Len(e.edges) <= TraceEdges
      BY <1>1, <1>5, <1>8, GraphCapsAre
    <2>5. Traced(e, db, near, start, ball, D, c - 1)
      <3>1. c - 1 \in 0..c
        BY <1>1
      <3> QED BY <1>1, <1>5, <2>2, <2>3, <2>4, <3>1 DEF Traced, l, h
    <2>6. FullTrace(e) \/ g \in e.visited
      BY <1>5, <1>8 DEF FullTrace
    <2> QED BY <1>5, <2>1, <2>3, <2>5, <2>6 DEF LooksGive
  <1>9. ASSUME ~ (Len(t.edges) >= TraceEdges) /\ ~ (g \in t.visited \/ Len(t.nodes) + Len(t.queue) >= TraceNodes)
        PROVE  LooksGive(db, near, start, ball, D, t, g, u)
    <2>1. u = w
      BY <1>4, <1>9 DEF f, d, u
    <2> DEFINE k == Met(w)
    <2>2. ~ FullTrace(t)
      BY <1>9 DEF FullTrace
    <2>3. /\ l \in Seq(GraphNodes(db)) /\ h = c + Len(t.queue) /\ h \in Nat
          /\ \A i \in 1..h : l[i].depth \in Nat /\ l[i].fn \in db.fns
          /\ l[c] = n /\ c \in 1..h
      <3>1. t \in Traces(db) /\ c \in 1..c
        BY <1>1
      <3>2. /\ l \in Seq(GraphNodes(db)) /\ h = c + Len(t.queue) /\ h \in Nat
            /\ \A i \in 1..h : l[i].depth \in Nat /\ l[i].fn \in db.fns
        BY <3>1, MetIs
      <3>3. l[c] = t.nodes[c] /\ c \in 1..h
        BY <3>1, MetIs
      <3> QED BY <1>0, <3>2, <3>3
    <2>4. k = Append(l, new)
      <3>1. t.nodes \in Seq(GraphNodes(db)) /\ t.queue \in Seq(GraphNodes(db))
        BY <1>1, TraceIs
      <3>2. new \in GraphNodes(db)
        BY <1>3
      <3>3. t.nodes \o Append(t.queue, new) = Append(t.nodes \o t.queue, new)
        <4> DEFINE a == t.nodes
                   b == t.queue
        <4>1. a \in Seq(GraphNodes(db)) /\ b \in Seq(GraphNodes(db))
          BY <3>1
        <4> HIDE DEF a, b
        <4>2. a \o Append(b, new) = Append(a \o b, new)
          BY <3>2, <4>1, ConcatOne
        <4> QED BY <4>2 DEF a, b
      <3> QED BY <1>6, <3>3 DEF Met, l
    <2> HIDE DEF l, k
    <2>5. /\ Len(k) = h + 1 /\ k[h + 1] = new /\ \A i \in 1..h : k[i] = l[i]
          /\ \A i \in 1..(h + 1) : k[i] \in GraphNodes(db)
      <3>1. Len(k) = h + 1 /\ k[h + 1] = new /\ (\A i \in 1..h : k[i] = l[i]) /\ \A i \in 1..Len(k) : k[i] \in GraphNodes(db)
        <4>1. l \in Seq(GraphNodes(db)) /\ new \in GraphNodes(db)
          BY <1>3, <2>3
        <4> QED BY <4>1, <2>4, Appended
      <3> QED BY <3>1
    <2> DEFINE F == FnsOf(l)
               E == DepthsOf(l)
               F1 == FnsOf(k)
               E1 == DepthsOf(k)
    <2>6. /\ \A i \in 1..h : F[i] = l[i].fn /\ E[i] = l[i].depth
          /\ \A i \in 1..(h + 1) : F1[i] = k[i].fn /\ E1[i] = k[i].depth
          /\ F1 = [i \in 1..(h + 1) |-> k[i].fn] /\ E1 = [i \in 1..(h + 1) |-> k[i].depth]
      BY <2>5 DEF FnsOf, DepthsOf
    <2>7. F1 \in [1..(h + 1) -> db.fns] /\ E1 \in [1..(h + 1) -> Nat]
      <3>1. \A i \in 1..(h + 1) : k[i].fn \in db.fns /\ k[i].depth \in Nat
        BY <2>5 DEF GraphNodes
      <3> HIDE DEF F1, E1
      <3> QED BY <2>6, <3>1
    <2> HIDE DEF F, E, F1, E1
    <2>8. (\A i \in 1..h : F1[i] = F[i] /\ E1[i] = E[i]) /\ F1[h + 1] = g /\ E1[h + 1] = d + 1
      <3>0. h \in Nat
        BY <2>3
      <3>1. \A i \in 1..h : i \in 1..(h + 1)
        BY <3>0
      <3>2. h + 1 \in 1..(h + 1) /\ new.fn = g /\ new.depth = d + 1
        BY <3>0 DEF new
      <3> HIDE DEF h
      <3> QED BY <2>5, <2>6, <3>1, <3>2
    <2>9. F[c] = f /\ E[c] = d
      BY <2>3, <2>6 DEF f, d
    <2>10. /\ Lists(F1, E1, h + 1, db.fns, t.visited \union {g}, c, start, ball, D)
           /\ Closed(F1, E1, t.visited \union {g}, near, D, c - 1)
      <3>1. /\ Lists(F, E, h, db.fns, t.visited, c, start, ball, D) /\ Closed(F, E, t.visited, near, D, c - 1)
            /\ c # 0 /\ E[c] < D /\ g \in near[F[c]] /\ g \notin t.visited /\ E1[h + 1] = E[c] + 1
        <4>1. Lists(F, E, h, db.fns, t.visited, c, start, ball, D) /\ Closed(F, E, t.visited, near, D, c - 1) /\ c # 0
          BY <1>1, <2>2 DEF F, E
        <4>2. E[c] < D /\ g \in near[F[c]]
          BY <1>0, <2>9 DEF f, d
        <4>3. E1[h + 1] = E[c] + 1
          BY <2>8, <2>9
        <4>4. g \notin t.visited
          BY <1>9
        <4> HIDE DEF c
        <4> QED BY <4>1, <4>2, <4>3, <4>4
      <3> DEFINE fns == db.fns
                 V == t.visited
      <3>2. /\ Setting(fns, near, start, ball, D) /\ F1 \in [1..(h + 1) -> fns] /\ E1 \in [1..(h + 1) -> Nat]
            /\ \A i \in 1..h : F1[i] = F[i] /\ E1[i] = E[i]
            /\ F1[h + 1] = g
        BY <1>0, <2>7, <2>8
      <3>3. /\ Lists(F, E, h, fns, V, c, start, ball, D) /\ Closed(F, E, V, near, D, c - 1)
            /\ c # 0 /\ E[c] < D /\ g \in near[F[c]] /\ g \notin V /\ E1[h + 1] = E[c] + 1
        BY <3>1
      <3> HIDE DEF h, c, fns, V
      <3>4. /\ Lists(F1, E1, h + 1, fns, V \union {g}, c, start, ball, D)
            /\ Closed(F1, E1, V \union {g}, near, D, c - 1)
        <4>1. Adds(fns, near, D, F, E, h, V, c, g, F1, E1)
          BY <3>2, <3>3 DEF Adds
        <4> QED BY <3>2, <3>3, <4>1, OneMore, Zenon
      <3> QED BY <3>4 DEF fns, V
    <2>11. Traced(w, db, near, start, ball, D, c - 1)
      <3>1. Len(w.nodes) + Len(w.queue) <= TraceNodes /\ Len(w.edges) <= TraceEdges
        <4>1. Len(w.nodes) + Len(w.queue) <= TraceNodes
          <5>1. ~ (c + Len(t.queue) >= TraceNodes) /\ TraceNodes \in Nat
            BY <1>9, GraphCapsAre
          <5>2. Len(w.nodes) = c /\ Len(w.queue) = Len(t.queue) + 1 /\ c \in Nat /\ Len(t.queue) \in Nat
            BY <1>1, <1>6
          <5> HIDE DEF c
          <5> QED BY <5>1, <5>2
        <4>2. Len(w.edges) <= TraceEdges
          BY <1>1, <1>5, <1>6, <1>9, GraphCapsAre
        <4> QED BY <4>1, <4>2
      <3>2. c - 1 \in 0..c /\ Len(w.nodes) = c
        BY <1>1, <1>6
      <3> HIDE DEF c, h
      <3> QED BY <1>6, <2>5, <2>10, <3>1, <3>2 DEF Traced, k, F1, E1
    <2> QED BY <1>6, <2>1, <2>2, <2>11 DEF LooksGive
  <1>10. LooksGive(db, near, start, ball, D, t, g, u)
    BY <1>7, <1>8, <1>9
  <1> QED BY <1>10 DEF u

(* Taking the next node from the queue. *)
LEMMA NextNode ==
    ASSUME NEW fns, NEW start, NEW ball, NEW D,
           NEW F, NEW E, NEW h, NEW V, NEW c, Lists(F, E, h, fns, V, c, start, ball, D), c < h
    PROVE  Lists(F, E, h, fns, V, c + 1, start, ball, D)
  <1>1. h \in Nat /\ c \in 0..h /\ E \in [1..h -> Nat] /\ Distances(F, E, h, ball, D)
        /\ \A i \in 1..h : E[i] <= IF c = 0 THEN 0 ELSE E[c] + 1
    BY DEF Lists
  <1>2. c + 1 \in 1..h /\ c \in Nat
    BY <1>1
  <1>3. ASSUME NEW i \in 1..h PROVE E[i] <= E[c + 1] + 1
    <2>1. E[i] \in Nat /\ E[c + 1] \in Nat
      BY <1>1, <1>2
    <2>2. CASE c = 0
      <3>1. E[i] <= 0
        BY <1>1, <2>2
      <3> QED BY <2>1, <3>1
    <2>3. CASE c # 0
      <3>1. c \in 1..h /\ c < c + 1
        <4>1. h \in Nat
          BY <1>1
        <4> QED BY <1>2, <2>3, <4>1
      <3>2. E[c] <= E[c + 1] /\ E[c] \in Nat
        BY <1>1, <1>2, <3>1 DEF Distances
      <3>3. E[i] <= E[c] + 1
        BY <1>1, <2>3
      <3> QED BY <2>1, <3>2, <3>3
    <2> QED BY <2>2, <2>3
  <1>4. c + 1 # 0 /\ c + 1 \in 0..h
    BY <1>2
  <1> QED BY <1>3, <1>4 DEF Lists

LEMMA MoveOne ==
    ASSUME NEW A, NEW r \in Seq(A), NEW q \in Seq(A), q # <<>>
    PROVE  Append(r, Head(q)) \o Tail(q) = r \o q
  <1> DEFINE x == q[1]
  <1>1. Len(q) \in Nat \ {0} /\ q[1] \in A /\ Head(q) = q[1]
    BY EmptySeq
  <1>2. Tail(q) \in Seq(A) /\ Tail(q) = SubSeq(q, 2, Len(q))
    BY HeadTailProperties, TailIsSubSeq
  <1>3. SubSeq(q, 1, Len(q)) = <<q[1]>> \o SubSeq(q, 1 + 1, Len(q))
    <2>1. 1 \in 1..Len(q) /\ Len(q) \in 1..Len(q)
      BY <1>1
    <2> QED BY <2>1, SubSeqRecursiveFirst
  <1>4. q = <<x>> \o Tail(q)
    BY <1>2, <1>3, SubSeqFull
  <1>5. Append(r, x) = r \o <<x>> /\ <<x>> \in Seq(A)
    BY <1>1, AppendIsConcat
  <1> HIDE DEF x
  <1>6. (r \o <<x>>) \o Tail(q) = r \o (<<x>> \o Tail(q))
    BY <1>2, <1>5, ConcatAssociative
  <1>7. Head(q) = x
    BY <1>1 DEF x
  <1> QED BY <1>4, <1>5, <1>6, <1>7

LEMMA LooksGoesOn ==
    ASSUME NEW db, NEW near, NEW start, NEW ball, NEW D, NEW t, NEW n, NEW g, LooksAt(db, near, start, ball, D, t, n, g),
           NEW s \in Onwards(db, near, start, ball, D, t), NEW dir
    PROVE  /\ Looks(dir, s, n.fn, g, n.depth) \in Onwards(db, near, start, ball, D, t)
           /\ LooksGive(db, near, start, ball, D, s, g, Looks(dir, s, n.fn, g, n.depth))
  <1>1. Traced(s, db, near, start, ball, D, Len(s.nodes) - 1) /\ s.nodes = t.nodes /\ s.partial = t.partial
    BY DEF Onwards
  <1> DEFINE u == Looks(dir, s, n.fn, g, n.depth)
  <1>2. LooksGive(db, near, start, ball, D, s, g, u)
    <2>1. LooksAt(db, near, start, ball, D, s, n, g)
      BY <1>1 DEF LooksAt
    <2> QED BY <2>1, LooksKeeps, Zenon
  <1> HIDE DEF u
  <1>3. u \in Onwards(db, near, start, ball, D, t)
    BY <1>1, <1>2 DEF Onwards, LooksGive, Traced
  <1> QED BY <1>2, <1>3 DEF u

(* All references of a node, one after another.                            *)
LEMMA ExpandKeeps ==
    ASSUME NEW db, NEW near, NEW start, NEW ball, NEW D, NEW t, NEW n, NEW dir, NEW refs, refs = Ahead(db, dir, n.fn),
           ExpandsAt(db, near, start, ball, D, t, n, refs)
    PROVE  Expanded(db, near, start, ball, D, t, n, Expand(db, dir, t, n.fn, n.depth)[Len(refs)])
  <1> DEFINE A == Onwards(db, near, start, ball, D, t)
             N == Len(refs)
             F == [p \in A \X (1..N) |-> Looks(dir, p[1], n.fn, refs[p[2]], n.depth)]
             Rec(g) == g = [i \in 0..N |-> IF i = 0 THEN t ELSE Looks(dir, g[i - 1], n.fn, refs[i], n.depth)]
             looked == CHOOSE g : Rec(g)
             u == Expand(db, dir, t, n.fn, n.depth)[Len(refs)]
  <1>0. /\ Setting(db.fns, near, start, ball, D)
        /\ Traced(t, db, near, start, ball, D, Len(t.nodes) - 1) /\ Len(t.nodes) # 0
        /\ n = t.nodes[Len(t.nodes)] /\ n.depth < D
        /\ refs \in Seq(db.fns) /\ near[n.fn] = {refs[i] : i \in 1..Len(refs)}
    BY DEF ExpandsAt
  <1>1. N \in Nat /\ \A i \in 1..N : refs[i] \in db.fns /\ refs[i] \in near[n.fn]
    BY <1>0
  <1>2. t \in A
    BY <1>0 DEF Onwards, Traced
  <1> HIDE DEF N
  <1>a. \A i \in 1..N : LooksAt(db, near, start, ball, D, t, n, refs[i])
    BY <1>0, <1>1 DEF LooksAt
  <1>3. F \in [A \X (1..N) -> A]
    <2>1. ASSUME NEW s \in A, NEW i \in 1..N PROVE Looks(dir, s, n.fn, refs[i], n.depth) \in A
      BY <1>a, <2>1, LooksGoesOn
    <2> HIDE DEF A
    <2>2. \A p \in A \X (1..N) : Looks(dir, p[1], n.fn, refs[p[2]], n.depth) \in A
      BY <2>1
    <2> QED BY <2>2
  <1>4. PICK f : Solves(f, A, t, N, F)
    <2> HIDE DEF F, A
    <2> QED BY <1>1, <1>2, <1>3, RecursionExists, Zenon
  <1> HIDE DEF A
  <1>5. f \in [0..N -> A] /\ f[0] = t /\ \A k \in 1..N : f[k] = Looks(dir, f[k - 1], n.fn, refs[k], n.depth)
    <2>1. ASSUME NEW k \in 1..N PROVE f[k] = Looks(dir, f[k - 1], n.fn, refs[k], n.depth)
      <3>1. k - 1 \in 0..N
        BY <1>1
      <3>2. <<f[k - 1], k>> \in A \X (1..N) /\ f[k] = F[<<f[k - 1], k>>]
        <4> HIDE DEF F
        <4> QED BY <3>1, <1>4 DEF Solves
      <3> QED BY <3>2
    <2> HIDE DEF F
    <2> QED BY <1>4, <2>1 DEF Solves
  <1>6. Rec(f)
    <2>1. \A i \in 0..N : i # 0 => i \in 1..N
      BY <1>1
    <2> HIDE DEF F
    <2> QED BY <1>5, <2>1
  <1>7. u = looked[N] /\ Rec(looked)
    <2>1. Expand(db, dir, t, n.fn, n.depth) = looked
      BY DEF Expand, N
    <2>2. Rec(looked)
      <3> HIDE DEF Rec
      <3> QED BY <1>6
    <2> QED BY <2>1, <2>2 DEF N
  <1> HIDE DEF looked
  <1>8. looked[0] = t /\ \A k \in 1..N : looked[k] = Looks(dir, looked[k - 1], n.fn, refs[k], n.depth)
    <2>1. 0 \in 0..N /\ \A k \in 1..N : k \in 0..N /\ k # 0
      BY <1>1
    <2> HIDE DEF F
    <2> QED BY <1>7, <2>1
  <1> HIDE DEF F, Rec
  <1> DEFINE Good(i) == /\ looked[i] \in A
                        /\ FullTrace(looked[i]) \/ \A j \in 1..i : refs[j] \in looked[i].visited
             S == {i \in 0..N : Good(i)}
  <1>9. 0 \in S
    <2>1. 0 \in 0..N /\ 1..0 = {}
      BY <1>1
    <2> QED BY <1>2, <1>8, <2>1
  <1>10. ASSUME NEW i \in 0..(N - 1), i \in S PROVE i + 1 \in S
    <2> DEFINE k == i + 1
               s == looked[i]
               v == looked[k]
    <2>1. k \in 1..N /\ k \in 0..N /\ k - 1 = i /\ 1..k = 1..i \union {k}
      BY <1>1
    <2>2. s \in A /\ (FullTrace(s) \/ \A j \in 1..i : refs[j] \in s.visited)
      BY <1>10
    <2>3. v = Looks(dir, s, n.fn, refs[k], n.depth)
      BY <1>8, <2>1
    <2>4. LooksAt(db, near, start, ball, D, t, n, refs[k])
      BY <1>a, <2>1
    <2> HIDE DEF s, v, k
    <2>a. v \in A /\ LooksGive(db, near, start, ball, D, s, refs[k], v)
      BY <2>2, <2>3, <2>4, LooksGoesOn, Zenon DEF A
    <2>5. /\ s.visited \subseteq v.visited /\ (FullTrace(s) => FullTrace(v))
          /\ FullTrace(v) \/ refs[k] \in v.visited
      BY <2>a DEF LooksGive
    <2>6. FullTrace(v) \/ \A j \in 1..k : refs[j] \in v.visited
      BY <2>1, <2>2, <2>5
    <2>7. Good(k)
      BY <2>a, <2>6 DEF v
    <2> HIDE DEF Good
    <2> QED BY <2>1, <2>7 DEF k
  <1>11. Good(N)
    <2> HIDE DEF Good
    <2>1. \A i \in 0..N : i \in S
      <3> HIDE DEF S
      <3> QED BY <1>1, <1>9, <1>10, UpTo
    <2>2. N \in 0..N
      BY <1>1
    <2> QED BY <2>1, <2>2
  <1>12. near[n.fn] = {refs[i] : i \in 1..N}
    BY <1>0 DEF N
  <1> HIDE DEF u
  <1>13. u \in A /\ (FullTrace(u) \/ near[n.fn] \subseteq u.visited)
    BY <1>7, <1>11, <1>12
  <1> QED BY <1>13 DEF A, u, Expanded

LEMMA AheadIs ==
    ASSUME NEW db, Databases(db), NEW dir, NEW f \in db.fns
    PROVE  /\ Ahead(db, dir, f) \in Seq(db.fns)
           /\ Near(db, dir)[f] = {Ahead(db, dir, f)[i] : i \in 1..Len(Ahead(db, dir, f))}
  <1> DEFINE a == Ahead(db, dir, f)
             r == db.refs[f]
  <1>1. a \in Seq(db.fns)
    <2>1. CASE dir = "forward"
      <3>1. r \in Seq([to : db.fns, call : BOOLEAN])
        BY DEF Databases
      <3>2. a = [i \in DOMAIN r |-> r[i].to]
        BY <2>1 DEF Ahead, Targets
      <3> DEFINE R == [to : db.fns, call : BOOLEAN]
      <3> HIDE DEF a, r
      <3>3. DOMAIN r = 1..Len(r) /\ Len(r) \in Nat /\ \A i \in 1..Len(r) : r[i] \in R
        <4>1. r \in Seq(R)
          BY <3>1
        <4> HIDE DEF R
        <4> QED BY <4>1
      <3>4. \A i \in 1..Len(r) : r[i].to \in db.fns
        BY <3>3
      <3> QED BY <3>2, <3>3, <3>4
    <2>2. CASE dir # "forward"
      <3>1. a = db.xrefs[f]
        BY <2>2 DEF Ahead
      <3> QED BY <3>1 DEF Databases
    <2> QED BY <2>1, <2>2
  <1>2. Near(db, dir)[f] = ToSet(a)
    BY DEF Near
  <1> HIDE DEF a
  <1>3. ToSet(a) = {a[i] : i \in 1..Len(a)}
    BY <1>1 DEF ToSet
  <1> QED BY <1>1, <1>2, <1>3 DEF a

LEMMA NearIs ==
    ASSUME NEW db, Databases(db), NEW dir
    PROVE  Near(db, dir) \in [db.fns -> SUBSET db.fns]
  <1>1. ASSUME NEW f \in db.fns PROVE ToSet(Ahead(db, dir, f)) \in SUBSET db.fns
    <2>1. Ahead(db, dir, f) \in Seq(db.fns)
      BY AheadIs
    <2> QED BY <2>1 DEF ToSet
  <1> QED BY <1>1 DEF Near

LEMMA TakenIs ==
    ASSUME NEW db, NEW near, NEW start, NEW ball, NEW D, NEW s, Traced(s, db, near, start, ball, D, Len(s.nodes)),
           s.queue # <<>>
    PROVE  TurnTaken(db, near, start, ball, D, s, [s EXCEPT !.queue = Tail(@), !.nodes = Append(@, Head(s.queue))])
  <1> DEFINE n == Head(s.queue)
             c == Len(s.nodes)
             q == Len(s.queue)
             t == [s EXCEPT !.queue = Tail(@), !.nodes = Append(@, n)]
  <1>1. /\ s \in Traces(db) /\ s.nodes \in Seq(GraphNodes(db)) /\ s.queue \in Seq(GraphNodes(db)) /\ c \in Nat /\ Len(s.queue) \in Nat
        /\ c + Len(s.queue) <= TraceNodes /\ Len(s.edges) <= TraceEdges
        /\ Lists(FnsOf(Met(s)), DepthsOf(Met(s)), Len(Met(s)), db.fns, s.visited, c, start, ball, D)
        /\ FullTrace(s) \/ Closed(FnsOf(Met(s)), DepthsOf(Met(s)), s.visited, near, D, c)
    BY TraceIs DEF Traced
  <1>2. /\ n \in GraphNodes(db) /\ Tail(s.queue) \in Seq(GraphNodes(db)) /\ Len(Tail(s.queue)) = Len(s.queue) - 1
        /\ Len(s.queue) > 0
    <2>1. s.queue \in Seq(GraphNodes(db))
      BY <1>1
    <2>2. Len(s.queue) \in Nat \ {0}
      BY <2>1, EmptySeq
    <2> QED BY <2>1, <2>2, HeadTailProperties
  <1> HIDE DEF n
  <1>3. /\ Append(s.nodes, n) \in Seq(GraphNodes(db)) /\ Len(Append(s.nodes, n)) = c + 1 /\ Append(s.nodes, n)[c + 1] = n
    <2>1. s.nodes \in Seq(GraphNodes(db)) /\ n \in GraphNodes(db)
      BY <1>1, <1>2
    <2> QED BY <2>1, AppendProperties
  <1>4. /\ t.nodes = Append(s.nodes, n) /\ t.queue = Tail(s.queue) /\ t.edges = s.edges /\ t.visited = s.visited
        /\ t.partial = s.partial /\ t \in Traces(db)
    BY <1>1, <1>2, <1>3 DEF Traces, n
  <1> HIDE DEF t
  <1>5. Met(t) = Met(s)
    <2>1. Append(s.nodes, n) \o Tail(s.queue) = s.nodes \o s.queue
      <3> DEFINE a == s.nodes
                 b == s.queue
      <3>1. a \in Seq(GraphNodes(db)) /\ b \in Seq(GraphNodes(db)) /\ b # <<>> /\ n = Head(b)
        BY <1>1 DEF n
      <3> HIDE DEF a, b
      <3>2. Append(a, n) \o Tail(b) = a \o b
        BY <3>1, MoveOne
      <3> QED BY <3>2 DEF a, b
    <2> QED BY <1>4, <2>1 DEF Met
  <1>6. Len(t.nodes) = c + 1 /\ Len(t.queue) = Len(s.queue) - 1 /\ t.nodes[c + 1] = n
    BY <1>2, <1>3, <1>4
  <1>a. c \in Nat /\ q \in Nat /\ q > 0 /\ c + q <= TraceNodes /\ Len(t.nodes) = c + 1 /\ Len(t.queue) = q - 1
    BY <1>1, <1>2, <1>6
  <1>7. FullTrace(s) => FullTrace(t)
    <2>1. Len(t.nodes) + Len(t.queue) = c + Len(s.queue)
      <3> HIDE DEF c, q
      <3>1. Len(t.nodes) + Len(t.queue) = c + q
        BY <1>a
      <3> QED BY <3>1 DEF q
    <2> QED BY <1>4, <2>1 DEF FullTrace
  <1>8. Lists(FnsOf(Met(s)), DepthsOf(Met(s)), Len(Met(s)), db.fns, s.visited, c + 1, start, ball, D)
    <2>1. Len(Met(s)) = c + Len(s.queue)
      BY <1>1, MetIs
    <2>2. c < Len(Met(s))
      <3> HIDE DEF c
      <3> QED BY <1>1, <1>2, <2>1
    <2> QED BY <1>1, <2>2, NextNode, Zenon
  <1>9. Len(t.nodes) + Len(t.queue) <= TraceNodes /\ Len(t.nodes) - 1 = c /\ c \in 0..Len(t.nodes)
    <2> HIDE DEF c, q
    <2> QED BY <1>a, GraphCapsAre
  <1>10. Traced(t, db, near, start, ball, D, c)
    BY <1>1, <1>4, <1>5, <1>6, <1>7, <1>8, <1>9 DEF Traced
  <1>11. TurnTaken(db, near, start, ball, D, s, t)
    BY <1>1, <1>4, <1>6, <1>9, <1>10 DEF TurnTaken, n
  <1> QED BY <1>11 DEF t, n

(* The last of the nodes is looked at, or has nothing to look at. *)
LEMMA LastIsClosed ==
    ASSUME NEW db, NEW near, NEW start, NEW ball, NEW D, NEW u, Traced(u, db, near, start, ball, D, Len(u.nodes) - 1),
           Len(u.nodes) # 0, NEW n, n = u.nodes[Len(u.nodes)],
           n.depth < D => FullTrace(u) \/ near[n.fn] \subseteq u.visited
    PROVE  Traced(u, db, near, start, ball, D, Len(u.nodes))
  <1> DEFINE c == Len(u.nodes)
             F == FnsOf(Met(u))
             E == DepthsOf(Met(u))
  <1>1. u \in Traces(db) /\ c \in Nat
    BY TraceIs DEF Traced
  <1>2. F[c] = n.fn /\ E[c] = n.depth
    <2>1. c \in 1..c
      BY <1>1
    <2>2. Met(u)[c] = n /\ c \in 1..Len(Met(u))
      BY <1>1, <2>1, MetIs
    <2> QED BY <2>2 DEF FnsOf, DepthsOf
  <1>3. FullTrace(u) \/ Closed(F, E, u.visited, near, D, c - 1)
    BY DEF Traced
  <1> HIDE DEF F, E
  <1>4. FullTrace(u) \/ Closed(F, E, u.visited, near, D, c)
    <2> SUFFICES ASSUME ~ FullTrace(u), NEW i \in 1..c, E[i] < D PROVE near[F[i]] \subseteq u.visited
      BY DEF Closed
    <2>1. i = c \/ i \in 1..(c - 1)
      BY <1>1
    <2> QED BY <1>2, <1>3, <2>1 DEF Closed
  <1>5. c \in 0..c
    BY <1>1
  <1> QED BY <1>4, <1>5 DEF Traced, F, E

(* One turn of the loop keeps it.                                          *)
LEMMA TurnKeeps ==
    ASSUME NEW db, Databases(db), NEW dir, NEW start, NEW ball, NEW D, Setting(db.fns, Near(db, dir), start, ball, D),
           NEW s, Traced(s, db, Near(db, dir), start, ball, D, Len(s.nodes)), NEW cut
    PROVE  Turned(db, Near(db, dir), start, ball, D, s, Turn(db, dir, D, cut, s))
  <1> DEFINE near == Near(db, dir)
             n == Head(s.queue)
             t == [s EXCEPT !.queue = Tail(@), !.nodes = Append(@, n)]
             u == Turn(db, dir, D, cut, s)
             refs == Ahead(db, dir, n.fn)
  <1>1. u = IF Stopped(s) THEN s
            ELSE IF cut # 0 /\ Len(s.nodes) + 1 >= cut /\ (Len(s.nodes) + 1) % Poll = 0
                 THEN [s EXCEPT !.partial = TRUE]
            ELSE IF n.depth >= D THEN t ELSE Expand(db, dir, t, n.fn, n.depth)[Len(refs)]
    BY DEF Turn, Stopped
  <1> HIDE DEF near, u, refs
  <1>2. CASE Stopped(s)
    BY <1>1, <1>2 DEF Turned, near, u
  <1>3. CASE ~ Stopped(s) /\ cut # 0 /\ Len(s.nodes) + 1 >= cut /\ (Len(s.nodes) + 1) % Poll = 0
    <2>1. u = [s EXCEPT !.partial = TRUE] /\ s \in Traces(db)
      BY <1>1, <1>3 DEF Traced
    <2>2. /\ u \in Traces(db) /\ u.nodes = s.nodes /\ u.edges = s.edges /\ u.queue = s.queue /\ u.visited = s.visited
          /\ u.partial
      BY <2>1 DEF Traces
    <2>3. Traced(u, db, near, start, ball, D, Len(u.nodes))
      BY <2>2 DEF Traced, FullTrace, Met, near
    <2>4. Stopped(u)
      BY <2>2 DEF Stopped
    <2> QED BY <1>3, <2>3, <2>4 DEF Turned, near, u
  <1>4. CASE ~ Stopped(s) /\ ~ (cut # 0 /\ Len(s.nodes) + 1 >= cut /\ (Len(s.nodes) + 1) % Poll = 0)
    <2>1. /\ Traced(t, db, near, start, ball, D, Len(t.nodes) - 1)
          /\ Len(t.nodes) = Len(s.nodes) + 1 /\ Len(s.nodes) \in Nat /\ t.nodes[Len(t.nodes)] = n
      <3>1. s.queue # <<>>
        BY <1>4 DEF Stopped
      <3>2. TurnTaken(db, near, start, ball, D, s, t)
        BY <3>1, TakenIs DEF near
      <3> HIDE DEF t
      <3> QED BY <3>2 DEF TurnTaken
    <2> HIDE DEF t
    <2>2. n \in GraphNodes(db)
      <3>1. t.nodes \in Seq(GraphNodes(db)) /\ Len(t.nodes) \in 1..Len(t.nodes)
        <4>1. t \in Traces(db)
          BY <2>1 DEF Traced
        <4>2. t.nodes \in Seq(GraphNodes(db))
          BY <4>1, TraceIs
        <4> QED BY <2>1, <4>2
      <3> QED BY <2>1, <3>1, ElementOfSeq
    <2> HIDE DEF n
    <2>3. n.fn \in db.fns /\ n.depth \in Nat /\ D \in Nat
      BY <2>2 DEF GraphNodes, Setting
    <2>4. Len(t.nodes) # 0
      BY <2>1
    <2>5. CASE n.depth >= D
      <3>1. u = t
        BY <1>1, <1>4, <2>5
      <3>2. ~ (n.depth < D)
        BY <2>3, <2>5
      <3>3. Traced(u, db, near, start, ball, D, Len(u.nodes))
        BY <2>1, <2>4, <3>1, <3>2, LastIsClosed
      <3> QED BY <1>4, <2>1, <3>1, <3>3 DEF Turned, near, u
    <2>6. CASE ~ (n.depth >= D)
      <3>1. u = Expand(db, dir, t, n.fn, n.depth)[Len(refs)] /\ n.depth < D
        BY <1>1, <1>4, <2>3, <2>6
      <3>2. refs \in Seq(db.fns) /\ refs = Ahead(db, dir, n.fn) /\ near[n.fn] = {refs[i] : i \in 1..Len(refs)}
        BY <2>3, AheadIs DEF refs, near
      <3>3. u \in Onwards(db, near, start, ball, D, t) /\ (FullTrace(u) \/ near[n.fn] \subseteq u.visited)
        <4>1. Setting(db.fns, near, start, ball, D) /\ n = t.nodes[Len(t.nodes)]
          BY <2>1 DEF near
        <4>2. ExpandsAt(db, near, start, ball, D, t, n, refs)
          BY <2>1, <2>4, <3>1, <3>2, <4>1 DEF ExpandsAt
        <4>3. Expanded(db, near, start, ball, D, t, n, Expand(db, dir, t, n.fn, n.depth)[Len(refs)])
          BY <3>2, <4>2, ExpandKeeps
        <4> QED BY <3>1, <4>3 DEF Expanded
      <3>4. u.nodes = t.nodes /\ Traced(u, db, near, start, ball, D, Len(u.nodes) - 1)
        BY <3>3 DEF Onwards
      <3>5. Traced(u, db, near, start, ball, D, Len(u.nodes))
        BY <2>1, <2>4, <3>3, <3>4, LastIsClosed
      <3> QED BY <1>4, <2>1, <3>4, <3>5 DEF Turned, near, u
    <2> QED BY <2>5, <2>6
  <1> QED BY <1>2, <1>3, <1>4

LEMMA TraceDepthIs == ASSUME NEW max \in Int PROVE TraceDepth(max) \in Nat
  <1>1. Min({max, 20}) \in Int
    BY MinMaxOfTwo
  <1>2. Max({1, Min({max, 20})}) = IF 1 >= Min({max, 20}) THEN 1 ELSE Min({max, 20})
    <2> DEFINE m == Min({max, 20})
    <2>1. m \in Int
      BY <1>1
    <2> HIDE DEF m
    <2>2. Max({1, m}) = IF m >= 1 THEN m ELSE 1
      BY <2>1, MinMaxOfTwo
    <2>3. Max({1, m}) = IF 1 >= m THEN 1 ELSE m
      BY <2>1, <2>2
    <2> QED BY <2>3 DEF m
  <1> DEFINE m == Min({max, 20})
  <1> HIDE DEF m
  <1>3. TraceDepth(max) = IF 1 >= m THEN 1 ELSE m
    BY <1>2 DEF TraceDepth, m
  <1> QED BY <1>1, <1>3 DEF m

LEMMA StartIsTraced ==
    ASSUME NEW db, NEW near, NEW start, NEW ball, NEW D, Setting(db.fns, near, start, ball, D)
    PROVE  Traced(TraceStart(start), db, near, start, ball, D, 0) /\ Len(TraceStart(start).nodes) = 0
  <1> DEFINE n == [fn |-> start, depth |-> 0]
             s == TraceStart(start)
             l == <<n>>
  <1>1. /\ near \in [db.fns -> SUBSET db.fns] /\ start \in db.fns /\ BallsOf(ball, near, db.fns, start) /\ D \in Nat
    BY DEF Setting
  <1>2. n \in GraphNodes(db)
    BY <1>1 DEF GraphNodes
  <1> HIDE DEF n
  <1>3. s \in Traces(db)
    <2>1. <<n>> \in Seq(GraphNodes(db)) /\ <<>> \in Seq(GraphNodes(db)) /\ <<>> \in Seq(db.fns \X db.fns)
      BY <1>2
    <2> QED BY <1>1, <2>1 DEF Traces, TraceStart, n
  <1>4. s.nodes = <<>> /\ s.edges = <<>> /\ s.queue = l /\ s.visited = {start} /\ Len(s.nodes) = 0 /\ Len(s.edges) = 0
        /\ Len(s.queue) = 1
    BY DEF TraceStart, n
  <1> HIDE DEF s
  <1>5. Met(s) = l
    <2>1. <<>> \o <<n>> = <<n>>
      <3>1. <<n>> \in Seq(GraphNodes(db))
        BY <1>2
      <3> QED BY <3>1, ConcatEmptySeq
    <2> QED BY <1>4, <2>1 DEF Met
  <1>6. Len(l) = 1 /\ l[1] = n /\ n.fn = start /\ n.depth = 0
    BY DEF n
  <1> HIDE DEF l
  <1> DEFINE F == FnsOf(l)
             E == DepthsOf(l)
  <1>7. F = [i \in 1..1 |-> start] /\ E = [i \in 1..1 |-> 0]
    <2>1. \A i \in 1..1 : l[i].fn = start /\ l[i].depth = 0
      BY <1>6
    <2> QED BY <1>6, <2>1 DEF FnsOf, DepthsOf
  <1> HIDE DEF F, E
  <1>8. Distances(F, E, 1, ball, D)
    <2>1. \A i \in 1..1 : F[i] = start /\ E[i] = 0 /\ i = 1
      BY <1>7
    <2>2. start \in ball[0] /\ 0 <= D
      BY <1>1 DEF BallsOf
    <2> QED BY <2>1, <2>2 DEF Distances
  <1>9. Lists(F, E, 1, db.fns, {start}, 0, start, ball, D)
    <2>1. {start} = {F[i] : i \in 1..1} /\ F \in [1..1 -> db.fns] /\ E \in [1..1 -> Nat] /\ \A i \in 1..1 : E[i] <= 0
      BY <1>1, <1>7
    <2> QED BY <1>8, <2>1 DEF Lists
  <1>10. Closed(F, E, {start}, near, D, 0)
    BY DEF Closed
  <1>11. Traced(s, db, near, start, ball, D, 0)
    <2>1. Len(s.nodes) + Len(s.queue) <= TraceNodes /\ Len(s.edges) <= TraceEdges /\ 0 \in 0..Len(s.nodes)
      BY <1>4, GraphCapsAre
    <2> QED BY <1>3, <1>4, <1>5, <1>6, <1>9, <1>10, <2>1 DEF Traced, F, E
  <1> QED BY <1>4, <1>11 DEF s

(* After as many turns as there may be nodes the trace has ended.          *)
LEMMA TraceIsDone ==
    ASSUME NEW db, Databases(db), NEW dir, NEW max \in Int, NEW cut, NEW start \in db.fns
    PROVE  LET near == Near(db, dir)
           IN  TraceEnds(db, near, start, Balls(near, start), TraceDepth(max), TraceDataFlow(db, dir, max, cut, start))
  <1> DEFINE near == Near(db, dir)
             ball == Balls(near, start)
             D == TraceDepth(max)
             Go(s) == Turn(db, dir, D, cut, s)
             Good(s) == Traced(s, db, near, start, ball, D, Len(s.nodes))
             A == {s \in Traces(db) : Good(s)}
             N == TraceNodes
             s0 == TraceStart(start)
             F == [p \in A \X (1..N) |-> Go(p[1])]
             Rec(g) == g = [n \in 0..N |-> IF n = 0 THEN s0 ELSE Go(g[n - 1])]
             turns == CHOOSE g : Rec(g)
  <1>1. Setting(db.fns, near, start, ball, D)
    <2>1. near \in [db.fns -> SUBSET db.fns]
      BY NearIs
    <2> HIDE DEF near
    <2>2. BallsOf(ball, near, db.fns, start)
      BY <2>1, WithinIs
    <2> QED BY <2>1, <2>2, TraceDepthIs DEF Setting
  <1>2. TraceDataFlow(db, dir, max, cut, start) = turns[N]
    BY DEF TraceDataFlow, TraceStart
  <1> HIDE DEF ball, D, N, s0
  <1>3. ASSUME NEW s, Good(s) PROVE Turned(db, near, start, ball, D, s, Go(s)) /\ Good(Go(s)) /\ Go(s) \in Traces(db)
    <2>1. Turned(db, near, start, ball, D, s, Go(s))
      BY <1>1, <1>3, TurnKeeps
    <2> QED BY <2>1 DEF Turned, Traced
  <1>4. s0 \in A /\ Len(s0.nodes) = 0 /\ Good(s0)
    <2>1. Traced(s0, db, near, start, ball, D, 0) /\ Len(s0.nodes) = 0
      BY <1>1, StartIsTraced DEF s0
    <2> QED BY <2>1 DEF Traced
  <1>5. N \in Nat
    BY GraphCapsAre DEF N
  <1> HIDE DEF near, Good, Go
  <1>6. F \in [A \X (1..N) -> A]
    BY <1>3
  <1>7. PICK f : Solves(f, A, s0, N, F)
    <2> HIDE DEF F, A
    <2> QED BY <1>4, <1>5, <1>6, RecursionExists, Zenon
  <1> HIDE DEF A
  <1>8. f \in [0..N -> A] /\ f[0] = s0 /\ \A k \in 1..N : f[k] = Go(f[k - 1])
    <2>1. ASSUME NEW k \in 1..N PROVE f[k] = Go(f[k - 1])
      <3>1. k - 1 \in 0..N
        BY <1>5
      <3>2. <<f[k - 1], k>> \in A \X (1..N) /\ f[k] = F[<<f[k - 1], k>>]
        <4> HIDE DEF F
        <4> QED BY <3>1, <1>7 DEF Solves
      <3> QED BY <3>2
    <2> HIDE DEF F
    <2> QED BY <1>7, <2>1 DEF Solves
  <1>9. Rec(f)
    <2>1. \A i \in 0..N : i # 0 => i \in 1..N
      BY <1>5
    <2> HIDE DEF F
    <2> QED BY <1>8, <2>1
  <1>10. Rec(turns)
    <2> HIDE DEF Rec
    <2> QED BY <1>9
  <1> HIDE DEF turns
  <1>11. turns[0] = s0 /\ \A k \in 1..N : turns[k] = Go(turns[k - 1])
    <2>1. 0 \in 0..N /\ \A k \in 1..N : k \in 0..N /\ k # 0
      BY <1>5
    <2> HIDE DEF F
    <2> QED BY <1>10, <2>1
  <1> HIDE DEF F, Rec
  <1> DEFINE Far(k) == Good(turns[k]) /\ (Len(turns[k].nodes) = k \/ Stopped(turns[k]))
             S == {k \in 0..N : Far(k)}
  <1>12. 0 \in S
    BY <1>4, <1>5, <1>11
  <1>13. ASSUME NEW i \in 0..(N - 1), i \in S PROVE i + 1 \in S
    <2> DEFINE k == i + 1
               s == turns[i]
               u == turns[k]
    <2>1. k \in 1..N /\ k \in 0..N /\ k - 1 = i
      BY <1>5
    <2>2. Good(s) /\ (Len(s.nodes) = i \/ Stopped(s))
      BY <1>13
    <2>3. u = Go(s)
      BY <1>11, <2>1
    <2> HIDE DEF s, u, k
    <2>4. Turned(db, near, start, ball, D, s, u) /\ Good(u)
      BY <1>3, <2>2, <2>3
    <2>5. Len(u.nodes) = Len(s.nodes) + 1 \/ Stopped(u)
      BY <2>4 DEF Turned
    <2>6. Stopped(s) => Stopped(u)
      BY <2>4 DEF Turned
    <2>7. Len(u.nodes) = k \/ Stopped(u)
      BY <2>2, <2>5, <2>6 DEF k
    <2>8. Far(k)
      BY <2>4, <2>7 DEF u
    <2> HIDE DEF Far
    <2> QED BY <2>1, <2>8 DEF k
  <1>14. Far(N)
    <2> HIDE DEF Far
    <2>1. \A i \in 0..N : i \in S
      <3> HIDE DEF S
      <3> QED BY <1>5, <1>12, <1>13, UpTo
    <2>2. N \in 0..N
      BY <1>5
    <2> QED BY <2>1, <2>2
  <1>15. Stopped(turns[N])
    BY <1>5, <1>14 DEF Stopped, N
  <1> QED BY <1>2, <1>14, <1>15 DEF Good, near, ball, D, TraceEnds

(* The values of a function that takes each once are as many as its         *)
(* arguments.                                                               *)
LEMMA ValuesCount ==
    ASSUME NEW n \in Nat, NEW F, \A i, j \in 1..n : i < j => F[i] # F[j]
    PROVE  IsFiniteSet({F[i] : i \in 1..n}) /\ Cardinality({F[i] : i \in 1..n}) = n
  <1> DEFINE J == 1..n
             T == {F[i] : i \in J}
             f == [i \in J |-> F[i]]
  <1>1. IsFiniteSet(J) /\ Cardinality(J) = n
    <2>1. IsFiniteSet(1..n) /\ Cardinality(1..n) = IF 1 > n THEN 0 ELSE n - 1 + 1
      BY FS_Interval
    <2> QED BY <2>1
  <1>2. f \in Surjection(J, T)
    BY DEF Surjection
  <1>3. f \in Injection(J, T)
    <2>1. \A a, b \in J : a # b => F[a] # F[b]
      OBVIOUS
    <2> HIDE DEF J
    <2>2. \A a, b \in J : f[a] = f[b] => a = b
      BY <2>1
    <2>3. f \in [J -> T]
      BY <1>2 DEF Surjection
    <2> HIDE DEF f, T
    <2> QED BY <2>2, <2>3 DEF Injection, IsInjective
  <1> HIDE DEF f, J, T
  <1>4. IsFiniteSet(T) /\ Cardinality(T) = Cardinality(J)
    BY <1>1, <1>2, <1>3, FS_Surjection
  <1> QED BY <1>1, <1>4 DEF J, T

(* Whatever its direction, depth and start, a trace that has ended lists   *)
(* each address once at its distance, within the caps, and all of them if  *)
(* no limit was met.                                                       *)
THEOREM TracesAreExactAlways ==
    ASSUME NEW db, Databases(db), NEW dir, NEW max \in Int, NEW cut, NEW start \in db.fns
    PROVE  TraceIsExact(db, dir, max, cut, start)
  <1> DEFINE t == TraceDataFlow(db, dir, max, cut, start)
             near == Near(db, dir)
             ball == Balls(near, start)
             D == TraceDepth(max)
             M == {t.nodes[i].fn : i \in DOMAIN t.nodes}
             full == Len(t.nodes) >= TraceNodes \/ Len(t.edges) >= TraceEdges \/ t.partial
             F == FnsOf(Met(t))
             E == DepthsOf(Met(t))
             c == Len(t.nodes)
             h == Len(Met(t))
  <1>1. TraceEnds(db, near, start, ball, D, t)
    BY TraceIsDone
  <1>2. Setting(db.fns, near, start, ball, D)
    <2>1. near \in [db.fns -> SUBSET db.fns]
      BY NearIs
    <2> HIDE DEF near
    <2>2. BallsOf(ball, near, db.fns, start)
      BY <2>1, WithinIs
    <2> QED BY <2>1, <2>2, TraceDepthIs DEF Setting
  <1>3. \A k \in Nat : Within(near, start, k) = ball[k]
    BY DEF Balls
  <1> HIDE DEF t, near, ball, D
  <1>4. /\ t \in Traces(db) /\ c \in Nat /\ Len(t.queue) \in Nat /\ h = c + Len(t.queue)
        /\ c + Len(t.queue) <= TraceNodes /\ Len(t.edges) <= TraceEdges
        /\ Lists(F, E, h, db.fns, t.visited, c, start, ball, D)
        /\ FullTrace(t) \/ Closed(F, E, t.visited, near, D, c)
        /\ DOMAIN t.nodes = 1..c /\ D \in Nat
        /\ Stopped(t)
    <2>1. /\ t \in Traces(db)
          /\ c + Len(t.queue) <= TraceNodes /\ Len(t.edges) <= TraceEdges
          /\ Lists(F, E, h, db.fns, t.visited, c, start, ball, D)
          /\ FullTrace(t) \/ Closed(F, E, t.visited, near, D, c)
          /\ Stopped(t)
      BY <1>1 DEF TraceEnds, Traced
    <2>2. t.nodes \in Seq(GraphNodes(db))
      BY <2>1, TraceIs
    <2>3. DOMAIN t.nodes = 1..c
      <3> DEFINE nd == t.nodes
      <3> HIDE DEF nd
      <3> QED BY <2>2 DEF nd
    <2> QED BY <1>2, <2>1, <2>3, MetIs DEF Setting
  <1>5. \A i \in 1..c : i \in 1..h /\ F[i] = t.nodes[i].fn /\ E[i] = t.nodes[i].depth /\ E[i] \in Nat
    <2>1. \A i \in 1..c : i \in 1..h /\ Met(t)[i] = t.nodes[i]
      BY <1>4, MetIs
    <2>2. \A i \in 1..h : E[i] \in Nat
      BY <1>4 DEF Lists
    <2> QED BY <2>1, <2>2 DEF FnsOf, DepthsOf
  <1> HIDE DEF F, E, c, h
  <1>6. M = {F[i] : i \in 1..c}
    BY <1>4, <1>5
  <1>7. Distances(F, E, h, ball, D)
    BY <1>4 DEF Lists
  <1>8. Cardinality(M) = c
    <2>1. \A i, j \in 1..c : i < j => F[i] # F[j]
      BY <1>5, <1>7 DEF Distances
    <2> QED BY <1>4, <1>6, <2>1, ValuesCount
  <1>9. ASSUME NEW i \in 1..c
        PROVE  /\ t.nodes[i].fn \in Within(near, start, t.nodes[i].depth)
               /\ t.nodes[i].depth > 0 => t.nodes[i].fn \notin Within(near, start, t.nodes[i].depth - 1)
    <2>1. F[i] \in ball[E[i]] /\ (E[i] > 0 => F[i] \notin ball[E[i] - 1]) /\ E[i] \in Nat /\ (E[i] > 0 => E[i] - 1 \in Nat)
      BY <1>5, <1>7 DEF Distances
    <2> QED BY <1>3, <1>5, <2>1
  <1>10. ASSUME ~ full PROVE M = Within(near, start, D)
    <2>1. t.queue = <<>> /\ Len(t.queue) = 0
      BY <1>4, <1>10 DEF Stopped, c
    <2>2. h = c /\ ~ FullTrace(t)
      BY <1>4, <1>10, <2>1 DEF FullTrace, c
    <2>3. M = t.visited
      BY <1>4, <1>6, <2>2 DEF Lists
    <2>4. ball[D] \subseteq t.visited
      <3>1. Closed(F, E, t.visited, near, D, c) /\ c \in 0..h /\ D \in 0..D /\ \A j \in 1..h : E[j] < D => j <= c
        BY <1>4, <2>2
      <3>2. Lists(F, E, h, db.fns, t.visited, c, start, ball, D)
        BY <1>4
      <3> QED BY <1>2, <3>1, <3>2, NearIsVisited
    <2>5. ASSUME NEW i \in 1..c PROVE F[i] \in ball[D]
      <3>1. F[i] \in ball[E[i]] /\ E[i] \in Nat /\ E[i] <= D
        BY <1>5, <1>7 DEF Distances
      <3>2. ball[E[i]] \subseteq ball[D]
        BY <1>2, <1>4, <3>1, BallsGrow DEF Setting
      <3> QED BY <3>1, <3>2
    <2>6. M \subseteq ball[D]
      BY <1>6, <2>5
    <2>7. M = ball[D]
      BY <2>3, <2>4, <2>6
    <2>8. Within(near, start, D) = ball[D]
      BY <1>3, <1>4
    <2> HIDE DEF M
    <2> QED BY <2>7, <2>8
  <1>11. Cardinality(M) = Len(t.nodes) /\ Len(t.nodes) <= TraceNodes /\ Len(t.edges) <= TraceEdges
    <2>1. c <= TraceNodes /\ Len(t.edges) <= TraceEdges
      BY <1>4, GraphCapsAre
    <2> HIDE DEF M
    <2> QED BY <1>8, <2>1 DEF c
  <1> QED BY <1>4, <1>9, <1>10, <1>11 DEF TraceIsExact, t, near, D, c

(***************************************************************************)
(* Call graphs.                                                             *)
(***************************************************************************)
LEMMA TargetsAre ==
    ASSUME NEW db, Databases(db), NEW f \in db.fns
    PROVE  /\ Targets(db, f) \in Seq(db.fns) /\ Len(Targets(db, f)) = Len(db.refs[f]) /\ Len(db.refs[f]) \in Nat
           /\ DOMAIN Targets(db, f) = 1..Len(db.refs[f])
           /\ Callees(db, f) = {Targets(db, f)[i] : i \in 1..Len(db.refs[f])}
           /\ Callees(db, f) \in SUBSET db.fns
  <1> DEFINE r == db.refs[f]
             a == Targets(db, f)
             R == [to : db.fns, call : BOOLEAN]
  <1>1. r \in Seq(R)
    BY DEF Databases
  <1>2. a = [i \in DOMAIN r |-> r[i].to]
    BY DEF Targets
  <1>3. Callees(db, f) = {r[i].to : i \in DOMAIN r}
    BY DEF Callees
  <1> HIDE DEF a, r
  <1>4. DOMAIN r = 1..Len(r) /\ Len(r) \in Nat /\ \A i \in 1..Len(r) : r[i] \in R
    <2> HIDE DEF R
    <2> QED BY <1>1
  <1>5. \A i \in 1..Len(r) : r[i].to \in db.fns
    BY <1>4
  <1>6. a \in Seq(db.fns) /\ Len(a) = Len(r) /\ DOMAIN a = 1..Len(r) /\ \A i \in 1..Len(r) : a[i] = r[i].to
    BY <1>2, <1>4, <1>5
  <1>7. Callees(db, f) = {a[i] : i \in 1..Len(r)}
    BY <1>3, <1>4, <1>6
  <1>8. Callees(db, f) \in SUBSET db.fns
    BY <1>3, <1>4, <1>5
  <1> QED BY <1>4, <1>6, <1>7, <1>8 DEF a, r

LEMMA GraphIs ==
    ASSUME NEW db, NEW s \in Graphs(db)
    PROVE  /\ s.nodes \in Seq(GraphNodes(db)) /\ s.edges \in Seq(db.fns \X db.fns) /\ s.visited \in SUBSET db.fns
           /\ s.reason \in {"none", "nodes", "edges", "cancelled"} /\ s.capped \in BOOLEAN
           /\ Len(s.nodes) \in Nat /\ Len(s.edges) \in Nat
           /\ DOMAIN s.nodes = 1..Len(s.nodes) /\ DOMAIN s.edges = 1..Len(s.edges)
           /\ \A i \in 1..Len(s.nodes) : s.nodes[i] \in GraphNodes(db) /\ s.nodes[i].fn \in db.fns /\ s.nodes[i].depth \in Nat
           /\ \A i \in 1..Len(s.edges) : s.edges[i] \in db.fns \X db.fns
  <1> DEFINE a == s.nodes
             b == s.edges
             P == db.fns \X db.fns
  <1>1. a \in Seq(GraphNodes(db)) /\ b \in Seq(P) /\ s.visited \in SUBSET db.fns
        /\ s.reason \in {"none", "nodes", "edges", "cancelled"} /\ s.capped \in BOOLEAN
    BY DEF Graphs, GraphNodes
  <1> HIDE DEF a, b, P
  <1>2. Len(a) \in Nat /\ DOMAIN a = 1..Len(a) /\ \A i \in 1..Len(a) : a[i] \in GraphNodes(db)
    BY <1>1
  <1>3. Len(b) \in Nat /\ DOMAIN b = 1..Len(b) /\ \A i \in 1..Len(b) : b[i] \in P
    BY <1>1
  <1>4. \A i \in 1..Len(a) : a[i].fn \in db.fns /\ a[i].depth \in Nat
    BY <1>2 DEF GraphNodes
  <1> QED BY <1>1, <1>2, <1>3, <1>4 DEF a, b, P

(* A graph with one more edge, or one more node. *)
LEMMA Drawing ==
    ASSUME NEW db, NEW s \in Graphs(db)
    PROVE  /\ \A x, y \in db.fns : [s EXCEPT !.edges = Append(@, <<x, y>>)] \in Graphs(db)
           /\ \A x \in db.fns, d \in Nat :
                [s EXCEPT !.visited = @ \union {x}, !.nodes = Append(@, [fn |-> x, depth |-> d])] \in Graphs(db)
           /\ [s EXCEPT !.capped = TRUE] \in Graphs(db)
           /\ \A r \in {"none", "nodes", "edges", "cancelled"} : [s EXCEPT !.reason = r] \in Graphs(db)
  <1>1. ASSUME NEW x \in db.fns, NEW y \in db.fns PROVE Append(s.edges, <<x, y>>) \in Seq(db.fns \X db.fns)
    BY GraphIs, AppendProperties
  <1>2. ASSUME NEW x \in db.fns, NEW d \in Nat PROVE Append(s.nodes, [fn |-> x, depth |-> d]) \in Seq(GraphNodes(db))
    <2>1. [fn |-> x, depth |-> d] \in GraphNodes(db)
      BY DEF GraphNodes
    <2> QED BY <2>1, GraphIs, AppendProperties
  <1>3. ASSUME NEW x \in db.fns, NEW y \in db.fns PROVE [s EXCEPT !.edges = Append(@, <<x, y>>)] \in Graphs(db)
    <2> DEFINE e == Append(s.edges, <<x, y>>)
    <2>1. e \in Seq(db.fns \X db.fns)
      BY <1>1
    <2> HIDE DEF e
    <2>2. [s EXCEPT !.edges = e] \in Graphs(db)
      BY <2>1 DEF Graphs
    <2>3. [s EXCEPT !.edges = Append(@, <<x, y>>)] = [s EXCEPT !.edges = e]
      BY DEF e, Graphs
    <2> QED BY <2>2, <2>3
  <1>4. ASSUME NEW x \in db.fns, NEW d \in Nat
        PROVE  [s EXCEPT !.visited = @ \union {x}, !.nodes = Append(@, [fn |-> x, depth |-> d])] \in Graphs(db)
    <2> DEFINE e == Append(s.nodes, [fn |-> x, depth |-> d])
               v == s.visited \union {x}
    <2>1. e \in Seq([fn : db.fns, depth : Nat]) /\ v \in SUBSET db.fns
      BY <1>2, GraphIs DEF GraphNodes
    <2> HIDE DEF e, v
    <2>2. [s EXCEPT !.visited = v, !.nodes = e] \in Graphs(db)
      BY <2>1 DEF Graphs
    <2>3. [s EXCEPT !.visited = @ \union {x}, !.nodes = Append(@, [fn |-> x, depth |-> d])]
          = [s EXCEPT !.visited = v, !.nodes = e]
      BY DEF e, v, Graphs
    <2> QED BY <2>2, <2>3
  <1>5. [s EXCEPT !.capped = TRUE] \in Graphs(db)
    BY DEF Graphs
  <1>6. ASSUME NEW r \in {"none", "nodes", "edges", "cancelled"} PROVE [s EXCEPT !.reason = r] \in Graphs(db)
    BY DEF Graphs
  <1> QED BY <1>3, <1>4, <1>5, <1>6

LEMMA FollowIs ==
    ASSUME NEW db, NEW s \in Graphs(db), NEW lim, NEW f \in db.fns, NEW g \in db.fns, NEW i, NEW deeper \in Visits(db)
    PROVE  Follow(lim, s, f, g, i, deeper) \in Graphs(db)
  <1> DEFINE e == [s EXCEPT !.edges = Append(@, <<f, g>>)]
             c == [s EXCEPT !.capped = TRUE]
             r == [s EXCEPT !.reason = "edges"]
  <1>1. e \in Graphs(db) /\ c \in Graphs(db) /\ r \in Graphs(db)
    BY Drawing
  <1>2. Follow(lim, s, f, g, i, deeper) \in {s, c, r, deeper[<<e, g>>]}
    BY DEF Follow
  <1> HIDE DEF e, c, r
  <1>3. deeper[<<e, g>>] \in Graphs(db)
    BY <1>1 DEF Visits
  <1> QED BY <1>1, <1>2, <1>3

LEMMA FollowRefsIs ==
    ASSUME NEW db, Databases(db), NEW lim, NEW s \in Graphs(db), NEW f \in db.fns, NEW deeper \in Visits(db)
    PROVE  Followed(db, lim, s, f, deeper, FollowRefs(db, lim, s, f, deeper))
  <1> DEFINE refs == Targets(db, f)
             N == Len(refs)
             A == Graphs(db)
             Go(t, k) == Follow(lim, t, f, refs[k], k, deeper)
             F == [p \in A \X (1..N) |-> Go(p[1], p[2])]
             Rec(g) == g = [i \in 0..N |-> IF i = 0 THEN s ELSE Go(g[i - 1], i)]
             followed == CHOOSE g : Rec(g)
  <1>1. FollowRefs(db, lim, s, f, deeper) = followed
    BY DEF FollowRefs
  <1>2. N \in Nat /\ N = Len(db.refs[f]) /\ \A k \in 1..N : refs[k] \in db.fns
    BY TargetsAre
  <1> HIDE DEF refs
  <1>3. ASSUME NEW t \in A, NEW k \in 1..N PROVE Go(t, k) \in A
    <2>1. refs[k] \in db.fns
      BY <1>2
    <2> QED BY <2>1, FollowIs
  <1> HIDE DEF Go, A, N
  <1>4. F \in [A \X (1..N) -> A]
    BY <1>3
  <1>5. PICK f0 : Solves(f0, A, s, N, F)
    <2>1. s \in A
      BY DEF A
    <2> HIDE DEF F
    <2> QED BY <1>2, <1>4, <2>1, RecursionExists, Zenon
  <1>6. f0 \in [0..N -> A] /\ f0[0] = s /\ \A k \in 1..N : f0[k] = Go(f0[k - 1], k)
    <2>1. ASSUME NEW k \in 1..N PROVE f0[k] = Go(f0[k - 1], k)
      <3>1. k - 1 \in 0..N
        BY <1>2
      <3>2. <<f0[k - 1], k>> \in A \X (1..N) /\ f0[k] = F[<<f0[k - 1], k>>]
        <4> HIDE DEF F
        <4> QED BY <3>1, <1>5 DEF Solves
      <3> QED BY <3>2
    <2> HIDE DEF F
    <2> QED BY <1>5, <2>1 DEF Solves
  <1>7. Rec(f0)
    <2>1. \A i \in 0..N : i # 0 => i \in 1..N
      BY <1>2
    <2> HIDE DEF F
    <2> QED BY <1>6, <2>1
  <1>8. Rec(followed)
    <2> HIDE DEF Rec
    <2> QED BY <1>7
  <1> HIDE DEF followed
  <1>9. followed = [i \in 0..N |-> followed[i]] /\ followed[0] = s /\ \A k \in 1..N : followed[k] = Go(followed[k - 1], k)
    <2>1. 0 \in 0..N /\ \A k \in 1..N : k \in 0..N /\ k # 0
      BY <1>2
    <2> QED BY <1>8, <2>1
  <1> HIDE DEF Rec
  <1>10. Solves(followed, A, s, N, F)
    <2>1. ASSUME NEW k \in 1..N, followed[k - 1] \in A PROVE followed[k] = F[<<followed[k - 1], k>>]
      BY <1>9, <2>1
    <2>2. s \in A
      BY DEF A
    <2> HIDE DEF F
    <2> QED BY <1>2, <1>4, <1>9, <2>1, <2>2, SolvesWhile
  <1>11. followed \in [0..N -> A]
    BY <1>10 DEF Solves
  <1> QED BY <1>1, <1>2, <1>9, <1>11 DEF Followed, A, Go, refs

LEMMA VisitIs ==
    ASSUME NEW db, Databases(db), NEW lim, NEW cut, NEW s \in Graphs(db), NEW f \in db.fns, NEW d \in Nat,
           NEW deeper \in Visits(db)
    PROVE  Visit(db, lim, cut, s, f, d, deeper) \in Graphs(db)
  <1> DEFINE t == [s EXCEPT !.visited = @ \union {f}, !.nodes = Append(@, [fn |-> f, depth |-> d])]
             a == [s EXCEPT !.reason = "nodes"]
             b == [s EXCEPT !.reason = "cancelled"]
             g == FollowRefs(db, lim, t, f, deeper)
             n == Len(db.refs[f])
  <1>1. t \in Graphs(db) /\ a \in Graphs(db) /\ b \in Graphs(db)
    BY Drawing
  <1>2. Visit(db, lim, cut, s, f, d, deeper) \in {s, a, b, g[n]}
    BY DEF Visit
  <1> HIDE DEF t, a, b
  <1>3. Followed(db, lim, t, f, deeper, g) /\ n \in 0..n
    BY <1>1, FollowRefsIs, TargetsAre
  <1>4. g[n] \in Graphs(db)
    BY <1>3 DEF Followed
  <1> QED BY <1>1, <1>2, <1>4

(* The recursion of Traverse has a solution.                               *)
LEMMA TraverseIs ==
    ASSUME NEW db, Databases(db), NEW lim, NEW cut, lim.depth \in Nat
    PROVE  \E T : Levels(db, lim, cut, T) /\ Traverse(db, lim, cut) = T[lim.depth + 1]
  <1> DEFINE N == lim.depth + 1
             D == Graphs(db) \X db.fns
             A == Visits(db)
             Low == [p \in D |-> p[1]]
             Go(U, k) == [p \in D |-> Visit(db, lim, cut, p[1], p[2], N - k, U)]
             Stride(U, k) == [p \in D |-> IF k = 0 THEN p[1] ELSE Visit(db, lim, cut, p[1], p[2], N - k, U)]
             Rec(g) == g = [k \in 0..N |-> Stride(g[k - 1], k)]
             F == [q \in A \X (1..N) |-> Go(q[1], q[2])]
             T == CHOOSE g : Rec(g)
  <1>1. Traverse(db, lim, cut) = T[N]
    BY DEF Traverse
  <1>2. N \in Nat
    OBVIOUS
  <1>3. Low \in A
    BY DEF Visits
  <1>4. ASSUME NEW U \in A, NEW k \in 1..N PROVE Go(U, k) \in A
    <2>1. N - k \in Nat
      OBVIOUS
    <2> HIDE DEF N
    <2>2. \A p \in D : p[1] \in Graphs(db) /\ p[2] \in db.fns
      OBVIOUS
    <2>3. \A p \in D : Visit(db, lim, cut, p[1], p[2], N - k, U) \in Graphs(db)
      BY <2>1, <2>2, VisitIs
    <2> QED BY <2>3 DEF Visits
  <1>5. \A U, k : DOMAIN Go(U, k) = D
    OBVIOUS
  <1>6. \A g, k : k # 0 => Stride(g, k) = Go(g, k)
    OBVIOUS
  <1>7. \A g : Stride(g, 0) = Low
    OBVIOUS
  <1>8. \A g : Rec(g) <=> g = [k \in 0..N |-> Stride(g[k - 1], k)]
    OBVIOUS
  <1> HIDE DEF N, A, Low, Go, Rec, Stride, D
  <1>9. F \in [A \X (1..N) -> A]
    BY <1>4
  <1>10. PICK f : Solves(f, A, Low, N, F)
    <2> HIDE DEF F
    <2> QED BY <1>2, <1>3, <1>9, RecursionExists, Zenon
  <1>11. f \in [0..N -> A] /\ f[0] = Low /\ \A k \in 1..N : f[k] = Go(f[k - 1], k)
    <2>1. ASSUME NEW k \in 1..N PROVE f[k] = Go(f[k - 1], k)
      <3>1. k - 1 \in 0..N
        BY <1>2
      <3>2. <<f[k - 1], k>> \in A \X (1..N) /\ f[k] = F[<<f[k - 1], k>>]
        <4> HIDE DEF F
        <4> QED BY <3>1, <1>10 DEF Solves
      <3> QED BY <3>2
    <2> HIDE DEF F
    <2> QED BY <1>10, <2>1 DEF Solves
  <1>12. Rec(f)
    <2>1. \A k \in 0..N : f[k] = Stride(f[k - 1], k)
      <3>1. \A k \in 0..N : k # 0 => k \in 1..N
        BY <1>2
      <3> QED BY <1>6, <1>7, <1>11, <3>1
    <2> HIDE DEF F
    <2> QED BY <1>8, <1>11, <2>1
  <1>13. Rec(T)
    BY <1>12
  <1> HIDE DEF T
  <1>14. T = [k \in 0..N |-> T[k]] /\ T[0] = Low /\ \A k \in 1..N : T[k] = Go(T[k - 1], k)
    <2>1. 0 \in 0..N /\ \A k \in 1..N : k \in 0..N /\ k # 0
      BY <1>2
    <2>2. T = [k \in 0..N |-> Stride(T[k - 1], k)]
      BY <1>8, <1>13
    <2> QED BY <1>6, <1>7, <2>1, <2>2
  <1>15. Solves(T, A, Low, N, F)
    <2>1. ASSUME NEW k \in 1..N, T[k - 1] \in A PROVE T[k] = F[<<T[k - 1], k>>]
      BY <1>14, <2>1
    <2> HIDE DEF F
    <2> QED BY <1>2, <1>3, <1>9, <1>14, <2>1, SolvesWhile
  <1>16. T \in [0..N -> A]
    BY <1>15 DEF Solves
  <1>17. ASSUME NEW p \in Graphs(db) \X db.fns
         PROVE  T[0][p] = p[1] /\ \A k \in 1..N : T[k][p] = Visit(db, lim, cut, p[1], p[2], N - k, T[k - 1])
    <2>1. p \in D
      BY DEF D
    <2>2. Low[p] = p[1]
      BY <2>1 DEF Low
    <2>3. \A U, k : Go(U, k)[p] = Visit(db, lim, cut, p[1], p[2], N - k, U)
      BY <2>1 DEF Go
    <2> QED BY <1>14, <2>2, <2>3
  <1> QED BY <1>1, <1>16, <1>17 DEF Levels, A, N

LEMMA FromIs ==
    ASSUME NEW db, NEW s \in Graphs(db), NEW x
    PROVE  IsFiniteSet(From(s, x)) /\ Cardinality(From(s, x)) \in Nat
  <1>1. Len(s.edges) \in Nat
    BY GraphIs
  <1>2. IsFiniteSet(1..Len(s.edges))
    BY <1>1, FS_Interval
  <1>3. From(s, x) \in SUBSET (1..Len(s.edges))
    BY DEF From
  <1> QED BY <1>2, <1>3, FS_Subset, FS_CardinalityType

LEMMA GrownOn ==
    ASSUME NEW s, NEW t, NEW u, NEW X, Grown(s, t, X), Grown(t, u, {}), Len(s.nodes) \in Nat, Len(s.edges) \in Nat,
           Len(t.nodes) \in Nat, Len(t.edges) \in Nat, Len(u.nodes) \in Nat, Len(u.edges) \in Nat
    PROVE  Grown(s, u, X)
  <1>1. /\ s.visited \subseteq u.visited /\ Len(s.nodes) <= Len(u.nodes) /\ Len(s.edges) <= Len(u.edges)
        /\ Clean(u) => Clean(s)
    BY DEF Grown
  <1>2. \A i \in 1..Len(s.nodes) : i \in 1..Len(t.nodes) /\ u.nodes[i] = s.nodes[i]
    BY DEF Grown
  <1>3. \A i \in 1..Len(s.edges) : i \in 1..Len(t.edges) /\ u.edges[i] = s.edges[i]
    BY DEF Grown
  <1>4. ASSUME NEW k \in 1..Len(u.edges)
        PROVE  k <= Len(s.edges) \/ u.edges[k][1] \in X \/ u.edges[k][1] \notin s.visited
    <2>1. CASE k <= Len(t.edges)
      <3>1. k \in 1..Len(t.edges) /\ u.edges[k] = t.edges[k]
        BY <2>1 DEF Grown
      <3> QED BY <3>1 DEF Grown
    <2>2. CASE ~ (k <= Len(t.edges))
      <3>1. u.edges[k][1] \notin t.visited
        BY <2>2 DEF Grown
      <3> QED BY <3>1 DEF Grown
    <2> QED BY <2>1, <2>2
  <1> QED BY <1>1, <1>2, <1>3, <1>4 DEF Grown

LEMMA GrownSelf == ASSUME NEW s, NEW X, Len(s.nodes) \in Nat, Len(s.edges) \in Nat PROVE Grown(s, s, X)
  <1>1. \A k \in 1..Len(s.edges) : k <= Len(s.edges)
    OBVIOUS
  <1> QED BY <1>1 DEF Grown

LEMMA EdgeStays ==
    ASSUME NEW s, NEW u, NEW X, Grown(s, u, X), NEW x, NEW y, Edge(s, x, y), Len(s.edges) \in Nat, Len(u.edges) \in Nat
    PROVE  Edge(u, x, y)
  <1>1. PICK k \in 1..Len(s.edges) : s.edges[k] = <<x, y>>
    BY DEF Edge
  <1>2. k \in 1..Len(u.edges) /\ u.edges[k] = <<x, y>>
    BY <1>1 DEF Grown
  <1> QED BY <1>2 DEF Edge

(* The edges of a function are kept. *)
LEMMA FromStays ==
    ASSUME NEW s, NEW u, NEW X, Grown(s, u, X), Len(s.edges) \in Nat, Len(u.edges) \in Nat, NEW x \in s.visited, x \notin X
    PROVE  From(u, x) = From(s, x)
  <1>1. ASSUME NEW k \in From(s, x) PROVE k \in From(u, x)
    <2>1. k \in 1..Len(s.edges) /\ s.edges[k][1] = x
      BY DEF From
    <2>2. k \in 1..Len(u.edges) /\ u.edges[k] = s.edges[k]
      BY <2>1 DEF Grown
    <2> QED BY <2>1, <2>2 DEF From
  <1>2. ASSUME NEW k \in From(u, x) PROVE k \in From(s, x)
    <2>1. k \in 1..Len(u.edges) /\ u.edges[k][1] = x
      BY DEF From
    <2>2. k <= Len(s.edges)
      BY <2>1 DEF Grown
    <2>3. k \in 1..Len(s.edges) /\ u.edges[k] = s.edges[k]
      BY <2>1, <2>2 DEF Grown
    <2> QED BY <2>1, <2>3 DEF From
  <1> QED BY <1>1, <1>2

(* And what is done stays done. *)
LEMMA DoneStays ==
    ASSUME NEW db, NEW lim, NEW s, NEW u, NEW X, Grown(s, u, X), s \in Graphs(db), u \in Graphs(db), Distinct(s), Distinct(u),
           NEW x \in s.visited, x \notin X, FullyDrawn(s, db, lim, x)
    PROVE  FullyDrawn(u, db, lim, x)
  <1>1. Len(s.nodes) \in Nat /\ Len(s.edges) \in Nat /\ Len(u.nodes) \in Nat /\ Len(u.edges) \in Nat
    BY GraphIs
  <1>2. From(u, x) = From(s, x)
    BY <1>1, FromStays
  <1>3. \A c \in Callees(db, x) : Edge(u, x, c)
    BY <1>1, EdgeStays DEF FullyDrawn
  <1>4. ASSUME NEW i \in 1..Len(u.nodes), u.nodes[i].fn = x, u.nodes[i].depth < lim.depth
        PROVE  Callees(db, x) \subseteq u.visited
    <2>1. PICK j \in 1..Len(s.nodes) : s.nodes[j].fn = x
      BY DEF Distinct
    <2>2. j \in 1..Len(u.nodes) /\ u.nodes[j] = s.nodes[j]
      BY <1>1, <2>1 DEF Grown
    <2>3. ~ (i < j) /\ ~ (j < i)
      BY <1>4, <2>1, <2>2 DEF Distinct
    <2>4. i = j
      BY <1>1, <2>1, <2>2, <2>3
    <2>5. Callees(db, x) \subseteq s.visited
      BY <1>4, <2>1, <2>2, <2>4 DEF FullyDrawn
    <2> QED BY <2>5 DEF Grown
  <1> QED BY <1>2, <1>3, <1>4 DEF FullyDrawn

LEMMA EdgeAdded ==
    ASSUME NEW db, NEW lim, NEW root, NEW t, Drawn(t, db, lim, root), NEW f \in t.visited, NEW g \in Callees(db, f),
           Callees(db, f) \in SUBSET db.fns, IsLimit(lim), Len(t.edges) < lim.edges, Cardinality(From(t, f)) < lim.per
    PROVE  EdgeOn(db, lim, root, t, f, g, WithEdge(t, f, g))
  <1> DEFINE e == WithEdge(t, f, g)
             n == Len(t.edges)
  <1>1. /\ t \in Graphs(db) /\ Len(t.nodes) <= lim.nodes /\ n <= lim.edges /\ n \in Nat /\ Len(t.nodes) \in Nat
        /\ Distinct(t) /\ Edged(t, db, lim) /\ Hanging(t, lim, root) /\ f \in db.fns /\ g \in db.fns
        /\ t.edges \in Seq(db.fns \X db.fns)
    BY GraphIs DEF Drawn
  <1>2. /\ e.visited = t.visited /\ e.nodes = t.nodes /\ e.reason = t.reason /\ e.capped = t.capped
        /\ e.edges = Append(t.edges, <<f, g>>) /\ e \in Graphs(db)
    <2>1. e \in Graphs(db)
      BY <1>1, Drawing DEF WithEdge
    <2> QED BY <1>1, <2>1 DEF Graphs, WithEdge
  <1> HIDE DEF e
  <1>3. /\ Len(e.edges) = n + 1 /\ e.edges[n + 1] = <<f, g>>
        /\ \A k \in 1..n : e.edges[k] = t.edges[k]
    BY <1>1, <1>2, AppendProperties
  <1> HIDE DEF n
  <1>4. Grown(t, e, {f}) /\ Edge(e, f, g)
    <2>1. \A k \in 1..(n + 1) : k <= n \/ k = n + 1
      BY <1>1
    <2>2. n <= n + 1 /\ n + 1 \in 1..(n + 1)
      BY <1>1
    <2>3. Clean(e) => Clean(t)
      BY <1>2 DEF Clean
    <2>4. Grown(t, e, {f})
      BY <1>1, <1>2, <1>3, <2>1, <2>2, <2>3 DEF Grown, n
    <2> QED BY <1>3, <2>2, <2>4 DEF Edge
  <1>5. From(e, f) = From(t, f) \union {n + 1} /\ n + 1 \notin From(t, f)
    <2>1. \A k \in 1..(n + 1) : k \in 1..n \/ k = n + 1
      BY <1>1
    <2>2. \A k \in 1..n : k \in 1..(n + 1) /\ k # n + 1
      BY <1>1
    <2>3. n + 1 \in 1..(n + 1)
      BY <1>1
    <2> QED BY <1>3, <2>1, <2>2, <2>3 DEF From, n
  <1>6. Cardinality(From(e, f)) = Cardinality(From(t, f)) + 1 /\ Cardinality(From(t, f)) \in Nat
    BY <1>1, <1>5, FromIs, FS_AddElement
  <1>7. \A x \in t.visited : x # f => From(e, x) = From(t, x)
    BY <1>1, <1>2, <1>3, <1>4, FromStays DEF n
  <1>8. Edged(e, db, lim)
    <2>1. \A k \in 1..Len(e.edges) : e.edges[k][1] \in e.visited /\ e.edges[k][2] \in Callees(db, e.edges[k][1])
      <3> SUFFICES ASSUME NEW k \in 1..(n + 1)
                   PROVE  e.edges[k][1] \in e.visited /\ e.edges[k][2] \in Callees(db, e.edges[k][1])
        BY <1>3
      <3>1. CASE k \in 1..n
        BY <1>1, <1>2, <1>3, <3>1 DEF Edged, n
      <3>2. CASE k = n + 1
        BY <1>2, <1>3, <3>2
      <3> QED BY <1>1, <3>1, <3>2
    <2>2. ASSUME NEW x \in t.visited PROVE Cardinality(From(e, x)) <= lim.per
      <3>1. CASE x = f
        BY <1>6, <3>1 DEF IsLimit
      <3>2. CASE x # f
        BY <1>1, <1>7, <3>2 DEF Edged
      <3> QED BY <3>1, <3>2
    <2> QED BY <1>2, <2>1, <2>2 DEF Edged
  <1>9. Distinct(e)
    BY <1>1, <1>2 DEF Distinct
  <1>10. Hanging(e, lim, root)
    <2>1. \A x, y : Edge(t, x, y) => Edge(e, x, y)
      BY <1>1, <1>3, <1>4, EdgeStays DEF n
    <2>2. \A x, d, m : Hung(t, x, d, m) => Hung(e, x, d, m)
      BY <1>2, <2>1 DEF Hung
    <2> QED BY <1>1, <1>2, <2>2 DEF Hanging
  <1>11. Len(e.edges) <= lim.edges
    BY <1>1, <1>3 DEF IsLimit, n
  <1>12. Drawn(e, db, lim, root)
    BY <1>1, <1>2, <1>8, <1>9, <1>10, <1>11 DEF Drawn
  <1> QED BY <1>2, <1>4, <1>6, <1>12 DEF e, EdgeOn

LEMMA NodeAdded ==
    ASSUME NEW db, NEW lim, NEW root, NEW s, NEW f, NEW d, Visitable(s, db, lim, root, f, d), f \notin s.visited,
           IsLimit(lim), Len(s.nodes) < lim.nodes, d <= lim.depth
    PROVE  NodeOn(db, lim, root, s, f, d, WithNode(s, f, d))
  <1> DEFINE t == WithNode(s, f, d)
             n == Len(s.nodes)
             x == [fn |-> f, depth |-> d]
  <1>1. /\ s \in Graphs(db) /\ Len(s.edges) <= lim.edges /\ n \in Nat /\ Len(s.edges) \in Nat
        /\ Distinct(s) /\ Edged(s, db, lim) /\ Hanging(s, lim, root) /\ f \in db.fns /\ d \in Nat
        /\ s.nodes \in Seq(GraphNodes(db)) /\ x \in GraphNodes(db)
        /\ (n = 0 /\ f = root /\ d = 0) \/ Hung(s, f, d, n)
    BY GraphIs DEF Drawn, Visitable, GraphNodes
  <1>2. /\ t.visited = s.visited \union {f} /\ t.nodes = Append(s.nodes, x) /\ t.reason = s.reason /\ t.capped = s.capped
        /\ t.edges = s.edges /\ t \in Graphs(db)
    <2>1. t \in Graphs(db)
      BY <1>1, Drawing DEF WithNode
    <2> QED BY <1>1, <2>1 DEF Graphs, WithNode
  <1> HIDE DEF t
  <1>3. /\ Len(t.nodes) = n + 1 /\ t.nodes[n + 1] = x
        /\ \A i \in 1..n : t.nodes[i] = s.nodes[i]
    <2> HIDE DEF x
    <2> QED BY <1>1, <1>2, AppendProperties
  <1> HIDE DEF n
  <1>a. /\ \A i \in 1..(n + 1) : i \in 1..n \/ i = n + 1
        /\ \A i \in 1..n : i \in 1..(n + 1) /\ i # n + 1
        /\ n + 1 \in 1..(n + 1) /\ n <= n + 1
    BY <1>1
  <1>4. Grown(s, t, {})
    <2>1. \A k \in 1..Len(s.edges) : k <= Len(s.edges)
      BY <1>1
    <2>2. Clean(t) => Clean(s)
      BY <1>2 DEF Clean
    <2> QED BY <1>1, <1>2, <1>3, <1>a, <2>1, <2>2 DEF Grown, n
  <1>5. From(t, f) = {}
    BY <1>1, <1>2 DEF From, Edged
  <1>6. Distinct(t)
    <2>1. t.visited = {t.nodes[i].fn : i \in 1..(n + 1)}
      <3>1. s.visited = {s.nodes[i].fn : i \in 1..n}
        BY <1>1 DEF Distinct, n
      <3>2. \A i \in 1..n : t.nodes[i].fn = s.nodes[i].fn
        BY <1>3
      <3>3. t.nodes[n + 1].fn = f
        BY <1>3
      <3>4. ASSUME NEW y \in t.visited PROVE \E i \in 1..(n + 1) : y = t.nodes[i].fn
        <4>1. CASE y = f
          BY <1>a, <3>3, <4>1
        <4>2. CASE y \in s.visited
          BY <1>a, <3>1, <3>2, <4>2
        <4> QED BY <1>2, <4>1, <4>2
      <3>5. ASSUME NEW i \in 1..(n + 1) PROVE t.nodes[i].fn \in t.visited
        <4>1. CASE i \in 1..n
          BY <1>2, <3>1, <3>2, <4>1
        <4>2. CASE i = n + 1
          BY <1>2, <3>3, <4>2
        <4> QED BY <1>a, <4>1, <4>2
      <3> QED BY <3>4, <3>5
    <2>2. ASSUME NEW i \in 1..(n + 1), NEW j \in 1..(n + 1), i < j PROVE t.nodes[i].fn # t.nodes[j].fn
      <3>1. i \in 1..n
        BY <1>1, <2>2
      <3>2. CASE j \in 1..n
        BY <1>1, <1>3, <2>2, <3>1, <3>2, SMTT(20) DEF Distinct, n
      <3>3. CASE j = n + 1
        <4>1. t.nodes[i] = s.nodes[i] /\ t.nodes[j].fn = f /\ s.nodes[i].fn \in s.visited
          BY <1>1, <1>3, <3>1, <3>3 DEF Distinct, n
        <4> QED BY <4>1
      <3> QED BY <1>a, <3>2, <3>3
    <2> QED BY <1>3, <2>1, <2>2 DEF Distinct
  <1>7. Edged(t, db, lim)
    <2>1. \A y : From(t, y) = From(s, y)
      BY <1>2 DEF From
    <2>2. Cardinality(From(t, f)) <= lim.per
      BY <1>5, FS_EmptySet DEF IsLimit
    <2>3. \A y \in t.visited : Cardinality(From(t, y)) <= lim.per
      BY <1>1, <1>2, <2>1, <2>2 DEF Edged
    <2> QED BY <1>1, <1>2, <2>3 DEF Edged
  <1>8. Hanging(t, lim, root)
    <2>1. \A y, z : Edge(s, y, z) => Edge(t, y, z)
      BY <1>2 DEF Edge
    <2>2. ASSUME NEW y, NEW e, NEW m \in 0..n, Hung(s, y, e, m) PROVE Hung(t, y, e, m)
      <3>1. PICK j \in 1..m : Edge(s, s.nodes[j].fn, y) /\ e = s.nodes[j].depth + 1
        BY <2>2 DEF Hung
      <3>2. j \in 1..n
        BY <1>1, <3>1
      <3>3. t.nodes[j] = s.nodes[j]
        BY <1>3, <3>2
      <3> QED BY <2>1, <3>1, <3>3 DEF Hung
    <2> SUFFICES ASSUME NEW i \in 1..(n + 1)
                 PROVE  /\ t.nodes[i].depth <= lim.depth
                        /\ i = 1 => t.nodes[i] = [fn |-> root, depth |-> 0]
                        /\ i > 1 => Hung(t, t.nodes[i].fn, t.nodes[i].depth, i - 1)
      BY <1>3 DEF Hanging
    <2>3. CASE i \in 1..n
      <3>1. i - 1 \in 0..n /\ t.nodes[i] = s.nodes[i]
        BY <1>1, <1>3, <2>3
      <3> QED BY <1>1, <2>2, <2>3, <3>1 DEF Hanging, n
    <2>4. CASE i = n + 1
      <3>1. t.nodes[i] = x /\ t.nodes[i].fn = f /\ t.nodes[i].depth = d /\ i - 1 = n /\ n \in 0..n
        BY <1>1, <1>3, <2>4
      <3>2. CASE n = 0 /\ f = root /\ d = 0
        <4>1. ~ (i > 1)
          BY <2>4, <3>2
        <4> QED BY <3>1, <3>2, <4>1
      <3>3. CASE Hung(s, f, d, n)
        <4>1. Hung(t, f, d, n)
          BY <2>2, <3>1, <3>3
        <4>2. n # 0
          BY <3>3 DEF Hung
        <4>3. i # 1
          BY <1>1, <2>4, <4>2
        <4> QED BY <3>1, <4>1, <4>3
      <3> QED BY <1>1, <3>2, <3>3
    <2> QED BY <1>a, <2>3, <2>4
  <1>9. Len(t.nodes) <= lim.nodes
    BY <1>1, <1>3 DEF IsLimit, n
  <1>10. Drawn(t, db, lim, root)
    BY <1>1, <1>2, <1>6, <1>7, <1>8, <1>9 DEF Drawn
  <1>11. \E j \in 1..Len(t.nodes) : t.nodes[j] = x
    BY <1>3, <1>a
  <1> QED BY <1>2, <1>4, <1>5, <1>10, <1>11 DEF t, NodeOn

LEMMA CleanIsDrawn ==
    ASSUME NEW db, NEW lim, NEW root, NEW s, NEW u, Drawn(s, db, lim, root), u \in Graphs(db),
           u.nodes = s.nodes, u.edges = s.edges, u.visited = s.visited, ~ Clean(u)
    PROVE  Drawn(u, db, lim, root) /\ \A x : From(u, x) = From(s, x)
  <1>1. \A x, y : Edge(s, x, y) <=> Edge(u, x, y)
    BY DEF Edge
  <1>2. \A x, d, n : Hung(s, x, d, n) <=> Hung(u, x, d, n)
    BY <1>1 DEF Hung
  <1>3. \A x : From(u, x) = From(s, x)
    BY DEF From
  <1>4. Distinct(u) /\ Edged(u, db, lim) /\ Hanging(u, lim, root)
    BY <1>2, <1>3 DEF Drawn, Distinct, Edged, Hanging
  <1> QED BY <1>3, <1>4 DEF Drawn

LEMMA MarkedIs ==
    ASSUME NEW db, NEW lim, NEW root, NEW s, NEW u, Drawn(s, db, lim, root),
           u \in {[s EXCEPT !.capped = TRUE], [s EXCEPT !.reason = "edges"], [s EXCEPT !.reason = "nodes"],
                  [s EXCEPT !.reason = "cancelled"]}
    PROVE  Marked(db, lim, root, s, u)
  <1>1. s \in Graphs(db)
    BY DEF Drawn
  <1>2. u \in Graphs(db)
    <2>1. [s EXCEPT !.capped = TRUE] \in Graphs(db)
      BY <1>1, Drawing
    <2>2. \A r \in {"none", "nodes", "edges", "cancelled"} : [s EXCEPT !.reason = r] \in Graphs(db)
      BY <1>1, Drawing
    <2> QED BY <2>1, <2>2
  <1>3. u.nodes = s.nodes /\ u.edges = s.edges /\ u.visited = s.visited /\ ~ Clean(u)
    BY <1>1 DEF Graphs, Clean
  <1>4. Drawn(u, db, lim, root) /\ \A x : From(u, x) = From(s, x)
    BY <1>2, <1>3, CleanIsDrawn
  <1>5. Len(s.edges) \in Nat /\ Len(s.nodes) \in Nat /\ \A k \in 1..Len(s.edges) : k <= Len(s.edges)
    BY <1>1, GraphIs
  <1>6. \A X : Grown(s, u, X)
    BY <1>3, <1>5 DEF Grown
  <1> QED BY <1>3, <1>4, <1>6 DEF Marked

LEMMA FollowGives ==
    ASSUME NEW lim, NEW s, NEW f, NEW g, NEW i \in Nat, NEW deeper, IsLimit(lim), Len(s.edges) \in Nat
    PROVE  Follow(lim, s, f, g, i, deeper) =
             IF s.reason # "none" THEN s
             ELSE IF i > lim.per THEN [s EXCEPT !.capped = TRUE]
             ELSE IF Len(s.edges) >= lim.edges THEN [s EXCEPT !.reason = "edges"]
             ELSE deeper[<<WithEdge(s, f, g), g>>]
  <1> DEFINE B == [s EXCEPT !.capped = TRUE]
             C == [s EXCEPT !.reason = "edges"]
             D == deeper[<<WithEdge(s, f, g), g>>]
             r == s.reason = "none"
             p == i > lim.per
             q == i <= lim.per
             n == Len(s.edges) >= lim.edges
  <1>1. Follow(lim, s, f, g, i, deeper) =
          CASE s.reason # "none" -> s [] r /\ p -> B [] r /\ q /\ n -> C [] OTHER -> D
    BY DEF Follow, WithEdge
  <1>2. q <=> ~ p
    BY DEF IsLimit
  <1>3. s.reason # "none" <=> ~ r
    OBVIOUS
  <1>4. p \in BOOLEAN /\ n \in BOOLEAN /\ r \in BOOLEAN
    BY DEF IsLimit
  <1> HIDE DEF B, C, D, p, q, n
  <1>5. Follow(lim, s, f, g, i, deeper) = IF s.reason # "none" THEN s ELSE IF p THEN B ELSE IF n THEN C ELSE D
    BY <1>1, <1>2, <1>3, <1>4
  <1> QED BY <1>5 DEF B, C, D, p, n

(* One reference after another.                                            *)
LEMMA FollowKeeps ==
    ASSUME NEW db, Databases(db), NEW lim, IsLimit(lim), NEW root, NEW f, NEW d, NEW t0, NEW t, NEW m,
           Following(t0, t, db, lim, root, f, d, m), m < Len(db.refs[f]), NEW deeper, VisitsWell(deeper, db, lim, root, d + 1)
    PROVE  Following(t0, Follow(lim, t, f, Targets(db, f)[m + 1], m + 1, deeper), db, lim, root, f, d, m + 1)
  <1> DEFINE i == m + 1
             g == Targets(db, f)[i]
             v == Follow(lim, t, f, g, i, deeper)
             e == WithEdge(t, f, g)
             u == deeper[<<e, g>>]
             B == [t EXCEPT !.capped = TRUE]
             C == [t EXCEPT !.reason = "edges"]
             T(j) == Targets(db, f)[j]
  <1> SUFFICES Following(t0, v, db, lim, root, f, d, i)
    OBVIOUS
  <1>1. /\ Drawn(t, db, lim, root) /\ Grown(t0, t, {f}) /\ Cardinality(From(t, f)) <= m
        /\ t0 \in Graphs(db) /\ t \in Graphs(db) /\ f \in db.fns /\ d \in Nat /\ m \in Nat
        /\ f \in t0.visited /\ f \in t.visited
        /\ \E j \in 1..Len(t.nodes) : t.nodes[j] = [fn |-> f, depth |-> d]
        /\ Clean(t) => /\ Cardinality(From(t, f)) = m
                       /\ \A j \in 1..m : Edge(t, f, T(j)) /\ (d < lim.depth => T(j) \in t.visited)
                       /\ \A x \in t.visited \ t0.visited : FullyDrawn(t, db, lim, x)
    BY DEF Following, Drawn, Grown
  <1>2. /\ Len(t.edges) \in Nat /\ Len(t.nodes) \in Nat /\ Len(t0.edges) \in Nat /\ Len(t0.nodes) \in Nat
        /\ Cardinality(From(t, f)) \in Nat /\ i \in Nat
    BY <1>1, GraphIs, FromIs
  <1>3. g \in Callees(db, f) /\ Callees(db, f) \in SUBSET db.fns /\ g \in db.fns
    <2>1. i \in 1..Len(db.refs[f])
      BY <1>1, TargetsAre
    <2> HIDE DEF i
    <2> QED BY <1>1, <2>1, TargetsAre
  <1>a. v = IF t.reason # "none" THEN t
            ELSE IF i > lim.per THEN B
            ELSE IF Len(t.edges) >= lim.edges THEN C
            ELSE u
    <2> HIDE DEF i, g
    <2> QED BY <1>2, FollowGives
  <1> HIDE DEF v, u, e, g, T
  <1>4. ASSUME NEW w \in {B, C} PROVE Following(t0, w, db, lim, root, f, d, i)
    <2>1. /\ Drawn(w, db, lim, root) /\ ~ Clean(w) /\ w.nodes = t.nodes /\ w.edges = t.edges /\ w.visited = t.visited
          /\ \A x : From(w, x) = From(t, x)
          /\ Grown(t, w, {})
      <3>1. w \in {B, C, [t EXCEPT !.reason = "nodes"], [t EXCEPT !.reason = "cancelled"]}
        BY <1>4
      <3>2. w \in {B, C, [t EXCEPT !.reason = "nodes"], [t EXCEPT !.reason = "cancelled"]} => Marked(db, lim, root, t, w)
        <4>1. Drawn(t, db, lim, root)
          BY <1>1
        <4> QED BY <4>1, MarkedIs DEF B, C
      <3> QED BY <3>1, <3>2 DEF Marked
    <2> HIDE DEF B, C
    <2>2. Grown(t0, w, {f})
      BY <1>1, <1>2, <2>1, GrownOn
    <2>3. Cardinality(From(w, f)) <= i
      BY <1>1, <1>2, <2>1
    <2> HIDE DEF i
    <2> QED BY <1>1, <1>2, <2>1, <2>2, <2>3 DEF Following
  <1> HIDE DEF B, C
  <1>5. CASE t.reason # "none"
    <2>1. v = t
      BY <1>a, <1>5
    <2>2. Cardinality(From(t, f)) <= i /\ ~ Clean(t)
      BY <1>1, <1>2, <1>5 DEF Clean
    <2> HIDE DEF i
    <2> QED BY <1>1, <1>2, <2>1, <2>2 DEF Following
  <1>6. CASE t.reason = "none" /\ i > lim.per
    <2> HIDE DEF i
    <2>1. v = B
      BY <1>a, <1>6
    <2> QED BY <1>4, <2>1
  <1>7. CASE t.reason = "none" /\ i <= lim.per /\ Len(t.edges) >= lim.edges
    <2>1. ~ (i > lim.per)
      BY <1>2, <1>7 DEF IsLimit
    <2> HIDE DEF i
    <2>2. v = C
      BY <1>a, <1>7, <2>1
    <2> QED BY <1>4, <2>2
  <1>8. CASE t.reason = "none" /\ i <= lim.per /\ ~ (Len(t.edges) >= lim.edges)
    <2>1. v = u
      <3>1. ~ (i > lim.per)
        BY <1>2, <1>8 DEF IsLimit
      <3> HIDE DEF i
      <3> QED BY <1>a, <1>8, <3>1
    <2>2. Len(t.edges) < lim.edges /\ Cardinality(From(t, f)) < lim.per
      <3>1. Len(t.edges) < lim.edges
        BY <1>2, <1>8 DEF IsLimit
      <3>2. m < lim.per
        BY <1>1, <1>8 DEF IsLimit
      <3>3. Cardinality(From(t, f)) < lim.per
        BY <1>1, <1>2, <3>2 DEF IsLimit
      <3> QED BY <3>1, <3>3
    <2>3. /\ Drawn(e, db, lim, root) /\ Grown(t, e, {f}) /\ Edge(e, f, g)
          /\ Cardinality(From(e, f)) = Cardinality(From(t, f)) + 1
          /\ e.visited = t.visited /\ e.nodes = t.nodes /\ e.reason = t.reason /\ e.capped = t.capped
      <3>1. EdgeOn(db, lim, root, t, f, g, WithEdge(t, f, g))
        BY <1>1, <1>3, <2>2, EdgeAdded
      <3>2. EdgeOn(db, lim, root, t, f, g, e)
        BY <3>1 DEF e
      <3> QED BY <3>2 DEF EdgeOn
    <2>4. e \in Graphs(db) /\ Len(e.nodes) \in Nat /\ Len(e.edges) \in Nat
      BY <2>3, GraphIs DEF Drawn
    <2>5. Visitable(e, db, lim, root, g, d + 1)
      <3>1. Hung(e, g, d + 1, Len(e.nodes))
        <4>1. PICK j \in 1..Len(t.nodes) : t.nodes[j] = [fn |-> f, depth |-> d]
          BY <1>1
        <4>2. e.nodes[j].fn = f /\ e.nodes[j].depth = d /\ j \in 1..Len(e.nodes)
          BY <2>3, <4>1
        <4> QED BY <2>3, <4>2 DEF Hung
      <3>2. d + 1 \in Nat
        BY <1>1
      <3> QED BY <1>3, <2>3, <3>1, <3>2 DEF Visitable
    <2>6. Visited(e, u, db, lim, root, g, d + 1)
      BY <1>3, <2>4, <2>5 DEF VisitsWell, u
    <2>7. /\ Drawn(u, db, lim, root) /\ Grown(e, u, {}) /\ u \in Graphs(db) /\ Len(u.nodes) \in Nat /\ Len(u.edges) \in Nat
          /\ Clean(u) /\ d + 1 <= lim.depth => g \in u.visited
          /\ Clean(u) => \A x \in u.visited \ e.visited : FullyDrawn(u, db, lim, x)
      BY <2>6, GraphIs DEF Visited, Drawn
    <2>8. Grown(t, u, {f})
      BY <1>2, <2>3, <2>4, <2>7, GrownOn
    <2>9. Grown(t0, u, {f})
      <3>1. Grown(t0, e, {f})
        <4>1. \A k \in 1..Len(e.edges) : k <= Len(t0.edges) \/ e.edges[k][1] \in {f} \/ e.edges[k][1] \notin t0.visited
          <5> SUFFICES ASSUME NEW k \in 1..Len(e.edges)
                       PROVE  k <= Len(t0.edges) \/ e.edges[k][1] \in {f} \/ e.edges[k][1] \notin t0.visited
            OBVIOUS
          <5>1. CASE k <= Len(t.edges)
            <6>1. k \in 1..Len(t.edges) /\ e.edges[k] = t.edges[k]
              BY <1>2, <2>3, <2>4, <5>1 DEF Grown
            <6> QED BY <1>1, <6>1 DEF Grown
          <5>2. CASE ~ (k <= Len(t.edges))
            BY <1>1, <2>3, <5>2 DEF Grown
          <5> QED BY <5>1, <5>2
        <4>2. \A k \in 1..Len(t0.edges) : k \in 1..Len(t.edges) /\ e.edges[k] = t0.edges[k]
          BY <1>1, <1>2, <2>3 DEF Grown
        <4>3. \A k \in 1..Len(t0.nodes) : k \in 1..Len(t.nodes) /\ e.nodes[k] = t0.nodes[k]
          BY <1>1, <1>2, <2>3 DEF Grown
        <4>4. /\ t0.visited \subseteq e.visited /\ Len(t0.nodes) <= Len(e.nodes) /\ Len(t0.edges) <= Len(e.edges)
              /\ Clean(e) => Clean(t0)
          BY <1>1, <1>2, <2>3, <2>4, SMTT(30) DEF Grown
        <4> QED BY <4>1, <4>2, <4>3, <4>4 DEF Grown
      <3> QED BY <1>2, <2>4, <2>7, <3>1, GrownOn
    <2>10. From(u, f) = From(e, f)
      BY <1>1, <2>3, <2>4, <2>7, FromStays
    <2>11. Cardinality(From(u, f)) <= i
      BY <1>1, <1>2, <2>3, <2>10
    <2>12. \E j \in 1..Len(u.nodes) : u.nodes[j] = [fn |-> f, depth |-> d]
      <3>1. PICK j \in 1..Len(t.nodes) : t.nodes[j] = [fn |-> f, depth |-> d]
        BY <1>1
      <3>2. j \in 1..Len(u.nodes) /\ u.nodes[j] = t.nodes[j]
        BY <1>2, <2>7, <2>8 DEF Grown
      <3> QED BY <3>1, <3>2
    <2>13. ASSUME Clean(u)
           PROVE  /\ Cardinality(From(u, f)) = i
                  /\ \A j \in 1..i : Edge(u, f, T(j)) /\ (d < lim.depth => T(j) \in u.visited)
                  /\ \A x \in u.visited \ t0.visited : FullyDrawn(u, db, lim, x)
      <3>1. Clean(t)
        BY <2>8, <2>13 DEF Grown
      <3>2. Cardinality(From(u, f)) = i
        BY <1>1, <2>3, <2>10, <3>1
      <3>3. ASSUME NEW j \in 1..i PROVE Edge(u, f, T(j)) /\ (d < lim.depth => T(j) \in u.visited)
        <4>1. CASE j = i
          <5>1. Edge(u, f, g)
            BY <2>3, <2>4, <2>7, EdgeStays
          <5>2. d < lim.depth => g \in u.visited
            <6>1. d < lim.depth => d + 1 <= lim.depth
              BY <1>1 DEF IsLimit
            <6> QED BY <2>7, <2>13, <6>1
          <5> QED BY <4>1, <5>1, <5>2 DEF g, T
        <4>2. CASE j \in 1..m
          <5>1. Edge(t, f, T(j)) /\ (d < lim.depth => T(j) \in t.visited)
            BY <1>1, <3>1, <4>2
          <5>2. Edge(u, f, T(j))
            BY <1>2, <2>7, <2>8, <5>1, EdgeStays
          <5> QED BY <2>8, <5>1, <5>2 DEF Grown
        <4>3. j = i \/ j \in 1..m
          BY <1>1
        <4> QED BY <4>1, <4>2, <4>3
      <3>4. ASSUME NEW x \in u.visited \ t0.visited PROVE FullyDrawn(u, db, lim, x)
        <4>1. CASE x \notin e.visited
          BY <2>7, <2>13, <4>1
        <4>2. CASE x \in e.visited
          <5>1. x \in t.visited /\ x # f /\ FullyDrawn(t, db, lim, x)
            BY <1>1, <2>3, <3>1, <4>2
          <5>2. Distinct(t) /\ Distinct(u)
            BY <1>1, <2>7 DEF Drawn
          <5> QED BY <1>1, <2>7, <2>8, <5>1, <5>2, DoneStays
        <4> QED BY <4>1, <4>2
      <3> QED BY <3>2, <3>3, <3>4
    <2> HIDE DEF i
    <2> QED BY <1>1, <1>2, <2>1, <2>7, <2>9, <2>11, <2>12, <2>13 DEF Following, T
  <1> HIDE DEF i
  <1>9. t.reason # "none" \/ i > lim.per \/ (i <= lim.per /\ Len(t.edges) >= lim.edges) \/ (i <= lim.per /\ ~ (Len(t.edges) >= lim.edges))
    <2>1. i > lim.per \/ i <= lim.per
      BY <1>2 DEF IsLimit
    <2> QED BY <2>1
  <1> QED BY <1>5, <1>6, <1>7, <1>8, <1>9

(* A visit whose deeper visits do what they should does so too.            *)
LEMMA VisitKeeps ==
    ASSUME NEW db, Databases(db), NEW lim, IsLimit(lim), NEW cut, NEW root, NEW s, NEW f, NEW d,
           Visitable(s, db, lim, root, f, d), d <= lim.depth, NEW deeper, VisitsWell(deeper, db, lim, root, d + 1)
    PROVE  Visited(s, Visit(db, lim, cut, s, f, d, deeper), db, lim, root, f, d)
  <1> DEFINE v == Visit(db, lim, cut, s, f, d, deeper)
             t == WithNode(s, f, d)
             n == Len(db.refs[f])
             g == FollowRefs(db, lim, t, f, deeper)
             visits == Cardinality(s.visited) + 1
             a == [s EXCEPT !.reason = "nodes"]
             b == [s EXCEPT !.reason = "cancelled"]
             u == g[n]
  <1> SUFFICES Visited(s, v, db, lim, root, f, d)
    OBVIOUS
  <1>1. /\ s \in Graphs(db) /\ f \in db.fns /\ d \in Nat /\ Drawn(s, db, lim, root) /\ n \in Nat
        /\ Len(s.nodes) \in Nat /\ Len(s.edges) \in Nat /\ deeper \in Visits(db)
    BY GraphIs, TargetsAre DEF Visitable, Drawn, VisitsWell
  <1>2. v = IF s.reason # "none" \/ f \in s.visited THEN s
            ELSE IF Len(s.nodes) >= lim.nodes THEN a
            ELSE IF cut # 0 /\ visits >= cut /\ visits % Poll = 0 THEN b
            ELSE u
    BY DEF Visit, WithNode
  <1> HIDE DEF v, t, g, n, visits
  <1>3. ASSUME NEW w \in {a, b} PROVE Visited(s, w, db, lim, root, f, d)
    <2>1. w \in {[s EXCEPT !.capped = TRUE], [s EXCEPT !.reason = "edges"], a, b}
      OBVIOUS
    <2>2. Marked(db, lim, root, s, w)
      BY <1>1, <2>1, MarkedIs
    <2>3. Drawn(w, db, lim, root) /\ ~ Clean(w) /\ Grown(s, w, {})
      BY <2>2 DEF Marked
    <2> HIDE DEF a, b
    <2> QED BY <2>3 DEF Visited
  <1> HIDE DEF a, b
  <1>4. CASE s.reason # "none" \/ f \in s.visited
    <2>1. v = s
      BY <1>2, <1>4
    <2>2. Grown(s, s, {})
      BY <1>1, GrownSelf
    <2>3. Clean(s) => f \in s.visited
      BY <1>4 DEF Clean
    <2> QED BY <1>1, <2>1, <2>2, <2>3 DEF Visited
  <1>5. CASE ~ (s.reason # "none" \/ f \in s.visited) /\ Len(s.nodes) >= lim.nodes
    <2>1. v = a
      BY <1>2, <1>5
    <2> QED BY <1>3, <2>1
  <1>6. CASE /\ ~ (s.reason # "none" \/ f \in s.visited) /\ ~ (Len(s.nodes) >= lim.nodes)
             /\ cut # 0 /\ visits >= cut /\ visits % Poll = 0
    <2>1. v = b
      BY <1>2, <1>6
    <2> QED BY <1>3, <2>1
  <1>7. CASE /\ ~ (s.reason # "none" \/ f \in s.visited) /\ ~ (Len(s.nodes) >= lim.nodes)
             /\ ~ (cut # 0 /\ visits >= cut /\ visits % Poll = 0)
    <2>1. v = u
      BY <1>2, <1>7
    <2>2. NodeOn(db, lim, root, s, f, d, t)
      <3>1. Len(s.nodes) < lim.nodes /\ f \notin s.visited
        BY <1>1, <1>7 DEF IsLimit
      <3> QED BY <3>1, NodeAdded DEF t
    <2>3. /\ Drawn(t, db, lim, root) /\ Grown(s, t, {}) /\ From(t, f) = {} /\ t.visited = s.visited \union {f}
          /\ \E j \in 1..Len(t.nodes) : t.nodes[j] = [fn |-> f, depth |-> d]
          /\ t \in Graphs(db) /\ Len(t.nodes) \in Nat /\ Len(t.edges) \in Nat
      BY <2>2, GraphIs DEF NodeOn, Drawn
    <2>4. /\ g \in [0..n -> Graphs(db)] /\ g[0] = t
          /\ \A k \in 1..n : g[k] = Follow(lim, g[k - 1], f, Targets(db, f)[k], k, deeper)
      <3>1. Followed(db, lim, t, f, deeper, g)
        BY <1>1, <2>3, FollowRefsIs DEF g
      <3> QED BY <3>1 DEF Followed, n
    <2> DEFINE Good(k) == Following(t, g[k], db, lim, root, f, d, k)
               S == {k \in 0..n : Good(k)}
    <2>5. Good(0)
      <3>1. Cardinality(From(t, f)) = 0
        BY <2>3, FS_EmptySet
      <3>2. Grown(t, t, {f})
        BY <2>3, GrownSelf
      <3>3. \A j \in 1..0 : FALSE
        OBVIOUS
      <3>4. t.visited \ t.visited = {}
        OBVIOUS
      <3>5. f \in t.visited /\ 0 <= 0 /\ 0 \in Nat
        BY <2>3
      <3>6. Following(t, t, db, lim, root, f, d, 0)
        BY <1>1, <2>3, <3>1, <3>2, <3>3, <3>4, <3>5 DEF Following
      <3> QED BY <2>4, <3>6
    <2>6. ASSUME NEW m \in 0..(n - 1), Good(m) PROVE Good(m + 1)
      <3>1. m < Len(db.refs[f]) /\ m + 1 \in 1..n /\ (m + 1) - 1 = m
        BY <1>1 DEF n
      <3>2. Following(t, Follow(lim, g[m], f, Targets(db, f)[m + 1], m + 1, deeper), db, lim, root, f, d, m + 1)
        BY <2>6, <3>1, FollowKeeps
      <3>3. g[m + 1] = Follow(lim, g[m], f, Targets(db, f)[m + 1], m + 1, deeper)
        BY <2>4, <3>1
      <3> QED BY <3>2, <3>3
    <2> HIDE DEF Good
    <2>7. 0 \in S
      BY <1>1, <2>5
    <2>8. ASSUME NEW m \in 0..(n - 1), m \in S PROVE m + 1 \in S
      <3>1. m + 1 \in 0..n
        BY <1>1
      <3> QED BY <2>6, <2>8, <3>1
    <2> HIDE DEF S
    <2>9. n \in S
      <3>1. \A k \in 0..n : k \in S
        BY <1>1, <2>7, <2>8, UpTo
      <3> QED BY <1>1, <3>1
    <2>10. Following(t, u, db, lim, root, f, d, n)
      BY <2>9 DEF S, Good
    <2> HIDE DEF u
    <2>11. /\ Drawn(u, db, lim, root) /\ Grown(t, u, {f}) /\ u \in Graphs(db) /\ Len(u.nodes) \in Nat /\ Len(u.edges) \in Nat
           /\ \E j \in 1..Len(u.nodes) : u.nodes[j] = [fn |-> f, depth |-> d]
           /\ Clean(u) => /\ Cardinality(From(u, f)) = n
                          /\ \A j \in 1..n : /\ Edge(u, f, Targets(db, f)[j])
                                             /\ d < lim.depth => Targets(db, f)[j] \in u.visited
                          /\ \A x \in u.visited \ t.visited : FullyDrawn(u, db, lim, x)
      BY <2>10, GraphIs DEF Following, Drawn
    <2>12. Grown(s, u, {})
      <3>1. s.visited \subseteq u.visited /\ Len(s.nodes) <= Len(u.nodes) /\ Len(s.edges) <= Len(u.edges) /\ (Clean(u) => Clean(s))
        BY <1>1, <2>3, <2>11, SMTT(30) DEF Grown
      <3>2. \A i \in 1..Len(s.nodes) : i \in 1..Len(t.nodes) /\ u.nodes[i] = s.nodes[i]
        BY <1>1, <2>3, <2>11, SMTT(30) DEF Grown
      <3>3. \A i \in 1..Len(s.edges) : i \in 1..Len(t.edges) /\ u.edges[i] = s.edges[i]
        BY <1>1, <2>3, <2>11 DEF Grown
      <3>4. ASSUME NEW k \in 1..Len(u.edges) PROVE k <= Len(s.edges) \/ u.edges[k][1] \notin s.visited
        <4>1. CASE k <= Len(t.edges)
          <5>1. k \in 1..Len(t.edges) /\ u.edges[k] = t.edges[k]
            BY <2>3, <2>11, <4>1 DEF Grown
          <5> QED BY <2>3, <5>1 DEF Grown
        <4>2. CASE ~ (k <= Len(t.edges))
          <5>1. u.edges[k][1] = f \/ u.edges[k][1] \notin t.visited
            BY <2>11, <4>2 DEF Grown
          <5> QED BY <1>7, <2>3, <5>1
        <4> QED BY <4>1, <4>2
      <3> QED BY <3>1, <3>2, <3>3, <3>4 DEF Grown
    <2>13. f \in u.visited
      BY <2>3, <2>11 DEF Grown
    <2>14. ASSUME Clean(u) PROVE FullyDrawn(u, db, lim, f)
      <3>0. Callees(db, f) = {Targets(db, f)[j] : j \in 1..Len(db.refs[f])}
        BY <1>1, TargetsAre, Zenon
      <3>a. \A c \in Callees(db, f) : \E j \in 1..n : c = Targets(db, f)[j]
        BY <3>0, Zenon DEF n
      <3>1. \A c \in Callees(db, f) : Edge(u, f, c)
        BY <2>11, <2>14, <3>a
      <3>2. d < lim.depth => Callees(db, f) \subseteq u.visited
        BY <2>11, <2>14, <3>a
      <3>3. ASSUME NEW i \in 1..Len(u.nodes), u.nodes[i].fn = f PROVE u.nodes[i].depth = d
        <4>1. PICK j \in 1..Len(u.nodes) : u.nodes[j] = [fn |-> f, depth |-> d]
          BY <2>11
        <4>2. ~ (i < j) /\ ~ (j < i)
          BY <2>11, <3>3, <4>1 DEF Drawn, Distinct
        <4>3. i = j
          BY <2>11, <4>1, <4>2
        <4> QED BY <4>1, <4>3
      <3> QED BY <2>11, <2>14, <3>1, <3>2, <3>3 DEF FullyDrawn, n
    <2>15. ASSUME Clean(u), NEW x \in u.visited \ s.visited PROVE FullyDrawn(u, db, lim, x)
      <3>1. CASE x = f
        BY <2>14, <2>15, <3>1
      <3>2. CASE x # f
        BY <2>3, <2>11, <2>15, <3>2
      <3> QED BY <3>1, <3>2
    <2> QED BY <2>1, <2>11, <2>12, <2>13, <2>15 DEF Visited
  <1> HIDE DEF u
  <1> QED BY <1>4, <1>5, <1>6, <1>7

(* Every level of the walk does what it should. *)
LEMMA LevelsKeep ==
    ASSUME NEW db, Databases(db), NEW lim, IsLimit(lim), NEW cut, NEW root, NEW T, Levels(db, lim, cut, T)
    PROVE  VisitsWell(T[lim.depth + 1], db, lim, root, 0)
  <1> DEFINE N == lim.depth + 1
             Good(k) == VisitsWell(T[k], db, lim, root, N - k)
             S == {k \in 0..N : Good(k)}
  <1>1. /\ N \in Nat /\ lim.depth \in Nat /\ T \in [0..N -> Visits(db)]
        /\ \A p \in Graphs(db) \X db.fns :
             /\ T[0][p] = p[1]
             /\ \A k \in 1..N : T[k][p] = Visit(db, lim, cut, p[1], p[2], N - k, T[k - 1])
    BY DEF Levels, IsLimit
  <1>2. Good(0)
    <2> SUFFICES ASSUME NEW s \in Graphs(db), NEW f \in db.fns, Visitable(s, db, lim, root, f, N)
                 PROVE  Visited(s, T[0][<<s, f>>], db, lim, root, f, N)
      BY <1>1 DEF VisitsWell
    <2>1. T[0][<<s, f>>] = s
      BY <1>1
    <2>2. Drawn(s, db, lim, root) /\ Grown(s, s, {})
      BY GraphIs, GrownSelf DEF Visitable
    <2>3. ~ (N <= lim.depth)
      BY <1>1
    <2> HIDE DEF N
    <2> QED BY <2>1, <2>2, <2>3 DEF Visited
  <1>3. ASSUME NEW i \in 0..(N - 1), Good(i) PROVE Good(i + 1)
    <2> DEFINE k == i + 1
               d == N - k
    <2>1. k \in 1..N /\ k \in 0..N /\ k - 1 = i /\ d \in Nat /\ d <= lim.depth /\ d + 1 = N - i
      BY <1>1
    <2>2. VisitsWell(T[i], db, lim, root, d + 1)
      BY <1>3, <2>1
    <2> HIDE DEF N, k, d
    <2>3. ASSUME NEW s \in Graphs(db), NEW f \in db.fns, Visitable(s, db, lim, root, f, d)
          PROVE  Visited(s, T[k][<<s, f>>], db, lim, root, f, d)
      <3>1. T[k][<<s, f>>] = Visit(db, lim, cut, s, f, d, T[i])
        <4>1. <<s, f>> \in Graphs(db) \X db.fns /\ <<s, f>>[1] = s /\ <<s, f>>[2] = f
          OBVIOUS
        <4>2. T[k][<<s, f>>] = Visit(db, lim, cut, <<s, f>>[1], <<s, f>>[2], N - k, T[k - 1])
          BY <1>1, <2>1, <4>1
        <4> QED BY <2>1, <4>1, <4>2 DEF d
      <3>2. Visited(s, Visit(db, lim, cut, s, f, d, T[i]), db, lim, root, f, d)
        BY <2>1, <2>2, <2>3, VisitKeeps
      <3> QED BY <3>1, <3>2
    <2>4. T[k] \in Visits(db)
      BY <1>1, <2>1
    <2> QED BY <2>3, <2>4 DEF VisitsWell, k, d
  <1> HIDE DEF Good, N
  <1>4. N \in S
    <2>1. 0 \in S
      BY <1>1, <1>2
    <2>2. ASSUME NEW m \in 0..(N - 1), m \in S PROVE m + 1 \in S
      <3>1. m + 1 \in 0..N
        BY <1>1
      <3> QED BY <1>3, <2>2, <3>1
    <2> HIDE DEF S
    <2>3. \A k \in 0..N : k \in S
      BY <1>1, <2>1, <2>2, UpTo
    <2> QED BY <1>1, <2>3
  <1>5. N - N = 0
    BY <1>1
  <1>6. VisitsWell(T[N], db, lim, root, 0)
    BY <1>4, <1>5 DEF Good
  <1> QED BY <1>6 DEF N

(* A node lies as many steps from the root as its depth says, at most as    *)
(* many as there are nodes before it.                                       *)
LEMMA NodesAreNear ==
    ASSUME NEW db, NEW lim, NEW root, NEW u, Drawn(u, db, lim, root), NEW near, near = Near(db, "forward"),
           NEW ball, BallsOf(ball, near, db.fns, root), Databases(db)
    PROVE  \A i \in 1..Len(u.nodes) : u.nodes[i].depth \in Nat /\ u.nodes[i].depth < i /\ u.nodes[i].fn \in ball[u.nodes[i].depth]
  <1> DEFINE n == Len(u.nodes)
             Good(i) == u.nodes[i].depth < i /\ u.nodes[i].fn \in ball[u.nodes[i].depth]
             S == {k \in 0..n : \A i \in 1..k : Good(i)}
  <1>1. /\ u \in Graphs(db) /\ n \in Nat /\ Edged(u, db, lim) /\ Hanging(u, lim, root)
        /\ \A i \in 1..n : u.nodes[i].depth \in Nat /\ u.nodes[i].fn \in db.fns
    BY GraphIs DEF Drawn
  <1> HIDE DEF n
  <1>2. \A x, y : Edge(u, x, y) => x \in u.visited /\ y \in Callees(db, x)
    BY <1>1 DEF Edge, Edged
  <1>3. u.visited \in SUBSET db.fns
    BY <1>1, GraphIs
  <1>4. \A x \in db.fns : near[x] = Callees(db, x)
    <2> SUFFICES ASSUME NEW x \in db.fns PROVE Near(db, "forward")[x] = Callees(db, x)
      OBVIOUS
    <2>1. Near(db, "forward")[x] = {Ahead(db, "forward", x)[i] : i \in 1..Len(Ahead(db, "forward", x))}
      BY AheadIs
    <2>2. Ahead(db, "forward", x) = Targets(db, x)
      BY DEF Ahead
    <2>3. Len(Targets(db, x)) = Len(db.refs[x]) /\ Callees(db, x) = {Targets(db, x)[i] : i \in 1..Len(db.refs[x])}
      BY TargetsAre
    <2> QED BY <2>1, <2>2, <2>3
  <1>5. 0 \in S
    BY <1>1
  <1>6. ASSUME NEW m \in 0..(n - 1), m \in S PROVE m + 1 \in S
    <2> DEFINE i == m + 1
               x == u.nodes[i].fn
               d == u.nodes[i].depth
    <2>1. i \in 1..n /\ i \in 0..n /\ \A k \in 1..i : k \in 1..m \/ k = i
      BY <1>1
    <2>2. \A k \in 1..m : Good(k)
      BY <1>6
    <2> HIDE DEF i
    <2>3. Good(i)
      <3>1. CASE i = 1
        <4>1. d = 0 /\ x = root
          BY <1>1, <2>1, <3>1 DEF Hanging, n
        <4>2. ball[0] = {root}
          BY DEF BallsOf
        <4> QED BY <3>1, <4>1, <4>2
      <3>2. CASE i # 1
        <4>1. i > 1 /\ i - 1 = m /\ m \in Nat
          BY <1>1, <3>2 DEF i
        <4>2. Hung(u, x, d, m)
          BY <1>1, <2>1, <4>1 DEF Hanging, n
        <4>3. PICK j \in 1..m : Edge(u, u.nodes[j].fn, x) /\ d = u.nodes[j].depth + 1
          BY <4>2 DEF Hung
        <4> DEFINE y == u.nodes[j].fn
                   e == u.nodes[j].depth
        <4>4. e < j /\ y \in ball[e] /\ e \in Nat /\ y \in db.fns
          <5>1. j \in 1..n
            BY <1>1, <4>1, <4>3
          <5> QED BY <1>1, <2>2, <4>3, <5>1
        <4>5. x \in near[y]
          BY <1>2, <1>4, <4>3, <4>4
        <4> HIDE DEF x, d, y, e
        <4>6. ball[e + 1] = ball[e] \union UNION {near[f] : f \in ball[e]}
          BY <4>4 DEF BallsOf
        <4>7. x \in ball[d]
          BY <4>3, <4>4, <4>5, <4>6 DEF e
        <4>8. d < i
          <5>1. d = e + 1 /\ j <= m /\ j \in Nat
            BY <4>1, <4>3 DEF d, e
          <5>2. i = m + 1
            BY DEF i
          <5> QED BY <4>1, <4>4, <5>1, <5>2
        <4> QED BY <4>7, <4>8 DEF x, d
      <3> QED BY <3>1, <3>2
    <2> HIDE DEF Good
    <2> QED BY <2>1, <2>2, <2>3 DEF i
  <1> HIDE DEF S
  <1>7. n \in S
    <2>1. \A k \in 0..n : k \in S
      BY <1>1, <1>5, <1>6, UpTo
    <2> QED BY <1>1, <2>1
  <1>8. \A i \in 1..n : Good(i)
    <2> HIDE DEF Good
    <2> QED BY <1>7 DEF S
  <1> QED BY <1>1, <1>8 DEF n

(* A set that has the root and all that is near to what it has, has all     *)
(* that lies within any number of steps.                                    *)
LEMMA ClosedHasAll ==
    ASSUME NEW near, NEW fns, NEW root, NEW ball, BallsOf(ball, near, fns, root), NEW V, root \in V,
           \A x \in V : near[x] \subseteq V, NEW K \in Nat
    PROVE  ball[K] \subseteq V
  <1> DEFINE S == {k \in 0..K : ball[k] \subseteq V}
  <1>1. 0 \in S
    BY DEF BallsOf
  <1>2. ASSUME NEW k \in 0..(K - 1), k \in S PROVE k + 1 \in S
    <2>1. k \in Nat /\ k + 1 \in 0..K /\ ball[k] \subseteq V
      BY <1>2
    <2>2. ball[k + 1] = ball[k] \union UNION {near[f] : f \in ball[k]}
      BY <2>1 DEF BallsOf
    <2>3. \A f \in ball[k] : near[f] \subseteq V
      BY <2>1
    <2> QED BY <2>1, <2>2, <2>3
  <1>3. K \in S
    <2> HIDE DEF S
    <2>1. \A k \in 0..K : k \in S
      BY <1>1, <1>2, UpTo
    <2> QED BY <2>1
  <1> QED BY <1>3

(* A call graph has distinct nodes that hang on the root by listed edges   *)
(* within the limits, and is complete when no limit was met.               *)
THEOREM CallgraphsAreSoundAlways ==
    ASSUME NEW db, Databases(db), NEW lim, IsLimit(lim), NEW cut, NEW root \in db.fns
    PROVE  CallgraphIsSound(db, lim, cut, root)
  <1> DEFINE g == CallgraphRoot(db, lim, cut, root)
             M == {g.nodes[i].fn : i \in DOMAIN g.nodes}
             E == ToSet(g.edges)
             out(f) == {i \in DOMAIN g.edges : g.edges[i][1] = f}
             near == Near(db, "forward")
             ball == Balls(near, root)
  <1>1. Visited(Unvisited, g, db, lim, root, root, 0)
    <2>1. PICK T : Levels(db, lim, cut, T) /\ Traverse(db, lim, cut) = T[lim.depth + 1]
      BY TraverseIs DEF IsLimit
    <2>2. VisitsWell(T[lim.depth + 1], db, lim, root, 0)
      BY <2>1, LevelsKeep
    <2>3. g = T[lim.depth + 1][<<Unvisited, root>>]
      BY <2>1 DEF CallgraphRoot
    <2>4. Visitable(Unvisited, db, lim, root, root, 0)
      <3>1. Unvisited \in Graphs(db)
        BY DEF Unvisited, Graphs
      <3>2. Len(Unvisited.nodes) = 0 /\ Len(Unvisited.edges) = 0 /\ Unvisited.visited = {}
        BY DEF Unvisited
      <3>3. Distinct(Unvisited) /\ Edged(Unvisited, db, lim) /\ Hanging(Unvisited, lim, root)
        BY <3>2 DEF Distinct, Edged, Hanging
      <3>4. Drawn(Unvisited, db, lim, root)
        BY <3>1, <3>2, <3>3 DEF Drawn, IsLimit
      <3> QED BY <3>2, <3>4 DEF Visitable
    <2>5. Unvisited \in Graphs(db)
      BY <2>4 DEF Visitable, Drawn
    <2> HIDE DEF g
    <2> QED BY <2>2, <2>3, <2>4, <2>5 DEF VisitsWell
  <1> HIDE DEF g, near, ball
  <1>2. /\ Drawn(g, db, lim, root) /\ g \in Graphs(db) /\ Distinct(g) /\ Edged(g, db, lim) /\ Hanging(g, lim, root)
        /\ Len(g.nodes) <= lim.nodes /\ Len(g.edges) <= lim.edges
        /\ Clean(g) => root \in g.visited /\ \A x \in g.visited : FullyDrawn(g, db, lim, x)
        /\ Len(g.nodes) \in Nat /\ Len(g.edges) \in Nat /\ DOMAIN g.nodes = 1..Len(g.nodes) /\ DOMAIN g.edges = 1..Len(g.edges)
        /\ \A k \in 1..Len(g.edges) : g.edges[k] \in db.fns \X db.fns
        /\ g.visited \in SUBSET db.fns /\ g.capped \in BOOLEAN
    <2>1. Unvisited.visited = {}
      BY DEF Unvisited
    <2>2. 0 <= lim.depth
      BY DEF IsLimit
    <2> QED BY <1>1, <2>1, <2>2, GraphIs DEF Visited, Drawn
  <1>3. M = g.visited
    BY <1>2 DEF Distinct
  <1>4. \A f : out(f) = From(g, f)
    BY <1>2 DEF From
  <1>5. \A x, y : Edge(g, x, y) => <<x, y>> \in E
    BY <1>2 DEF Edge, ToSet
  <1> HIDE DEF out
  <1>6. Cardinality(M) = Len(g.nodes)
    <2>1. M = {g.nodes[i].fn : i \in 1..Len(g.nodes)}
      BY <1>2
    <2>2. \A i, j \in 1..Len(g.nodes) : i < j => g.nodes[i].fn # g.nodes[j].fn
      BY <1>2 DEF Distinct
    <2> DEFINE n == Len(g.nodes)
               F == [i \in 1..n |-> g.nodes[i].fn]
    <2>3. M = {F[i] : i \in 1..n} /\ (\A i, j \in 1..n : i < j => F[i] # F[j]) /\ n \in Nat
      BY <1>2, <2>1, <2>2
    <2> HIDE DEF F, M, n
    <2>4. Cardinality({F[i] : i \in 1..n}) = n
      BY <2>3, ValuesCount
    <2> QED BY <2>3, <2>4 DEF n
  <1>7. \A e \in E : e[1] \in M /\ e[2] \in Callees(db, e[1])
    <2>1. \A k \in 1..Len(g.edges) : g.edges[k][1] \in g.visited /\ g.edges[k][2] \in Callees(db, g.edges[k][1])
      BY <1>2 DEF Edged
    <2>2. E = {g.edges[k] : k \in 1..Len(g.edges)}
      BY <1>2 DEF ToSet
    <2> HIDE DEF M, E
    <2> QED BY <1>3, <2>1, <2>2
  <1>8. \A f \in M : Cardinality(out(f)) <= lim.per
    <2> HIDE DEF M
    <2> QED BY <1>2, <1>3, <1>4 DEF Edged
  <1>9. ASSUME NEW i \in DOMAIN g.nodes
        PROVE  /\ g.nodes[i].depth <= lim.depth
               /\ i = 1 => g.nodes[i] = [fn |-> root, depth |-> 0]
               /\ i > 1 => \E j \in 1..(i - 1) : /\ <<g.nodes[j].fn, g.nodes[i].fn>> \in E
                                               /\ g.nodes[i].depth = g.nodes[j].depth + 1
    <2>1. i \in 1..Len(g.nodes)
      BY <1>2
    <2>2. /\ g.nodes[i].depth <= lim.depth
          /\ i = 1 => g.nodes[i] = [fn |-> root, depth |-> 0]
          /\ i > 1 => Hung(g, g.nodes[i].fn, g.nodes[i].depth, i - 1)
      BY <1>2, <2>1 DEF Hanging
    <2> HIDE DEF E
    <2> QED BY <1>5, <2>2 DEF Hung
  <1>10. ASSUME g.reason = "none" /\ ~ g.capped
         PROVE  /\ \A f \in M : Cardinality(out(f)) = Len(db.refs[f]) /\ \A c \in Callees(db, f) : <<f, c>> \in E
                /\ (\A i \in DOMAIN g.nodes : g.nodes[i].depth < lim.depth) =>
                      M = Within(near, root, Cardinality(db.fns))
    <2>1. Clean(g)
      BY <1>10 DEF Clean
    <2>2. \A x \in g.visited : FullyDrawn(g, db, lim, x)
      BY <1>2, <2>1
    <2>3. \A f \in M : Cardinality(out(f)) = Len(db.refs[f]) /\ \A c \in Callees(db, f) : <<f, c>> \in E
      <3> HIDE DEF M, E
      <3> QED BY <1>3, <1>4, <1>5, <2>2 DEF FullyDrawn
    <2>4. ASSUME \A i \in DOMAIN g.nodes : g.nodes[i].depth < lim.depth
          PROVE  g.visited = Within(near, root, Cardinality(db.fns))
      <3> DEFINE K == Cardinality(db.fns)
      <3>1. K \in Nat /\ IsFiniteSet(db.fns)
        BY FS_CardinalityType DEF Databases
      <3>2. Len(g.nodes) <= K
        <4>1. Cardinality(g.visited) = Len(g.nodes)
          BY <1>3, <1>6
        <4> QED BY <1>2, <3>1, <4>1, FS_Subset
      <3> HIDE DEF K
      <3>3. near \in [db.fns -> SUBSET db.fns] /\ BallsOf(ball, near, db.fns, root)
        BY NearIs, WithinIs DEF near, ball
      <3>4. Within(near, root, K) = ball[K]
        BY <3>1 DEF ball, Balls
      <3>5. \A x \in g.visited : near[x] \subseteq g.visited
        <4> SUFFICES ASSUME NEW x \in g.visited PROVE near[x] \subseteq g.visited
          OBVIOUS
        <4>1. x \in db.fns
          BY <1>2
        <4>2. near[x] = Callees(db, x)
          <5>1. Near(db, "forward")[x] = {Ahead(db, "forward", x)[i] : i \in 1..Len(Ahead(db, "forward", x))}
            BY <4>1, AheadIs
          <5>2. Ahead(db, "forward", x) = Targets(db, x)
            BY DEF Ahead
          <5>3. Len(Targets(db, x)) = Len(db.refs[x]) /\ Callees(db, x) = {Targets(db, x)[i] : i \in 1..Len(db.refs[x])}
            BY <4>1, TargetsAre
          <5> QED BY <5>1, <5>2, <5>3 DEF near
        <4>3. PICK i \in 1..Len(g.nodes) : g.nodes[i].fn = x
          BY <1>2 DEF Distinct
        <4>4. g.nodes[i].depth < lim.depth
          BY <1>2, <2>4
        <4> QED BY <2>2, <4>2, <4>3, <4>4 DEF FullyDrawn
      <3>6. ball[K] \subseteq g.visited
        BY <1>2, <2>1, <3>1, <3>3, <3>5, ClosedHasAll
      <3>7. ASSUME NEW x \in g.visited PROVE x \in ball[K]
        <4>1. PICK i \in 1..Len(g.nodes) : g.nodes[i].fn = x
          BY <1>2 DEF Distinct
        <4>2. g.nodes[i].depth \in Nat /\ g.nodes[i].depth < i /\ x \in ball[g.nodes[i].depth]
          BY <1>2, <3>3, <4>1, NodesAreNear DEF near
        <4>3. g.nodes[i].depth <= K
          BY <1>2, <3>1, <3>2, <4>1, <4>2
        <4>4. ball[g.nodes[i].depth] \subseteq ball[K]
          BY <3>1, <3>3, <4>2, <4>3, BallsGrow
        <4> QED BY <4>2, <4>4
      <3>8. g.visited = ball[K]
        BY <3>6, <3>7
      <3> QED BY <3>4, <3>8 DEF K
    <2> HIDE DEF M, E
    <2> QED BY <1>3, <2>3, <2>4
  <1> HIDE DEF M, E
  <1>11. Len(g.nodes) <= lim.nodes /\ Len(g.edges) <= lim.edges
    BY <1>2
  <1> QED BY <1>6, <1>7, <1>8, <1>9, <1>10, <1>11 DEF CallgraphIsSound, M, E, out, g, near

-----------------------------------------------------------------------------
(***************************************************************************)
(* Orders, and what groups, profiles and surveys say.                      *)
(***************************************************************************)

(* Fewer come before what comes before.                                    *)
LEMMA SmallerAhead ==
    ASSUME NEW S, NEW ahead, StrictOrder(ahead, S), NEW x \in S
    PROVE  /\ IsFiniteSet(ahead[x]) /\ Cardinality(ahead[x]) \in Nat /\ Cardinality(ahead[x]) < Cardinality(S)
           /\ \A y \in ahead[x] : Cardinality(ahead[y]) < Cardinality(ahead[x])
           /\ Cardinality(S) \in Nat
  <1>1. /\ IsFiniteSet(S) /\ Cardinality(S) \in Nat /\ ahead[x] \in SUBSET S /\ x \notin ahead[x]
    BY FS_CardinalityType DEF StrictOrder
  <1>2. /\ IsFiniteSet(ahead[x]) /\ Cardinality(ahead[x]) <= Cardinality(S)
        /\ Cardinality(S) = Cardinality(ahead[x]) => S = ahead[x]
    BY <1>1, FS_Subset, Zenon
  <1>3. Cardinality(ahead[x]) \in Nat
    BY <1>2, FS_CardinalityType
  <1>4. Cardinality(ahead[x]) # Cardinality(S)
    BY <1>1, <1>2
  <1>5. ASSUME NEW y \in ahead[x] PROVE Cardinality(ahead[y]) < Cardinality(ahead[x])
    <2>1. y \in S /\ ahead[y] \in SUBSET ahead[x] /\ y \notin ahead[y]
      BY <1>1 DEF StrictOrder
    <2>2. /\ IsFiniteSet(ahead[y]) /\ Cardinality(ahead[y]) <= Cardinality(ahead[x])
          /\ Cardinality(ahead[x]) = Cardinality(ahead[y]) => ahead[x] = ahead[y]
      BY <2>1, <1>2, FS_Subset, Zenon
    <2>3. Cardinality(ahead[y]) \in Nat
      BY <2>2, FS_CardinalityType
    <2> QED BY <2>1, <2>2, <2>3, <1>3
  <1> QED BY <1>1, <1>2, <1>3, <1>4, <1>5

(* Of n elements the one with k others before it comes at place k + 1: ranks *)
(* are apart, so each place has one.                                       *)
LEMMA InOrderIs ==
    ASSUME NEW S, NEW ahead, StrictOrder(ahead, S)
    PROVE  Ordered(InOrder(ahead), ahead, S)
  <1> DEFINE n == Cardinality(S)
             rank == [x \in S |-> Cardinality(ahead[x]) + 1]
             o == InOrder(ahead)
  <1>1. IsFiniteSet(S) /\ n \in Nat /\ DOMAIN ahead = S
    BY FS_CardinalityType DEF StrictOrder
  <1>2. ASSUME NEW x \in S PROVE rank[x] \in 1..n /\ rank[x] = Cardinality(ahead[x]) + 1 /\ Cardinality(ahead[x]) \in Nat
    BY SmallerAhead
  <1>3. ASSUME NEW x \in S, NEW y \in ahead[x] PROVE y \in S /\ rank[y] < rank[x]
    <2>1. y \in S
      BY DEF StrictOrder
    <2>2. Cardinality(ahead[y]) < Cardinality(ahead[x])
      BY SmallerAhead
    <2> QED BY <1>2, <2>1, <2>2
  <1>4. rank \in [S -> 1..n]
    <2>1. \A x \in S : Cardinality(ahead[x]) + 1 \in 1..n
      BY <1>2
    <2> QED BY <2>1
  <1>d. \A x \in S : rank[x] = Cardinality(ahead[x]) + 1
    OBVIOUS
  <1> HIDE DEF rank, n
  <1>5. ASSUME NEW x \in S, NEW y \in S, rank[x] = rank[y] PROVE x = y
    <2>1. SUFFICES ASSUME x # y PROVE FALSE
      OBVIOUS
    <2>2. x \in ahead[y] \/ y \in ahead[x]
      BY <2>1 DEF StrictOrder
    <2>3. rank[x] < rank[y] \/ rank[y] < rank[x]
      BY <1>3, <2>2
    <2>4. rank[x] \in Nat /\ rank[y] \in Nat
      BY <1>2
    <2> QED BY <2>3, <2>4, <1>5
  <1>6. rank \in Injection(S, 1..n)
    BY <1>4, <1>5 DEF Injection, IsInjective
  <1>7. IsFiniteSet(1..n) /\ Cardinality(1..n) = n
    <2>1. IsFiniteSet(1..n) /\ Cardinality(1..n) = IF 1 > n THEN 0 ELSE n - 1 + 1
      BY <1>1, FS_Interval
    <2> QED BY <1>1, <2>1
  <1>8. rank \in Surjection(S, 1..n)
    BY <1>6, <1>7, FS_Injection DEF n
  <1>9. \A i \in 1..n : \E x \in S : rank[x] = i
    BY <1>8 DEF Surjection
  <1>10. /\ DOMAIN o = 1..n /\ \A i \in 1..n : o[i] = CHOOSE x \in S : Cardinality(ahead[x]) = i - 1
    BY <1>1 DEF InOrder, n
  <1> HIDE DEF o
  <1>11. ASSUME NEW i \in 1..n PROVE o[i] \in S /\ rank[o[i]] = i /\ Cardinality(ahead[o[i]]) = i - 1
    <2>1. PICK x \in S : rank[x] = i
      BY <1>9
    <2>2. Cardinality(ahead[x]) = i - 1
      BY <1>2, <2>1
    <2>3. o[i] \in S /\ Cardinality(ahead[o[i]]) = i - 1
      BY <1>10, <2>2
    <2>4. rank[o[i]] = (i - 1) + 1
      BY <1>d, <2>3
    <2> QED BY <2>3, <2>4
  <1>12. o \in Seq(S) /\ Len(o) = n
    <2>1. o = [i \in 1..n |-> o[i]]
      BY <1>10 DEF o, InOrder
    <2>2. o \in [1..n -> S]
      BY <2>1, <1>11
    <2> QED BY <2>2, <1>1, SeqDef, LenProperties
  <1>13. ASSUME NEW x \in S PROVE \E i \in 1..n : o[i] = x
    BY <1>2, <1>5, <1>11
  <1>14. ASSUME NEW i \in 1..n, NEW j \in 1..n, i < j PROVE o[i] \in ahead[o[j]]
    <2>1. o[i] # o[j] /\ o[i] \in S /\ o[j] \in S
      BY <1>11, <1>14
    <2>2. o[j] \in ahead[o[i]] => rank[o[j]] < rank[o[i]]
      BY <1>3, <2>1
    <2>3. ~ (o[j] \in ahead[o[i]])
      BY <2>2, <1>11, <1>14
    <2> QED BY <2>1, <2>3 DEF StrictOrder
  <1> QED BY <1>1, <1>11, <1>12, <1>13, <1>14 DEF Ordered, o, n

(* Numbers in ascending order.                                             *)
LEMMA AscendingIs ==
    ASSUME NEW S \in SUBSET Nat, IsFiniteSet(S)
    PROVE  /\ Ascending(S) \in Seq(S) /\ Len(Ascending(S)) = Cardinality(S) /\ Len(Ascending(S)) \in Nat
           /\ ToSet(Ascending(S)) = S
  <1> DEFINE ahead == [x \in S |-> {y \in S : y < x}]
             o == Ascending(S)
  <1>1. StrictOrder(ahead, S)
    <2>1. ahead \in [S -> SUBSET S] /\ \A x \in S : ahead[x] = {y \in S : y < x}
      OBVIOUS
    <2> HIDE DEF ahead
    <2>2. \A x, y \in S : y \in ahead[x] <=> y < x
      BY <2>1
    <2>3. \A x \in S : x \notin ahead[x]
      BY <2>2
    <2>4. ASSUME NEW x \in S, NEW y \in S, x # y PROVE x \in ahead[y] \/ y \in ahead[x]
      <3>1. x \in Nat /\ y \in Nat
        OBVIOUS
      <3>2. x < y \/ y < x
        BY <2>4, <3>1
      <3> QED BY <2>2, <3>2
    <2>5. ASSUME NEW x \in S, NEW y \in S, y \in ahead[x], NEW z \in ahead[y] PROVE z \in ahead[x]
      <3>1. z \in S
        BY <2>1
      <3>2. z < y /\ y < x
        BY <2>2, <2>5, <3>1
      <3> QED BY <2>2, <3>1, <3>2
    <2> QED BY <2>1, <2>3, <2>4, <2>5 DEF StrictOrder
  <1>2. o = InOrder(ahead)
    BY DEF Ascending
  <1> HIDE DEF ahead, o
  <1>3. Ordered(o, ahead, S)
    BY <1>1, <1>2, InOrderIs
  <1>4. o \in Seq(S) /\ Len(o) = Cardinality(S) /\ Len(o) \in Nat /\ \A x \in S : \E i \in 1..Len(o) : o[i] = x
    BY <1>3 DEF Ordered
  <1>5. ToSet(o) = S
    <2>1. DOMAIN o = 1..Len(o) /\ \A i \in 1..Len(o) : o[i] \in S
      BY <1>4
    <2>2. ToSet(o) \subseteq S
      BY <2>1 DEF ToSet
    <2>3. S \subseteq ToSet(o)
      BY <1>4, <2>1 DEF ToSet
    <2> QED BY <2>2, <2>3
  <1> QED BY <1>4, <1>5 DEF o

(* The first elements of a sequence.                                       *)
LEMMA UptoIs ==
    ASSUME NEW A, NEW s \in Seq(A), NEW n \in Nat
    PROVE  /\ Upto(s, n) \in Seq(A) /\ Len(Upto(s, n)) = (IF n < Len(s) THEN n ELSE Len(s))
           /\ \A i \in 1..Len(Upto(s, n)) : Upto(s, n)[i] = s[i]
           /\ Len(s) \in Nat /\ Upto(s, n) = SubSeq(s, 1, Len(Upto(s, n)))
  <1> DEFINE k == IF n < Len(s) THEN n ELSE Len(s)
  <1>1. Len(s) \in Nat /\ k \in 0..Len(s)
    OBVIOUS
  <1> HIDE DEF k
  <1>2. SubSeq(s, 1, k) \in Seq(A) /\ Len(SubSeq(s, 1, k)) = k /\ \A i \in 1..k : SubSeq(s, 1, k)[i] = s[i]
    BY <1>1
  <1>3. Upto(s, n) = SubSeq(s, 1, k)
    BY DEF Upto, k
  <1> QED BY <1>1, <1>2, <1>3 DEF k

LEMMA UptoIsPrefix ==
    ASSUME NEW A, NEW s \in Seq(A), NEW n \in Nat
    PROVE  IsPrefix(Upto(s, n), s)
  <1> DEFINE u == Upto(s, n)
  <1>1. u \in Seq(A) /\ Len(u) <= Len(s) /\ u = SubSeq(s, 1, Len(u)) /\ Len(u) \in Nat /\ Len(s) \in Nat
    BY UptoIs
  <1>2. SubSeq(u, 1, Len(u)) = u
    <2> HIDE DEF u
    <2> QED BY <1>1
  <1> HIDE DEF u
  <1> QED BY <1>1, <1>2 DEF IsPrefix, u

(* Each element once is no element lost.                                   *)
LEMMA FirstOnlyIs ==
    ASSUME NEW s \in Seq(Nat)
    PROVE  FirstOnly(s) \in Seq(Nat) /\ ToSet(FirstOnly(s)) = ToSet(s) /\ Len(FirstOnly(s)) <= Len(s)
  <1> DEFINE I == {i \in DOMAIN s : \A j \in 1..(i - 1) : s[j] # s[i]}
             K == [a \in Nat |-> 0]
             r == FirstOnly(s)
  <1>1. K \in [Nat -> Int] /\ DOMAIN s = 1..Len(s) /\ Len(s) \in Nat
    OBVIOUS
  <1>2. r = Picked(s, I)
    BY DEF FirstOnly
  <1>i. I \subseteq DOMAIN s /\ \A i \in DOMAIN s : (\A j \in 1..(i - 1) : s[j] # s[i]) => i \in I
    OBVIOUS
  <1> HIDE DEF I, K, r
  <1>3. r \in Seq(Nat) /\ HasThose(r, s, I) /\ Len(r) <= Len(s)
    BY <1>1, <1>2, PickedIs
  <1>4. ASSUME NEW i \in 1..Len(r) PROVE r[i] \in ToSet(s)
    BY <1>1, <1>3 DEF HasThose, ToSet
  <1>5. ASSUME NEW i \in 1..Len(s) PROVE s[i] \in ToSet(r)
    <2> DEFINE M == {j \in 1..Len(s) : s[j] = s[i]}
    <2>1. M \in SUBSET Nat /\ M # {}
      OBVIOUS
    <2>2. PICK m : m \in M /\ \A y \in M : m <= y
      <3> HIDE DEF M
      <3> QED BY <2>1, MinIs
    <2>3. m \in 1..Len(s) /\ s[m] = s[i]
      BY <2>2
    <2>4. ASSUME NEW j \in 1..(m - 1) PROVE s[j] # s[m]
      <3>1. j \in 1..Len(s) /\ ~ (m <= j)
        BY <1>1, <2>3
      <3> QED BY <3>1, <2>2, <2>3
    <2>5. m \in I
      BY <1>i, <1>1, <2>3, <2>4
    <2>6. \E k \in 1..Len(r) : r[k] = s[m]
      BY <1>3, <2>3, <2>5 DEF HasThose
    <2>7. DOMAIN r = 1..Len(r)
      BY <1>3
    <2> QED BY <2>3, <2>6, <2>7 DEF ToSet
  <1>6. ToSet(r) = ToSet(s)
    <2>1. DOMAIN r = 1..Len(r)
      BY <1>3
    <2>2. \A x \in ToSet(r) : x \in ToSet(s)
      BY <2>1, <1>4 DEF ToSet
    <2>3. \A x \in ToSet(s) : x \in ToSet(r)
      BY <1>1, <1>5 DEF ToSet
    <2> QED BY <2>2, <2>3
  <1> QED BY <1>3, <1>6 DEF r

(* A group is split by what calls it from outside.                         *)
LEMMA ComponentsArePartitioned ==
    ASSUME NEW db, Databases(db), NEW S
    PROVE  ComponentIsPartitioned(db, S)
  <1> DEFINE r == AnalyzeComponent(db, S)
             members == S \intersect db.fns
             called == {f \in members : \E g \in db.fns \ S : \E i \in CallsOf(db, g) : db.refs[g][i].to = f}
             users(a) == {f \in members : a \in db.data[f]}
  <1> SUFFICES ASSUME S # {}
               PROVE  /\ r.interface = called /\ r.internal = S \ called
                      /\ \A e \in r.edges : {e[1], e[2]} \subseteq S
                      /\ \A x \in r.shared : Cardinality(x.by) >= 2 /\ x.by = users(x.addr)
    BY DEF ComponentIsPartitioned
  <1>1. /\ r.interface = InterfaceOf(db, S) /\ r.internal = S \ InterfaceOf(db, S)
        /\ r.edges = {e \in (S \intersect db.fns) \X S : e[2] \in Callees(db, e[1])}
        /\ r.shared = SharedGlobals(db, S)
    BY DEF AnalyzeComponent
  <1>2. InterfaceOf(db, S) = called
    <2>1. \A f : Callers(db, f) \subseteq S <=>
                 ~ \E g \in db.fns \ S : \E i \in CallsOf(db, g) : db.refs[g][i].to = f
      BY DEF Callers
    <2> QED BY <2>1 DEF InterfaceOf
  <1>3. \A x \in SharedGlobals(db, S) : Cardinality(x.by) >= 2 /\ x.by = users(x.addr)
    <2>1. SUFFICES ASSUME NEW x \in SharedGlobals(db, S) PROVE Cardinality(x.by) >= 2 /\ x.by = users(x.addr)
      OBVIOUS
    <2>2. PICK a : x = [addr |-> a, by |-> users(a)] /\ Cardinality(users(a)) >= 2
      BY DEF SharedGlobals
    <2> QED BY <2>2
  <1> HIDE DEF r, called, users
  <1>4. \A e \in r.edges : {e[1], e[2]} \subseteq S
    BY <1>1
  <1> QED BY <1>1, <1>2, <1>3, <1>4

LEMMA NeighboursAre ==
    ASSUME NEW db, Databases(db), NEW f \in db.fns
    PROVE  /\ Callees(db, f) \in SUBSET Nat /\ IsFiniteSet(Callees(db, f))
           /\ Callers(db, f) \in SUBSET Nat /\ IsFiniteSet(Callers(db, f))
  <1>1. db.fns \in SUBSET Nat /\ IsFiniteSet(db.fns)
    BY DEF Databases
  <1>2. Callees(db, f) \in SUBSET db.fns
    BY TargetsAre
  <1>3. Callers(db, f) \in SUBSET db.fns
    BY DEF Callers
  <1>4. IsFiniteSet(Callees(db, f)) /\ IsFiniteSet(Callers(db, f))
    BY <1>1, <1>2, <1>3, FS_Subset
  <1> QED BY <1>1, <1>2, <1>3, <1>4

(* Any list of strings is the start of the list of all of them.            *)
LEMMA StringsAre ==
    ASSUME NEW db, Databases(db), NEW f \in db.fns, NEW limit \in Nat
    PROVE  /\ FuncStrings(db, f, limit) \in Seq(Nat)
           /\ FuncStrings(db, f, Len(db.strs[f])) = FirstOnly(db.strs[f])
           /\ IsPrefix(FuncStrings(db, f, limit), FirstOnly(db.strs[f]))
           /\ FirstOnly(db.strs[f]) \in Seq(Nat) /\ ToSet(FirstOnly(db.strs[f])) = ToSet(db.strs[f])
  <1> DEFINE s == db.strs[f]
             u == FirstOnly(s)
             m == IF limit > 1 THEN limit ELSE 1
             n == Len(s)
             k == IF n > 1 THEN n ELSE 1
  <1>1. s \in Seq(Nat)
    BY DEF Databases
  <1>2. u \in Seq(Nat) /\ ToSet(u) = ToSet(s) /\ Len(u) <= n /\ n \in Nat /\ Len(u) \in Nat
    BY <1>1, FirstOnlyIs
  <1>3. m \in Nat /\ k \in Nat /\ k >= n
    BY <1>2
  <1>4. FuncStrings(db, f, limit) = Upto(u, m) /\ FuncStrings(db, f, n) = Upto(u, k)
    BY DEF FuncStrings
  <1>5. Upto(u, m) \in Seq(Nat) /\ IsPrefix(Upto(u, m), u)
    <2> HIDE DEF u, m
    <2> QED BY <1>2, <1>3, UptoIs, UptoIsPrefix
  <1>6. Upto(u, k) = u
    <2> HIDE DEF u, k, n
    <2>1. SubSeq(u, 1, Len(u)) = u
      BY <1>2
    <2>2. ~ (k < Len(u))
      BY <1>2, <1>3
    <2>3. Upto(u, k) = SubSeq(u, 1, IF k < Len(u) THEN k ELSE Len(u))
      BY DEF Upto
    <2> QED BY <2>1, <2>2, <2>3, Zenon
  <1> QED BY <1>2, <1>4, <1>5, <1>6

(* The constants shown are the largest.                                    *)
LEMMA ConstantsAreLargest ==
    ASSUME NEW db, Databases(db), NEW f \in db.fns, NEW limit \in Nat
    PROVE  \A c \in ToSet(db.consts[f]) \ (db.boring \union ToSet(FuncConstants(db, f, limit))) :
              Len(FuncConstants(db, f, limit)) = limit /\ \A d \in ToSet(FuncConstants(db, f, limit)) : d > c
  <1> DEFINE s == db.consts[f]
             found == {s[i] : i \in DOMAIN s} \ db.boring
             ahead == [c \in found |-> {d \in found : d > c}]
             o == InOrder(ahead)
             u == Upto(o, limit)
  <1>1. s \in Seq(Nat) /\ Len(s) \in Nat
    BY DEF Databases
  <1>2. IsFiniteSet(found) /\ found \in SUBSET Nat /\ ToSet(s) \ db.boring = found
    <2>1. DOMAIN s = 1..Len(s)
      BY <1>1
    <2>2. IsFiniteSet({s[i] : i \in DOMAIN s})
      <3> DEFINE T == {s[i] : i \in DOMAIN s}
                 h == [i \in 1..Len(s) |-> s[i]]
      <3>1. h \in Surjection(1..Len(s), T)
        BY <2>1 DEF Surjection
      <3>2. 1 \in Int /\ Len(s) \in Int
        BY <1>1
      <3> HIDE DEF T, h, s
      <3>3. IsFiniteSet(1..Len(s))
        BY ONLY <3>2, FS_Interval
      <3> USE DEF s
      <3>4. IsFiniteSet(T)
        BY <3>1, <3>3, FS_Surjection
      <3> QED BY <3>4 DEF T
    <2>3. IsFiniteSet(found)
      BY <2>2, FS_Difference
    <2> QED BY <1>1, <2>1, <2>3 DEF ToSet
  <1>3. FuncConstants(db, f, limit) = u
    BY DEF FuncConstants
  <1> HIDE DEF found
  <1>4. StrictOrder(ahead, found)
    <2>1. ahead \in [found -> SUBSET found] /\ \A x \in found : ahead[x] = {y \in found : y > x}
      OBVIOUS
    <2> HIDE DEF ahead
    <2>2. \A x, y \in found : y \in ahead[x] <=> y > x
      BY <2>1
    <2>a. \A x \in found : x \in Nat
      BY <1>2
    <2>3. \A x \in found : x \notin ahead[x]
      BY <2>2, <2>a
    <2>4. ASSUME NEW x \in found, NEW y \in found, x # y PROVE x \in ahead[y] \/ y \in ahead[x]
      <3>2. x < y \/ y < x
        BY <2>4, <2>a
      <3> QED BY <2>2, <3>2
    <2>5. ASSUME NEW x \in found, NEW y \in found, y \in ahead[x], NEW z \in ahead[y] PROVE z \in ahead[x]
      <3>1. z \in found
        BY <2>1
      <3>2. z > y /\ y > x
        BY <2>2, <2>5, <3>1
      <3>3. z > x
        BY <2>a, <3>1, <3>2
      <3> QED BY <2>2, <3>1, <3>3
    <2> QED BY <1>2, <2>1, <2>3, <2>4, <2>5 DEF StrictOrder
  <1>5. \A x, y \in found : y \in ahead[x] => y > x
    OBVIOUS
  <1> HIDE DEF ahead, o, s
  <1>6. Ordered(o, ahead, found)
    BY <1>4, InOrderIs DEF o
  <1>7. /\ o \in Seq(found) /\ Len(o) \in Nat /\ \A x \in found : \E i \in 1..Len(o) : o[i] = x
        /\ \A i, j \in 1..Len(o) : i < j => o[i] \in ahead[o[j]]
    BY <1>6 DEF Ordered
  <1>8. /\ u \in Seq(found) /\ Len(u) = (IF limit < Len(o) THEN limit ELSE Len(o))
        /\ \A i \in 1..Len(u) : u[i] = o[i]
    BY <1>7, UptoIs
  <1> HIDE DEF u
  <1>9. Len(u) \in Nat /\ DOMAIN u = 1..Len(u) /\ Len(u) <= Len(o) /\ ToSet(u) = {u[i] : i \in 1..Len(u)}
    <2>1. Len(u) \in Nat /\ DOMAIN u = 1..Len(u)
      <3>1. u \in Seq(found)
        BY <1>8
      <3> QED BY <3>1
    <2>2. Len(u) <= Len(o)
      <3>1. Len(u) = (IF limit < Len(o) THEN limit ELSE Len(o))
        BY <1>8
      <3> QED BY <1>7, <3>1
    <2> QED BY <2>1, <2>2 DEF ToSet
  <1>10. ASSUME NEW c \in found, c \notin ToSet(u)
         PROVE  Len(u) = limit /\ \A d \in ToSet(u) : d > c
    <2>1. PICK j \in 1..Len(o) : o[j] = c
      BY <1>7
    <2>2. j > Len(u)
      <3>1. j \in 1..Len(u) => u[j] = c
        BY <1>8, <2>1
      <3>2. ~ (j \in 1..Len(u))
        BY <3>1, <1>9, <1>10
      <3> QED BY <3>2, <1>9
    <2>3. Len(u) = limit
      BY <2>2, <1>7, <1>8
    <2>4. ASSUME NEW i \in 1..Len(u) PROVE u[i] > c
      <3>1. i \in 1..Len(o) /\ i < j /\ u[i] = o[i]
        <4>1. i \in Nat /\ j \in Nat /\ i >= 1 /\ i <= Len(u) /\ Len(u) \in Nat /\ Len(o) \in Nat
          BY <1>7, <1>9
        <4>2. i <= Len(o) /\ i < j
          BY <4>1, <1>9, <2>2
        <4> QED BY <1>8, <4>1, <4>2
      <3>2. o[i] \in found
        BY <1>7, <3>1
      <3> QED BY <1>5, <1>7, <2>1, <3>1, <3>2
    <2> QED BY <1>9, <2>3, <2>4
  <1> QED BY <1>2, <1>3, <1>10 DEF s

(* The profile and the analysis of a function count the same things.       *)
LEMMA ProfilesDoAgree ==
    ASSUME NEW db, Databases(db), NEW f \in db.fns, NEW items \in Nat
    PROVE  ProfilesAgree(db, f, items)
  <1> DEFINE p == FuncProfile(db, f, items)
             a == AnalyzeFunction(db, f)
             all == FuncStrings(db, f, Len(db.strs[f]))
             n == IF items <= 0 THEN 20 ELSE items
  <1>1. /\ p.callee_count = Cardinality(Callees(db, f)) /\ p.caller_count = Cardinality(Callers(db, f))
        /\ p.strings.shown = Upto(all, n) /\ p.strings.truncated = (Len(all) > n) /\ p.string_ref_count = Len(all)
    BY DEF FuncProfile, FirstOf
  <1>2. /\ a.callees = Ascending(Callees(db, f)) /\ a.callers = Ascending(Callers(db, f))
        /\ a.strings = FuncStrings(db, f, SurveyTop) /\ a.constants = FuncConstants(db, f, SurveyTop)
    BY DEF AnalyzeFunction
  <1>3. SurveyTop \in Nat /\ n \in Nat
    BY GraphAssumption
  <1>4. /\ all \in Seq(Nat) /\ ToSet(all) = ToSet(db.strs[f]) /\ IsPrefix(a.strings, all)
    BY <1>2, <1>3, StringsAre
  <1>5. /\ Len(a.callees) = Cardinality(Callees(db, f)) /\ ToSet(a.callees) = Callees(db, f)
        /\ Len(a.callers) = Cardinality(Callers(db, f)) /\ ToSet(a.callers) = Callers(db, f)
    BY <1>2, NeighboursAre, AscendingIs
  <1>6. \A c \in ToSet(db.consts[f]) \ (db.boring \union ToSet(a.constants)) :
              Len(a.constants) = SurveyTop /\ \A d \in ToSet(a.constants) : d > c
    BY <1>2, <1>3, ConstantsAreLargest
  <1> HIDE DEF p, a, all, n
  <1>7. /\ IsPrefix(p.strings.shown, all) /\ (p.strings.truncated <=> Len(p.strings.shown) < p.string_ref_count)
    <2>1. IsPrefix(Upto(all, n), all) /\ Len(Upto(all, n)) = (IF n < Len(all) THEN n ELSE Len(all)) /\ Len(all) \in Nat
      BY <1>3, <1>4, UptoIs, UptoIsPrefix
    <2>2. Len(all) > n <=> Len(Upto(all, n)) < Len(all)
      <3>1. Len(Upto(all, n)) = (IF n < Len(all) THEN n ELSE Len(all))
        BY <2>1
      <3>2. Len(all) \in Nat
        BY <2>1
      <3> QED BY <1>3, <3>1, <3>2
    <2> QED BY <1>1, <2>1, <2>2
  <1> QED BY <1>1, <1>4, <1>5, <1>6, <1>7 DEF ProfilesAgree, p, a, all

(* The three classes of functions are apart and are all of them.           *)
LEMMA StatisticsAdd ==
    ASSUME NEW db, IsFiniteSet(db.fns)
    PROVE  Statistics(db).total = Statistics(db).named + Statistics(db).library + Statistics(db).unnamed
  <1> DEFINE F == db.fns
             A == F \intersect db.auto
             L == (F \intersect db.lib) \ db.auto
             N == F \ (db.lib \union db.auto)
  <1>1. F = (A \union L) \union N /\ A \intersect L = {} /\ (A \union L) \intersect N = {}
    OBVIOUS
  <1>2. A \in SUBSET F /\ L \in SUBSET F /\ N \in SUBSET F
    OBVIOUS
  <1>s. /\ Statistics(db).total = Cardinality(F) /\ Statistics(db).unnamed = Cardinality(A)
        /\ Statistics(db).library = Cardinality(L) /\ Statistics(db).named = Cardinality(N)
    BY DEF Statistics
  <1>i. IsFiniteSet(F)
    OBVIOUS
  <1> HIDE DEF F, A, L, N
  <1>3. IsFiniteSet(A) /\ IsFiniteSet(L) /\ IsFiniteSet(N)
    BY <1>2, <1>i, FS_Subset
  <1>4. Cardinality(A) \in Nat /\ Cardinality(L) \in Nat /\ Cardinality(N) \in Nat /\ Cardinality({}) = 0
    BY <1>3, FS_CardinalityType, FS_EmptySet
  <1>5. IsFiniteSet(A \union L) /\ Cardinality(A \union L) = Cardinality(A) + Cardinality(L) - Cardinality(A \intersect L)
    BY <1>3, FS_Union
  <1>6. Cardinality((A \union L) \union N) = Cardinality(A \union L) + Cardinality(N) - Cardinality((A \union L) \intersect N)
    BY <1>3, <1>5, FS_Union
  <1>7. Cardinality(A \union L) = Cardinality(A) + Cardinality(L)
    <2>1. Cardinality(A \intersect L) = 0
      BY <1>1, <1>4
    <2> QED BY <1>4, <1>5, <2>1
  <1>8. Cardinality(F) = Cardinality(A \union L) + Cardinality(N)
    <2>1. Cardinality((A \union L) \intersect N) = 0
      BY <1>1, <1>4
    <2>2. Cardinality(F) = Cardinality(A \union L) + Cardinality(N) - 0
      BY <1>1, <1>6, <2>1
    <2>3. Cardinality(A \union L) \in Nat
      BY <1>4, <1>7
    <2> QED BY <1>4, <2>2, <2>3
  <1> QED BY <1>4, <1>7, <1>8, <1>s

(* The first category whose pattern hits.                                  *)
LEMMA CategoryIs ==
    ASSUME NEW cats \in Seq(SUBSET Nat), NEW sym
    PROVE  /\ CategoryOf(cats, sym) \in 1..(Len(cats) + 1) /\ Len(cats) \in Nat /\ DOMAIN cats = 1..Len(cats)
           /\ \A c \in 1..(Len(cats) + 1) :
                CategoryOf(cats, sym) = c <=> /\ c \in 1..Len(cats) => sym \in cats[c]
                                              /\ \A b \in 1..(c - 1) : sym \notin cats[b]
  <1> DEFINE n == Len(cats)
             hit == {i \in DOMAIN cats : sym \in cats[i]}
             k == CategoryOf(cats, sym)
  <1>1. n \in Nat /\ DOMAIN cats = 1..n /\ hit \in SUBSET Nat
    OBVIOUS
  <1>2. k = IF hit = {} THEN n + 1 ELSE Min(hit)
    BY DEF CategoryOf
  <1>3. hit # {} => Min(hit) \in hit /\ \A y \in hit : Min(hit) <= y
    <2> HIDE DEF hit
    <2> QED BY <1>1, MinIs
  <1>4. \A i : i \in hit <=> i \in 1..n /\ sym \in cats[i]
    BY <1>1
  <1> HIDE DEF k, hit, n
  <1>5. k \in 1..(n + 1) /\ (k \in 1..n => sym \in cats[k])
    <2>1. CASE hit = {}
      <3>1. k = n + 1 /\ ~ (n + 1 \in 1..n) /\ n + 1 \in 1..(n + 1)
        BY <1>1, <1>2, <2>1
      <3> QED BY <3>1
    <2>2. CASE hit # {}
      <3>1. k \in hit
        BY <1>2, <1>3, <2>2
      <3>2. k \in 1..n /\ sym \in cats[k]
        BY <1>4, <3>1
      <3> QED BY <1>1, <3>2
    <2> QED BY <2>1, <2>2
  <1>6. ASSUME NEW b \in 1..(k - 1) PROVE sym \notin cats[b]
    <2>1. b \in 1..n /\ b < k
      BY <1>1, <1>5
    <2>2. CASE hit = {}
      BY <1>4, <2>1, <2>2
    <2>3. CASE hit # {}
      <3>1. k \in Nat /\ b \in Nat /\ \A y \in hit : k <= y
        <4>1. k = Min(hit) /\ \A y \in hit : Min(hit) <= y
          BY <1>2, <1>3, <2>3
        <4>2. k \in Nat /\ b \in Nat
          BY <1>1, <1>5
        <4> QED BY <4>1, <4>2
      <3>2. b \notin hit
        BY <2>1, <3>1
      <3> QED BY <1>4, <2>1, <3>2
    <2> QED BY <2>2, <2>3
  <1>7. ASSUME NEW c \in 1..(n + 1), c \in 1..n => sym \in cats[c], \A b \in 1..(c - 1) : sym \notin cats[b]
        PROVE  k = c
    <2>1. k \in Nat /\ c \in Nat /\ n \in Nat /\ k <= n + 1 /\ c <= n + 1 /\ k >= 1 /\ c >= 1
      BY <1>1, <1>5
    <2>2. CASE k < c
      <3>1. k \in 1..n /\ k \in 1..(c - 1)
        BY <2>1, <2>2
      <3> QED BY <1>5, <1>7, <3>1
    <2>3. CASE c < k
      <3>1. c \in 1..n /\ c \in 1..(k - 1)
        BY <2>1, <2>3
      <3> QED BY <1>6, <1>7, <3>1
    <2> QED BY <2>1, <2>2, <2>3
  <1> QED BY <1>1, <1>5, <1>6, <1>7 DEF k, n

(* Each import has the category that fits first.                           *)
LEMMA ImportsAre ==
    ASSUME NEW cats \in Seq(SUBSET Nat), NEW syms \in Seq(Nat)
    PROVE  /\ ToSet(syms) = UNION {ToSet(Categorized(cats, syms)[c]) : c \in DOMAIN Categorized(cats, syms)}
           /\ \A c \in DOMAIN Categorized(cats, syms), sym \in ToSet(syms) :
                 sym \in ToSet(Categorized(cats, syms)[c]) <=> /\ c \in DOMAIN cats => sym \in cats[c]
                                                               /\ \A b \in 1..(c - 1) : sym \notin cats[b]
  <1> DEFINE K == [a \in Nat |-> 0]
             In(c) == {i \in DOMAIN syms : CategoryOf(cats, syms[i]) = c}
             r == Categorized(cats, syms)
             N == Len(cats) + 1
  <1>1. K \in [Nat -> Int] /\ DOMAIN syms = 1..Len(syms) /\ Len(syms) \in Nat /\ DOMAIN r = 1..N /\ DOMAIN cats = 1..Len(cats)
    BY DEF Categorized
  <1>2. ASSUME NEW c \in 1..N PROVE r[c] \in Seq(Nat) /\ HasThose(r[c], syms, In(c))
    <2>1. r[c] = Picked(syms, In(c))
      BY DEF Categorized
    <2>2. Picked(syms, In(c)) \in Seq(Nat) /\ HasThose(Picked(syms, In(c)), syms, In(c))
      <3> HIDE DEF K, In
      <3> QED BY <1>1, PickedIs
    <2> QED BY <2>1, <2>2
  <1>3. \A c, i : i \in In(c) <=> i \in 1..Len(syms) /\ CategoryOf(cats, syms[i]) = c
    BY <1>1
  <1> HIDE DEF r, In, K, N
  <1>4. ASSUME NEW c \in 1..N, NEW sym PROVE sym \in ToSet(r[c]) <=> sym \in ToSet(syms) /\ CategoryOf(cats, sym) = c
    <2>1. DOMAIN r[c] = 1..Len(r[c])
      BY <1>2
    <2>2. ASSUME sym \in ToSet(r[c]) PROVE sym \in ToSet(syms) /\ CategoryOf(cats, sym) = c
      <3>1. PICK i \in 1..Len(r[c]) : r[c][i] = sym
        BY <2>1, <2>2 DEF ToSet
      <3>2. PICK j \in 1..Len(syms) : r[c][i] = syms[j] /\ j \in In(c)
        BY <1>2, <3>1 DEF HasThose
      <3> QED BY <1>1, <1>3, <3>1, <3>2 DEF ToSet
    <2>3. ASSUME sym \in ToSet(syms), CategoryOf(cats, sym) = c PROVE sym \in ToSet(r[c])
      <3>1. PICK j \in 1..Len(syms) : syms[j] = sym
        BY <1>1, <2>3 DEF ToSet
      <3>2. j \in In(c)
        BY <1>3, <2>3, <3>1
      <3>3. PICK i \in 1..Len(r[c]) : r[c][i] = syms[j]
        BY <1>2, <3>2 DEF HasThose
      <3> QED BY <2>1, <3>1, <3>3 DEF ToSet
    <2> QED BY <2>2, <2>3
  <1>5. \A sym : CategoryOf(cats, sym) \in 1..N
    BY CategoryIs DEF N
  <1>6. ToSet(syms) = UNION {ToSet(r[c]) : c \in 1..N}
    <2>1. ASSUME NEW sym \in ToSet(syms) PROVE \E c \in 1..N : sym \in ToSet(r[c])
      BY <1>4, <1>5
    <2>2. ASSUME NEW c \in 1..N, NEW sym \in ToSet(r[c]) PROVE sym \in ToSet(syms)
      BY <1>4
    <2> QED BY <2>1, <2>2
  <1>7. ASSUME NEW c \in 1..N, NEW sym \in ToSet(syms)
        PROVE  sym \in ToSet(r[c]) <=> (c \in 1..Len(cats) => sym \in cats[c]) /\ \A b \in 1..(c - 1) : sym \notin cats[b]
    <2>1. sym \in ToSet(r[c]) <=> CategoryOf(cats, sym) = c
      BY <1>4
    <2> QED BY <2>1, CategoryIs DEF N
  <1> QED BY <1>1, <1>6, <1>7 DEF r

(* There are at least as many references by call as pairs that call.       *)
LEMMA PairsAreFewer ==
    ASSUME NEW db, Databases(db)
    PROVE  Cardinality(UNION {{f} \X CallsOf(db, f) : f \in db.fns})
              >= Cardinality({p \in db.fns \X db.fns : p[1] \in Callers(db, p[2])})
  <1> DEFINE U == UNION {{f} \X CallsOf(db, f) : f \in db.fns}
             P == {p \in db.fns \X db.fns : p[1] \in Callers(db, p[2])}
             h == [u \in U |-> <<u[1], db.refs[u[1]][u[2]].to>>]
  <1>1. \A f \in db.fns : db.refs[f] \in Seq([to : db.fns, call : BOOLEAN])
    BY DEF Databases
  <1>2. \A f \in db.fns : \A i \in CallsOf(db, f) : i \in 1..Len(db.refs[f]) /\ db.refs[f][i].to \in db.fns
    <2>1. SUFFICES ASSUME NEW f \in db.fns, NEW i \in CallsOf(db, f)
                   PROVE  i \in 1..Len(db.refs[f]) /\ db.refs[f][i].to \in db.fns
      OBVIOUS
    <2> DEFINE s == db.refs[f]
    <2>2. s \in Seq([to : db.fns, call : BOOLEAN]) /\ i \in DOMAIN s
      BY <1>1 DEF CallsOf
    <2> DEFINE A == [to : db.fns, call : BOOLEAN]
    <2> HIDE DEF s, A
    <2>3. s \in Seq(A) /\ i \in DOMAIN s
      BY <2>2 DEF A
    <2>4. i \in 1..Len(s) /\ s[i] \in A
      BY <2>3
    <2>5. s[i].to \in db.fns
      BY <2>4 DEF A
    <2> QED BY <2>4, <2>5 DEF s
  <1>3. IsFiniteSet(U)
    <2> DEFINE W == {{f} \X CallsOf(db, f) : f \in db.fns}
               e == [f \in db.fns |-> {f} \X CallsOf(db, f)]
    <2>1. IsFiniteSet(db.fns) /\ e \in Surjection(db.fns, W)
      BY DEF Databases, Surjection
    <2>2. ASSUME NEW f \in db.fns PROVE IsFiniteSet({f} \X CallsOf(db, f))
      <3>1. Len(db.refs[f]) \in Nat /\ CallsOf(db, f) \in SUBSET (1..Len(db.refs[f]))
        <4> DEFINE s == db.refs[f]
        <4>1. s \in Seq([to : db.fns, call : BOOLEAN])
          BY <1>1
        <4> HIDE DEF s
        <4>2. Len(s) \in Nat
          BY <4>1
        <4> QED BY <4>2, <1>2 DEF s
      <3>2. IsFiniteSet(CallsOf(db, f))
        <4>1. IsFiniteSet(1..Len(db.refs[f]))
          BY <3>1, FS_Interval
        <4> QED BY <3>1, <4>1, FS_Subset
      <3>3. IsFiniteSet({f})
        BY FS_Singleton
      <3> QED BY <3>2, <3>3, FS_Product
    <2>3. \A w \in W : IsFiniteSet(w)
      BY <2>2
    <2> HIDE DEF W, e
    <2>4. IsFiniteSet(W)
      BY <2>1, FS_Surjection
    <2>5. IsFiniteSet(UNION W)
      BY <2>3, <2>4, FS_UNION
    <2> QED BY <2>5 DEF W
  <1>4. ASSUME NEW u \in U PROVE u[1] \in db.fns /\ u[2] \in CallsOf(db, u[1]) /\ h[u] = <<u[1], db.refs[u[1]][u[2]].to>>
    OBVIOUS
  <1>5. ASSUME NEW f \in db.fns, NEW i \in CallsOf(db, f) PROVE <<f, i>> \in U /\ h[<<f, i>>] = <<f, db.refs[f][i].to>>
    OBVIOUS
  <1>6. \A p : p \in P <=> \E f, g \in db.fns : p = <<f, g>> /\ \E i \in CallsOf(db, f) : db.refs[f][i].to = g
    BY DEF Callers
  <1>7. DOMAIN h = U
    OBVIOUS
  <1>w. h = [u \in U |-> h[u]]
    OBVIOUS
  <1> HIDE DEF U, P, h
  <1>8. ASSUME NEW u \in U PROVE h[u] \in P
    <2>1. u[1] \in db.fns /\ u[2] \in CallsOf(db, u[1]) /\ h[u] = <<u[1], db.refs[u[1]][u[2]].to>>
      BY <1>4
    <2>2. db.refs[u[1]][u[2]].to \in db.fns
      BY <1>2, <2>1
    <2> QED BY <1>6, <2>1, <2>2
  <1>9. ASSUME NEW p \in P PROVE \E u \in U : h[u] = p
    <2>1. PICK f \in db.fns, g \in db.fns : p = <<f, g>> /\ \E i \in CallsOf(db, f) : db.refs[f][i].to = g
      BY <1>6
    <2>2. PICK i \in CallsOf(db, f) : db.refs[f][i].to = g
      BY <2>1
    <2> QED BY <1>5, <2>1, <2>2
  <1>10. h \in Surjection(U, P)
    BY <1>w, <1>8, <1>9 DEF Surjection
  <1>11. IsFiniteSet(P) /\ Cardinality(P) <= Cardinality(U)
    BY <1>3, <1>10, FS_Surjection
  <1>12. Cardinality(P) \in Nat /\ Cardinality(U) \in Nat
    BY <1>3, <1>11, FS_CardinalityType
  <1>13. Cardinality(U) >= Cardinality(P)
    BY <1>11, <1>12
  <1> QED BY <1>13 DEF U, P

(* Of the rows of a count the first are shown: what is not shown has no    *)
(* more than what is.                                                       *)
LEMMA TopsAre ==
    ASSUME NEW S \in SUBSET Nat, IsFiniteSet(S), NEW count \in [S -> Nat]
    PROVE  /\ TopBy(count) \in Seq(S)
           /\ \A a \in S : (\A i \in 1..Len(TopBy(count)) : TopBy(count)[i] # a) =>
                 \A i \in 1..Len(TopBy(count)) : count[TopBy(count)[i]] >= count[a]
  <1> DEFINE Before(b, a) == count[b] > count[a] \/ (count[b] = count[a] /\ b < a)
             ahead == [a \in S |-> {b \in S : Before(b, a)}]
             o == InOrder(ahead)
             u == TopBy(count)
  <1>1. u = Upto(o, SurveyTop) /\ SurveyTop \in Nat
    BY GraphAssumption DEF TopBy
  <1>2. \A a \in S : a \in Nat /\ count[a] \in Nat
    OBVIOUS
  <1>3. ahead \in [S -> SUBSET S] /\ \A a, b \in S : b \in ahead[a] <=> Before(b, a)
    OBVIOUS
  <1>4. StrictOrder(ahead, S)
    <2> HIDE DEF ahead
    <2>1. \A x \in S : x \notin ahead[x]
      <3>1. \A x \in S : ~ Before(x, x)
        BY <1>2
      <3> HIDE DEF Before
      <3> QED BY <1>3, <3>1
    <2>2. ASSUME NEW x \in S, NEW y \in S, x # y PROVE x \in ahead[y] \/ y \in ahead[x]
      <3>1. Before(x, y) \/ Before(y, x)
        BY <1>2, <2>2
      <3> HIDE DEF Before
      <3> QED BY <1>3, <3>1
    <2>3. ASSUME NEW x \in S, NEW y \in S, y \in ahead[x], NEW z \in ahead[y] PROVE z \in ahead[x]
      <3>1. z \in S
        BY <1>3
      <3>2. Before(z, y) /\ Before(y, x)
        <4> HIDE DEF Before
        <4> QED BY <1>3, <2>3, <3>1
      <3>3. Before(z, x)
        BY <1>2, <3>1, <3>2
      <3> HIDE DEF Before
      <3> QED BY <1>3, <3>1, <3>3
    <2> QED BY <1>3, <2>1, <2>2, <2>3 DEF StrictOrder
  <1>5. \A a, b \in S : b \in ahead[a] => count[b] >= count[a]
    <2>1. \A a, b \in S : Before(b, a) => count[b] >= count[a]
      BY <1>2
    <2> HIDE DEF Before, ahead
    <2> QED BY <1>3, <2>1
  <1> HIDE DEF Before, ahead, o, u
  <1>6. Ordered(o, ahead, S)
    BY <1>4, InOrderIs DEF o
  <1>7. /\ o \in Seq(S) /\ Len(o) \in Nat /\ \A x \in S : \E i \in 1..Len(o) : o[i] = x
        /\ \A i, j \in 1..Len(o) : i < j => o[i] \in ahead[o[j]]
    BY <1>6 DEF Ordered
  <1>8. /\ u \in Seq(S) /\ Len(u) = (IF SurveyTop < Len(o) THEN SurveyTop ELSE Len(o))
        /\ \A i \in 1..Len(u) : u[i] = o[i]
    BY <1>1, <1>7, UptoIs
  <1>9. Len(u) \in Nat /\ Len(u) <= Len(o)
    BY <1>1, <1>7, <1>8
  <1>10. ASSUME NEW a \in S, \A i \in 1..Len(u) : u[i] # a, NEW i \in 1..Len(u) PROVE count[u[i]] >= count[a]
    <2>1. PICK j \in 1..Len(o) : o[j] = a
      BY <1>7
    <2>2. ~ (j \in 1..Len(u))
      BY <1>8, <1>10, <2>1
    <2>3. i \in 1..Len(o) /\ i < j
      BY <1>7, <1>9, <2>2
    <2>4. o[i] \in ahead[a] /\ o[i] \in S /\ u[i] = o[i]
      BY <1>7, <1>8, <2>1, <2>3
    <2> QED BY <1>5, <2>4
  <1> QED BY <1>8, <1>10 DEF u

(* All are seen when the survey says neither truncated nor partial.        *)
LEMMA SurveysAgree ==
    ASSUME NEW db, Databases(db), NEW looked
    PROVE  SurveyAgrees(db, looked)
  <1> DEFINE s == Survey(db, "standard", looked)
             st == s.statistics
             pairs == {p \in db.fns \X db.fns : p[1] \in Callers(db, p[2])}
             roots == db.fns \ {p[2] : p \in pairs}
             fns == First(db.fns, SurveyFuncs)
             swept == First(fns, looked)
             count == [f \in swept \ db.lib |-> RefsTo(db, f)]
             top == TopBy(count)
  <1>1. /\ st = Statistics(db) /\ s.truncated = (fns # db.fns) /\ s.partial = (swept # fns)
        /\ s.functions = [i \in DOMAIN top |-> [fn |-> top[i], kind |-> KindOf(db, top[i])]]
        /\ s.summary = CallSummary(db, swept) /\ s.imports = Categorized(db.cats, db.imports)
    BY DEF Survey
  <1>2. /\ IsFiniteSet(db.fns) /\ db.fns \in SUBSET Nat /\ db.cats \in Seq(SUBSET Nat) /\ db.imports \in Seq(Nat)
        /\ \A f \in db.fns : db.refs[f] \in Seq([to : db.fns, call : BOOLEAN]) /\ db.xrefs[f] \in Seq(db.fns)
    BY DEF Databases
  <1> HIDE DEF s, st, fns, swept, count, top, pairs, roots
  <1>3. st.total = st.named + st.library + st.unnamed
    BY <1>1, <1>2, StatisticsAdd
  <1>4. /\ ToSet(db.imports) = UNION {ToSet(s.imports[c]) : c \in DOMAIN s.imports}
        /\ \A c \in DOMAIN s.imports, sym \in ToSet(db.imports) :
              sym \in ToSet(s.imports[c]) <=> /\ c \in DOMAIN db.cats => sym \in db.cats[c]
                                              /\ \A b \in 1..(c - 1) : sym \notin db.cats[b]
    BY <1>1, <1>2, ImportsAre, SMTT(30)
  <1>5. ASSUME ~ s.partial, ~ s.truncated
        PROVE  /\ s.summary.total >= Cardinality(pairs)
               /\ s.summary.roots \subseteq roots
               /\ \A f \in roots \ s.summary.roots : Cardinality({g \in roots : g < f}) >= SurveyRoots
               /\ s.summary.leaves = Cardinality(db.fns \ {p[1] : p \in pairs})
               /\ \A f \in db.fns \ db.lib : (\A i \in DOMAIN s.functions : s.functions[i].fn # f) =>
                    \A i \in DOMAIN s.functions : RefsTo(db, s.functions[i].fn) >= RefsTo(db, f)
    <2>1. swept = db.fns
      BY <1>1, <1>5
    <2>2. /\ s.summary.total = Cardinality(UNION {{f} \X CallsOf(db, f) : f \in db.fns})
          /\ s.summary.roots = First({f \in db.fns : Callers(db, f) = {}}, SurveyRoots)
          /\ s.summary.leaves = Cardinality({f \in db.fns : CallsOf(db, f) = {}})
      BY <1>1, <2>1 DEF CallSummary
    <2>3. s.summary.total >= Cardinality(pairs)
      BY <2>2, PairsAreFewer DEF pairs
    <2>4. \A f, g \in db.fns : <<f, g>> \in pairs <=> f \in Callers(db, g)
      BY DEF pairs
    <2>5. pairs \subseteq db.fns \X db.fns
      BY DEF pairs
    <2>6. roots = {f \in db.fns : Callers(db, f) = {}}
      <3>1. \A g \in db.fns : Callers(db, g) \subseteq db.fns
        BY DEF Callers
      <3>2. ASSUME NEW g \in db.fns PROVE Callers(db, g) = {} <=> g \notin {p[2] : p \in pairs}
        <4>1. ASSUME NEW f \in Callers(db, g) PROVE g \in {p[2] : p \in pairs}
          <5>1. <<f, g>> \in pairs /\ <<f, g>>[2] = g
            BY <2>4, <3>1, <4>1
          <5> QED BY <5>1
        <4>2. ASSUME NEW p \in pairs, p[2] = g PROVE Callers(db, g) # {}
          <5>1. p[1] \in Callers(db, p[2])
            BY DEF pairs
          <5> QED BY <4>2, <5>1
        <4> QED BY <4>1, <4>2
      <3> QED BY <3>2 DEF roots
    <2>9. s.summary.roots = First(roots, SurveyRoots)
      BY <2>2, <2>6
    <2>10. s.summary.roots \subseteq roots
      BY <2>9 DEF First
    <2>11. ASSUME NEW f \in roots \ s.summary.roots
           PROVE  Cardinality({g \in roots : g < f}) >= SurveyRoots
      <3>1. {g \in roots : g < f} \in SUBSET db.fns
        BY <2>6
      <3>2. Cardinality({g \in roots : g < f}) \in Nat
        BY <1>2, <3>1, FS_Subset, FS_CardinalityType
      <3>3. ~ Cardinality({g \in roots : g < f}) < SurveyRoots
        BY <2>9, <2>11 DEF First
      <3> QED BY <3>2, <3>3, GraphAssumption
    <2>7. s.summary.leaves = Cardinality(db.fns \ {p[1] : p \in pairs})
      <3>1. ASSUME NEW f \in db.fns PROVE CallsOf(db, f) = {} <=> f \notin {p[1] : p \in pairs}
        <4>1. ASSUME NEW i \in CallsOf(db, f) PROVE f \in {p[1] : p \in pairs}
          <5> DEFINE r == db.refs[f]
                     A == [to : db.fns, call : BOOLEAN]
                     g == r[i].to
          <5>1. r \in Seq(A) /\ i \in DOMAIN r
            BY <1>2 DEF CallsOf
          <5> HIDE DEF r, A
          <5>2. r[i] \in A
            BY <5>1
          <5>3. g \in db.fns
            BY <5>2 DEF A
          <5>4. f \in Callers(db, g)
            BY <5>3 DEF Callers, r
          <5> HIDE DEF g
          <5>5. <<f, g>> \in pairs /\ <<f, g>>[1] = f
            BY <2>4, <5>3, <5>4
          <5> QED BY <5>5
        <4>2. ASSUME NEW p \in pairs, p[1] = f PROVE CallsOf(db, f) # {}
          <5>1. p[1] \in Callers(db, p[2])
            BY DEF pairs
          <5>2. \E i \in CallsOf(db, p[1]) : db.refs[p[1]][i].to = p[2]
            BY <5>1 DEF Callers
          <5> QED BY <4>2, <5>2
        <4> QED BY <4>1, <4>2
      <3>2. {f \in db.fns : CallsOf(db, f) = {}} = db.fns \ {p[1] : p \in pairs}
        BY <3>1
      <3> QED BY <2>2, <3>2
    <2>8. ASSUME NEW f \in db.fns \ db.lib, \A i \in DOMAIN s.functions : s.functions[i].fn # f, NEW i \in DOMAIN s.functions
          PROVE  RefsTo(db, s.functions[i].fn) >= RefsTo(db, f)
      <3> DEFINE S == db.fns \ db.lib
      <3>1. S \in SUBSET Nat /\ IsFiniteSet(S)
        BY <1>2, FS_Difference
      <3>2. count \in [S -> Nat] /\ \A g \in S : count[g] = RefsTo(db, g)
        <4>1. \A g \in db.fns : RefsTo(db, g) \in Nat
          <5>1. SUFFICES ASSUME NEW g \in db.fns PROVE Len(db.xrefs[g]) \in Nat
            BY DEF RefsTo
          <5>2. db.xrefs[g] \in Seq(db.fns)
            BY <1>2
          <5> QED BY <5>2, LenProperties
        <4> QED BY <2>1, <4>1 DEF count
      <3> HIDE DEF S
      <3>3. /\ top \in Seq(S)
            /\ \A a \in S : (\A j \in 1..Len(top) : top[j] # a) => \A j \in 1..Len(top) : count[top[j]] >= count[a]
        BY <3>1, <3>2, TopsAre DEF top
      <3>4. DOMAIN top = 1..Len(top) /\ \A j \in 1..Len(top) : top[j] \in S
        BY <3>3
      <3>5. DOMAIN s.functions = 1..Len(top) /\ \A j \in 1..Len(top) : s.functions[j].fn = top[j]
        BY <1>1, <3>4
      <3>6. f \in S /\ \A j \in 1..Len(top) : top[j] # f
        BY <2>8, <3>5 DEF S
      <3>7. count[top[i]] >= count[f]
        BY <2>8, <3>3, <3>5, <3>6
      <3> QED BY <2>8, <3>2, <3>4, <3>5, <3>6, <3>7
    <2> QED BY <2>3, <2>7, <2>8, <2>10, <2>11
  <1> QED BY <1>3, <1>4, <1>5 DEF SurveyAgrees, s, st, pairs, roots

(* So for whatever is asked.                                               *)
LEMMA GraphsAreSound == GraphAsked => GraphsSound
  <1>1. SUFFICES ASSUME GraphAsked, part = "graph" PROVE GraphsSound
    BY DEF GraphsSound
  <1>2. Databases(ask)
    BY <1>1 DEF GraphAsked
  <1>3. ASSUME NEW lim \in Limits, NEW cut \in Cuts, NEW root \in ask.fns PROVE CallgraphIsSound(ask, lim, cut, root)
    <2>1. IsLimit(lim)
      BY GraphChecksAssumption DEF IsLimit
    <2> QED BY <1>2, <2>1, CallgraphsAreSoundAlways
  <1>4. ASSUME NEW dir \in {"forward", "backward"}, NEW max \in Depths, NEW cut \in Cuts, NEW start \in ask.fns
        PROVE  TraceIsExact(ask, dir, max, cut, start)
    <2>1. max \in Int
      BY GraphChecksAssumption
    <2> QED BY <1>2, <2>1, TracesAreExactAlways
  <1>5. \A S : ComponentIsPartitioned(ask, S)
    BY <1>2, ComponentsArePartitioned
  <1>6. ASSUME NEW f \in ask.fns, NEW items \in 0..SurveyTop PROVE ProfilesAgree(ask, f, items)
    <2>1. items \in Nat
      BY GraphAssumption
    <2> QED BY <1>2, <2>1, ProfilesDoAgree
  <1>7. \A looked : SurveyAgrees(ask, looked)
    BY <1>2, SurveysAgree
  <1> QED BY <1>3, <1>4, <1>5, <1>6, <1>7 DEF GraphsSound

(* Call graphs, traces, groups, profiles and surveys are those of the      *)
(* database, whatever its size, the limits and the place of a cancel.      *)
THEOREM GraphsSoundAlways == []GraphAsked => []GraphsSound
  BY GraphsAreSound, PTL
=============================================================================
