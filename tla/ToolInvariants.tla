--------------------------- MODULE ToolInvariants ---------------------------
(***************************************************************************)
(* The invariants from which the promises of ProfileCache, EditSession,    *)
(* RequestChecks, PatternChecks and GraphChecks follow (ToolState_proofs):  *)
(* those of the two state machines, and those of the loops over a batch,    *)
(* over the calls of a session table, over the instructions of a signature, *)
(* of a trace, and of the recursion of a call graph.                        *)
(***************************************************************************)
EXTENDS ProfileCache, EditSession, RequestChecks, GraphChecks, PatternChecks

(***************************************************************************)
(* The profile table.  The inductive invariant says who owes what: a       *)
(* thread between its clear and its fill is the only reason for an empty   *)
(* table once a load has got as far as filling, and only a thread that is  *)
(* idle has an answer to show.                                             *)
(***************************************************************************)
(* Some load is past its fill, or was. *)
Filled == complete \/ \E w \in Threads : at[w] = "mark"

IInv ==
    /\ TypeOK
    /\ Filled => cache = Shipped \/ \E w \in Threads : at[w] = "fill"
    /\ LoaderIsRight
    /\ \A w \in Threads : at[w] = "copy" => ~loaded[w]

(***************************************************************************)
(* The editing tools.  Their runs take arguments from small sets; here a   *)
(* client calls them in any order, with any arguments, and IDA fails where *)
(* it likes.                                                               *)
(***************************************************************************)
Calls == {"add", "delete", "toggle", "condition"}      \* of breakpoints

Edits ==
    \/ \E type \in HookTypes : \E luck, failing : Install(type, luck, failing)
    \/ \E id : Event(id)
    \/ \E targets, failing : RemoveHooks(targets, failing)
    \/ \E ea \in Nat : AddBookmark(ea) \/ DeleteBookmark(ea)
    \/ \E tool \in Calls, items \in Seq(Wanted) : Batch(tool, items)
    \/ Read
    \/ \E names, missed : \E updates \in [names -> Int], stored \in BOOLEAN :
          EnumUpsert(updates, missed, stored)
    \/ \E ea \in Nat, raw \in Seq(Nat) : PatchBytes(ea, raw)
    \/ \E ea \in Nat : RevertPatch(ea)

EditSpec == SessionInit /\ [][Edits]_session

(* Ids are given once; the table has one hook of a type, a hook it has is  *)
(* one IDA calls, and its log is the end of what IDA told it.              *)
LoggedLast(e, n) ==
    /\ e.count = n
    /\ Len(e.events) = IF n <= EventsKept THEN n ELSE EventsKept
    /\ \A i \in 1..Len(e.events) : e.events[i] = n - Len(e.events) + i

HookInv ==
    /\ hookSeq \in Nat
    /\ seen \in [DOMAIN seen -> Nat] /\ DOMAIN seen \subseteq 1..hookSeq
    /\ hooks \in [DOMAIN hooks -> [type : HookTypes, events : Seq(Nat), count : Nat]]
    /\ DOMAIN hooks \subseteq DOMAIN seen
    /\ stuck \subseteq DOMAIN seen
    /\ tracing = DOMAIN hooks \union stuck
    /\ DOMAIN hooks \intersect stuck = {}
    /\ \A i, j \in DOMAIN hooks : hooks[i].type = hooks[j].type => i = j
    /\ \A id \in DOMAIN hooks : LoggedLast(hooks[id], seen[id])

(***************************************************************************)
(* What the editing tools told their client.  The slots, the members and   *)
(* the bytes of `told` change one at a time, with the part of the database *)
(* they speak of.                                                          *)
(***************************************************************************)
ToldIs == told = [slots |-> told.slots, members |-> told.members, lost |-> told.lost,
                  bytes |-> told.bytes]

MarksInv ==
    /\ marks \in [0..(Slots - 1) -> Nat]
    /\ \A b \in told.slots : Taken(b[2]) => b[1] \in DOMAIN marks /\ marks[b[1]] = b[2]

(* So too of a type that is not there yet: it has no members. *)
EnumInv == enum.is # "other" => enum.members = Drop(told.members, told.lost)

(* The bytes are those of the last patches not taken back. *)
BytesAsTold ==
    \A a \in Mapped : bytes[a] = IF a \in DOMAIN told.bytes THEN told.bytes[a] ELSE Original(a)

BytesInv == DOMAIN bytes = Mapped /\ BytesAsTold

EditsInv == ToldIs /\ MarksInv /\ EnumInv /\ BytesInv

(* One field of one breakpoint changes. *)
WithCond(b, a, v) == [b EXCEPT ![a].cond = v]
WithLang(b, a, v) == [b EXCEPT ![a].lang = v]

(* An item leaves breakpoints, and those at other addresses alone. *)
HandledWell(tool, b, item) ==
    LET done == Handled(tool, b, item)
        a == item.addr
    IN  /\ done.bpts \in Bpts
        /\ \A x \in Known \ {a} : /\ x \in DOMAIN done.bpts <=> x \in DOMAIN b
                                  /\ x \in DOMAIN b => done.bpts[x] = b[x]
        /\ done.reply = "ok" =>
              CASE tool = "add" -> a \in DOMAIN done.bpts
                [] tool = "delete" -> a \notin DOMAIN done.bpts
                [] tool = "toggle" -> a \in DOMAIN done.bpts /\ done.bpts[a].on = item.on
                [] OTHER -> /\ a \in DOMAIN done.bpts /\ done.bpts[a].cond = item.cond
                            /\ item.lang # "none" => done.bpts[a].lang = item.lang
        /\ tool = "condition" =>
              /\ DOMAIN done.bpts = DOMAIN b
              /\ a \in DOMAIN b => \/ done.bpts[a].cond \in {"none", b[a].cond}
                                   \/ done.bpts[a].cond = item.cond /\ done.reply \in Stored

(* IDA's breakpoints have the type they should, and the last batch is      *)
(* answered, whatever other tools do after it.                             *)
BptsInv == bpts \in Bpts /\ BatchesAreAnswered

(***************************************************************************)
(* The sessions a server keeps: a table is a sequence of <<name, last use>>, *)
(* that used last at the end.                                              *)
(***************************************************************************)
(* The sessions in a table t are in the order of their last use, U. *)
UsesRise(t, U) == \A i, j \in 1..Len(t) : i < j => U[t[i][1]] < U[t[j][1]]

(* The last m places of a table, if it has more. *)
EndsWith(t, r, m) == Len(r) = m /\ \A i \in 1..m : r[i] = t[Len(t) - m + i]

(* The sessions of a table that are fresh at the time now. *)
FreshNames(t, now) == {t[i][1] : i \in {j \in 1..Len(t) : SessionTtl = 0 \/ t[j][2] >= now - SessionTtl}}

(* The sessions of F in use after x. *)
Later(F, U, x) == {y \in F : U[y] > U[x]}

(* r is t without what has to go: F are the fresh sessions of t. *)
PrunedTo(r, t, ids, U, F) ==
    /\ r \in Seq(ids \X Int) /\ UsesRise(r, U)
    /\ SessionMax > 0 => Len(r) <= SessionMax
    /\ \A i \in 1..Len(r) : \E j \in 1..Len(t) : r[i] = t[j]
    /\ \A x : HasSession(r, x) <=> x \in F /\ (SessionMax > 0 => Cardinality(Later(F, U, x)) < SessionMax)

(* t has the sessions of t0 but id, and id at the time now. *)
Refreshed(t, t0, id, now) ==
    /\ \A i \in 1..Len(t) : t[i] = <<id, now>> \/ \E j \in 1..Len(t0) : t[i] = t0[j] /\ t0[j][1] # id
    /\ \A j \in 1..Len(t0) : t0[j][1] # id => \E i \in 1..Len(t) : t[i] = t0[j]
    /\ \E i \in 1..Len(t) : t[i] = <<id, now>>

(* The table of the sessions in use, U their last use and C the clock. *)
Table(ids, t, U, C) ==
    /\ t \in Seq(ids \X Int) /\ UsesRise(t, U)
    /\ \A i \in 1..Len(t) : U[t[i][1]] > 0 /\ t[i][2] = C[U[t[i][1]]]
    /\ \A x \in ids : HasSession(t, x) <=> U[x] > 0
    /\ SessionMax > 0 => Len(t) <= SessionMax

(* A session is alive at the time now. *)
Alive(x, U, C, now) == U[x] # 0 /\ (SessionTtl = 0 \/ now - C[U[x]] <= SessionTtl)

IdsOf(ops) == {ops[i][2] : i \in DOMAIN ops}

(* Step n leads from the table ss and the last uses `was` to st and `use`.  *)
Stepped(ops, n, ss, was, st, use) ==
    /\ was \in [IdsOf(ops) -> 0..(n - 1)] /\ Table(IdsOf(ops), ss, was, Clock(ops))
    /\ st = SessionStep([ss |-> ss, now |-> Clock(ops)[n - 1]], ops[n])
    /\ use = UseStep(ops, n, was)

(* The sessions after each step, and their last use, follow the steps.      *)
Follows(ops, ids) ==
    LET st == SessionsAfter(ops)
        use == LastUse(ops)
    IN  /\ st[0] = [ss |-> <<>>, now |-> 0]
        /\ \A k \in 1..Len(ops) : st[k] = SessionStep(st[k - 1], ops[k])
        /\ use[0] = [x \in ids |-> 0]
        /\ \A k \in 1..Len(ops) : use[k] = UseStep(ops, k, use[k - 1])

(***************************************************************************)
(* Distances in a graph: near[f] is what lies next to f.                   *)
(***************************************************************************)
(* What lies within 0, 1, ... steps of a function. *)
Balls(near, start) == [k \in Nat |-> Within(near, start, k)]

BallsOf(ball, near, fns, start) ==
    /\ ball \in [Nat -> SUBSET fns] /\ ball[0] = {start}
    /\ \A k \in Nat : ball[k + 1] = ball[k] \union UNION {near[f] : f \in ball[k]}

BallTo(b, near, fns, start, N) ==
    /\ b \in [0..N -> SUBSET fns] /\ b[0] = {start}
    /\ \A k \in 1..N : b[k] = b[k - 1] \union UNION {near[f] : f \in b[k - 1]}

(***************************************************************************)
(* Traces: the functions met, in the order in which they are met, have the *)
(* distances of their nodes and come nearest first.                        *)
(***************************************************************************)
(* F lists functions once, E gives each its distance, nearest first. *)
Distances(F, E, h, ball, D) ==
    /\ \A i, j \in 1..h : i < j => F[i] # F[j] /\ E[i] <= E[j]
    /\ \A i \in 1..h : /\ E[i] <= D /\ F[i] \in ball[E[i]]
                       /\ E[i] > 0 => F[i] \notin ball[E[i] - 1]

(* They are the visited ones, and none is more than a step further than    *)
(* the last of the first c, which are nodes.                               *)
Lists(F, E, h, fns, V, c, start, ball, D) ==
    /\ h \in Nat /\ F \in [1..h -> fns] /\ E \in [1..h -> Nat]
    /\ V = {F[i] : i \in 1..h} /\ start \in V /\ c \in 0..h
    /\ Distances(F, E, h, ball, D)
    /\ \A i \in 1..h : E[i] <= IF c = 0 THEN 0 ELSE E[c] + 1

(* What is near one of the first m is visited. *)
Closed(F, E, V, near, D, m) == \A i \in 1..m : E[i] < D => near[F[i]] \subseteq V

Setting(fns, near, start, ball, D) ==
    /\ near \in [fns -> SUBSET fns] /\ start \in fns /\ BallsOf(ball, near, fns, start) /\ D \in Nat

(* A function g first met from the last of the nodes. *)
Adds(fns, near, D, F, E, h, V, c, g, F1, E1) ==
    /\ c # 0 /\ E[c] < D /\ g \in near[F[c]] /\ g \notin V
    /\ F1 \in [1..(h + 1) -> fns] /\ E1 \in [1..(h + 1) -> Nat]
    /\ \A i \in 1..h : F1[i] = F[i] /\ E1[i] = E[i]
    /\ F1[h + 1] = g /\ E1[h + 1] = E[c] + 1

GraphNodes(db) == [fn : db.fns, depth : Nat]
Traces(db) == [visited : SUBSET db.fns, nodes : Seq(GraphNodes(db)), edges : Seq(db.fns \X db.fns),
               queue : Seq(GraphNodes(db)), partial : BOOLEAN]

(* The functions met, in the order in which they are met, and their depths. *)
Met(s) == s.nodes \o s.queue
FnsOf(l) == [i \in 1..Len(l) |-> l[i].fn]
DepthsOf(l) == [i \in 1..Len(l) |-> l[i].depth]

FullTrace(s) == Len(s.nodes) + Len(s.queue) >= TraceNodes \/ Len(s.edges) >= TraceEdges

(* Of the first m nodes, what is near is visited, unless a limit was met.   *)
Traced(s, db, near, start, ball, D, m) ==
    /\ s \in Traces(db) /\ m \in 0..Len(s.nodes)
    /\ Len(s.nodes) + Len(s.queue) <= TraceNodes /\ Len(s.edges) <= TraceEdges
    /\ Lists(FnsOf(Met(s)), DepthsOf(Met(s)), Len(Met(s)), db.fns, s.visited, Len(s.nodes), start, ball, D)
    /\ FullTrace(s) \/ Closed(FnsOf(Met(s)), DepthsOf(Met(s)), s.visited, near, D, m)

(* One reference, to g, of the last of the nodes. *)
LooksAt(db, near, start, ball, D, t, n, g) ==
    /\ Setting(db.fns, near, start, ball, D)
    /\ Traced(t, db, near, start, ball, D, Len(t.nodes) - 1) /\ Len(t.nodes) # 0
    /\ n = t.nodes[Len(t.nodes)] /\ n.depth < D /\ g \in db.fns /\ g \in near[n.fn]

(* What it leaves. *)
LooksGive(db, near, start, ball, D, t, g, u) ==
    /\ Traced(u, db, near, start, ball, D, Len(t.nodes) - 1) /\ u.nodes = t.nodes /\ u.partial = t.partial
    /\ t.visited \subseteq u.visited /\ (FullTrace(t) => FullTrace(u)) /\ (FullTrace(u) \/ g \in u.visited)

(* The set of traces that go on from t. *)
Onwards(db, near, start, ball, D, t) ==
    {u \in Traces(db) : /\ Traced(u, db, near, start, ball, D, Len(t.nodes) - 1)
                        /\ u.nodes = t.nodes /\ u.partial = t.partial}

(* The loop over the references of the last node. *)
ExpandsAt(db, near, start, ball, D, t, n, refs) ==
    /\ Setting(db.fns, near, start, ball, D)
    /\ Traced(t, db, near, start, ball, D, Len(t.nodes) - 1) /\ Len(t.nodes) # 0
    /\ n = t.nodes[Len(t.nodes)] /\ n.depth < D
    /\ refs \in Seq(db.fns) /\ near[n.fn] = {refs[i] : i \in 1..Len(refs)}
Expanded(db, near, start, ball, D, t, n, u) ==
    /\ u \in Onwards(db, near, start, ball, D, t)
    /\ FullTrace(u) \/ near[n.fn] \subseteq u.visited

Stopped(s) == s.queue = <<>> \/ Len(s.nodes) >= TraceNodes \/ s.partial

(* The node taken from the queue becomes the last of the nodes. *)
TurnTaken(db, near, start, ball, D, s, t) ==
    /\ Traced(t, db, near, start, ball, D, Len(t.nodes) - 1)
    /\ Len(t.nodes) = Len(s.nodes) + 1 /\ Len(s.nodes) \in Nat /\ t.nodes[Len(t.nodes)] = Head(s.queue)
    /\ t.partial = s.partial

(* What a turn of the loop leaves. *)
Turned(db, near, start, ball, D, s, u) ==
    /\ Traced(u, db, near, start, ball, D, Len(u.nodes))
    /\ Len(u.nodes) = Len(s.nodes) + 1 \/ Stopped(u)
    /\ Stopped(s) => u = s

(* The queue at first. *)
TraceStart(start) ==
    [visited |-> {start}, nodes |-> <<>>, edges |-> <<>>, queue |-> << [fn |-> start, depth |-> 0] >>, partial |-> FALSE]

(* Where the trace ends. *)
TraceEnds(db, near, start, ball, D, s) ==
    Traced(s, db, near, start, ball, D, Len(s.nodes)) /\ Stopped(s)

(***************************************************************************)
(* Call graphs: what a walk has drawn so far, and what one visit adds.     *)
(***************************************************************************)
(* What a visit of the next level is. *)
Visits(db) == [Graphs(db) \X db.fns -> Graphs(db)]

(* What there is after each reference. *)
Followed(db, lim, s, f, deeper, g) ==
    /\ g \in [0..Len(db.refs[f]) -> Graphs(db)] /\ g[0] = s
    /\ \A k \in 1..Len(db.refs[f]) : g[k] = Follow(lim, g[k - 1], f, Targets(db, f)[k], k, deeper)

(* The levels of a walk. *)
Levels(db, lim, cut, T) ==
    /\ T \in [0..(lim.depth + 1) -> Visits(db)]
    /\ \A p \in Graphs(db) \X db.fns :
         /\ T[0][p] = p[1]
         /\ \A k \in 1..(lim.depth + 1) : T[k][p] = Visit(db, lim, cut, p[1], p[2], (lim.depth + 1) - k, T[k - 1])

Edge(s, x, y) == \E k \in 1..Len(s.edges) : s.edges[k] = <<x, y>>
From(s, x) == {k \in 1..Len(s.edges) : s.edges[k][1] = x}

(* A node x of that depth hangs on one of the first n nodes. *)
Hung(s, x, d, n) == \E j \in 1..n : Edge(s, s.nodes[j].fn, x) /\ d = s.nodes[j].depth + 1

Distinct(s) ==
    /\ s.visited = {s.nodes[i].fn : i \in 1..Len(s.nodes)}
    /\ \A i, j \in 1..Len(s.nodes) : i < j => s.nodes[i].fn # s.nodes[j].fn
Edged(s, db, lim) ==
    /\ \A k \in 1..Len(s.edges) : s.edges[k][1] \in s.visited /\ s.edges[k][2] \in Callees(db, s.edges[k][1])
    /\ \A x \in s.visited : Cardinality(From(s, x)) <= lim.per
Hanging(s, lim, root) ==
    \A i \in 1..Len(s.nodes) : /\ s.nodes[i].depth <= lim.depth
                               /\ i = 1 => s.nodes[i] = [fn |-> root, depth |-> 0]
                               /\ i > 1 => Hung(s, s.nodes[i].fn, s.nodes[i].depth, i - 1)

(* A graph as it is at any time of the walk. *)
Drawn(s, db, lim, root) ==
    /\ s \in Graphs(db) /\ Len(s.nodes) <= lim.nodes /\ Len(s.edges) <= lim.edges
    /\ Distinct(s) /\ Edged(s, db, lim) /\ Hanging(s, lim, root)

Clean(s) == s.reason = "none" /\ ~ s.capped

(* A later one; of the functions it had, only those in X got more edges.    *)
Grown(s, u, X) ==
    /\ s.visited \subseteq u.visited
    /\ Len(s.nodes) <= Len(u.nodes) /\ \A i \in 1..Len(s.nodes) : u.nodes[i] = s.nodes[i]
    /\ Len(s.edges) <= Len(u.edges) /\ \A k \in 1..Len(s.edges) : u.edges[k] = s.edges[k]
    /\ \A k \in 1..Len(u.edges) : k <= Len(s.edges) \/ u.edges[k][1] \in X \/ u.edges[k][1] \notin s.visited
    /\ Clean(u) => Clean(s)

(* A function with all its references. *)
FullyDrawn(s, db, lim, x) ==
    /\ Cardinality(From(s, x)) = Len(db.refs[x])
    /\ \A c \in Callees(db, x) : Edge(s, x, c)
    /\ (\E i \in 1..Len(s.nodes) : s.nodes[i].fn = x /\ s.nodes[i].depth < lim.depth) => Callees(db, x) \subseteq s.visited

(* A function about to be visited at a depth: visited already, or the root, *)
(* or hanging on a node.                                                    *)
Visitable(s, db, lim, root, f, d) ==
    /\ Drawn(s, db, lim, root) /\ f \in db.fns /\ d \in Nat
    /\ f \in s.visited \/ (Len(s.nodes) = 0 /\ f = root /\ d = 0) \/ Hung(s, f, d, Len(s.nodes))

(* What the visit leaves. *)
Visited(s, u, db, lim, root, f, d) ==
    /\ Drawn(u, db, lim, root) /\ Grown(s, u, {})
    /\ Clean(u) /\ d <= lim.depth => f \in u.visited
    /\ Clean(u) => \A x \in u.visited \ s.visited : FullyDrawn(u, db, lim, x)

(* What there is after i references of f, a node at depth d of the graph t0.*)
Following(t0, t, db, lim, root, f, d, i) ==
    /\ Drawn(t, db, lim, root) /\ Grown(t0, t, {f}) /\ Cardinality(From(t, f)) <= i
    /\ t0 \in Graphs(db) /\ f \in db.fns /\ d \in Nat /\ i \in Nat
    /\ f \in t0.visited /\ \E j \in 1..Len(t.nodes) : t.nodes[j] = [fn |-> f, depth |-> d]
    /\ Clean(t) => /\ Cardinality(From(t, f)) = i
                   /\ \A j \in 1..i : /\ Edge(t, f, Targets(db, f)[j])
                                      /\ d < lim.depth => Targets(db, f)[j] \in t.visited
                   /\ \A x \in t.visited \ t0.visited : FullyDrawn(t, db, lim, x)

IsLimit(lim) == lim.depth \in Nat /\ lim.nodes \in Nat \ {0} /\ lim.edges \in Nat \ {0} /\ lim.per \in Nat \ {0}

WithEdge(t, f, g) == [t EXCEPT !.edges = Append(@, <<f, g>>)]
WithNode(s, f, d) == [s EXCEPT !.visited = @ \union {f}, !.nodes = Append(@, [fn |-> f, depth |-> d])]

(* What one more edge leaves, and one more node. *)
EdgeOn(db, lim, root, t, f, g, e) ==
    /\ Drawn(e, db, lim, root) /\ Grown(t, e, {f}) /\ Edge(e, f, g)
    /\ Cardinality(From(e, f)) = Cardinality(From(t, f)) + 1
    /\ e.visited = t.visited /\ e.nodes = t.nodes /\ e.reason = t.reason /\ e.capped = t.capped

NodeOn(db, lim, root, s, f, d, t) ==
    /\ Drawn(t, db, lim, root) /\ Grown(s, t, {}) /\ From(t, f) = {} /\ t.visited = s.visited \union {f}
    /\ \E j \in 1..Len(t.nodes) : t.nodes[j] = [fn |-> f, depth |-> d]

(* Visits of the next level do what they should. *)
VisitsWell(deeper, db, lim, root, d) ==
    /\ deeper \in Visits(db)
    /\ \A s \in Graphs(db), f \in db.fns :
         Visitable(s, db, lim, root, f, d) => Visited(s, deeper[<<s, f>>], db, lim, root, f, d)

(* A mark that a limit was met. *)
Marked(db, lim, root, s, u) ==
    /\ Drawn(u, db, lim, root) /\ ~ Clean(u) /\ u.nodes = s.nodes /\ u.edges = s.edges /\ u.visited = s.visited
    /\ \A x : From(u, x) = From(s, x)
    /\ \A X : Grown(s, u, X)

(***************************************************************************)
(* Orders, and parts of sequences.                                         *)
(***************************************************************************)
(* s rises. *)
Rising(s) == \A i, j \in 1..Len(s) : i < j => s[i] < s[j]

(* A key that rises along s. *)
KeyRises(s, K) == \A i, j \in 1..Len(s) : i < j => K[s[i]] < K[s[j]]

(* r has the elements of s at the places in I, and no other. *)
HasThose(r, s, I) ==
    /\ \A i \in 1..Len(r) : \E j \in 1..Len(s) : r[i] = s[j] /\ j \in I
    /\ \A j \in 1..Len(s) : j \in I => \E i \in 1..Len(r) : r[i] = s[j]

(* ahead says of each element of a finite set what comes before it.        *)
StrictOrder(ahead, S) ==
    /\ IsFiniteSet(S) /\ ahead \in [S -> SUBSET S] /\ \A x \in S : x \notin ahead[x]
    /\ \A x, y \in S : x # y => x \in ahead[y] \/ y \in ahead[x]
    /\ \A x, y \in S : y \in ahead[x] => ahead[y] \subseteq ahead[x]

(* o has the elements of S once each, in that order.                       *)
Ordered(o, ahead, S) ==
    /\ o \in Seq(S) /\ Len(o) = Cardinality(S) /\ Len(o) \in Nat
    /\ \A x \in S : \E i \in 1..Len(o) : o[i] = x
    /\ \A i \in 1..Len(o) : Cardinality(ahead[o[i]]) = i - 1
    /\ \A i, j \in 1..Len(o) : i < j => o[i] \in ahead[o[j]]

(***************************************************************************)
(* The patterns of clients, and byte signatures.                           *)
(***************************************************************************)
(* What _check says of the repeats around a node, and the nodes above each. *)
Said == {"none", "bounded", "unbounded"}
Ups(sub) == [k \in 1..Len(sub) |-> sub[k].up]

(* The repeats around what is below node i that no atomic group takes back. *)
Free(sub, i) ==
    {r \in Lines(sub)[i] : Repeats(sub[r]) /\ \A k \in Lines(sub)[i] : k > r => sub[k].op # "atomic"}

Pat == Nat \union {Wild}        \* bytes of a pattern

(* What a recursive function over 0..n is, when there is one. *)
WalkRec(img, start, wildcards, g) ==
    g = [k \in 0..(Len(img.bytes) + 1) |->
            IF k = 0 THEN <<>>
            ELSE LET sig == g[k - 1] IN sig \o InsnSig(img, start + Len(sig), wildcards)]

(* The walk grows with each instruction until there is none, and then stays; *)
(* it comes to its end inside the image.                                     *)
Settles(walk, n) ==
    /\ \A i, j \in 0..n : i <= j => Len(walk[i]) <= Len(walk[j])
    /\ \A k \in 1..n : walk[k] = walk[k - 1] => \A j \in k..n : walk[j] = walk[k - 1]
    /\ \E k \in 1..n : walk[k] = walk[k - 1]

(* What _make_unique gives is right about the pattern it gives: it matches, *)
(* and says whether it is the first of the walk that matches nowhere else.  *)
SigRight(img, r, start, max, walk) ==
    /\ r.sig \in Seq(Pat) /\ r.unique \in BOOLEAN
    /\ SigMatches(img, r.sig, start)
    /\ r.unique /\ r.sig # <<>> =>
          /\ \E k \in 1..(Len(img.bytes) + 1) : /\ r.sig \in {walk[k - 1], walk[k]}
                                               /\ UniquenessIsTold(img, r.sig, start, TRUE, k)
          /\ \A k \in 1..(Len(img.bytes) + 1) :
                walk[k] # walk[k - 1] /\ MatchesOnce(img, walk[k]) /\ ~ Failed(img, start, k, 1) =>
                    Len(walk[k]) >= Len(r.sig)
    /\ ~ r.unique /\ r.sig # <<>> /\ r.note # "cancelled" =>
          \A k \in 1..(Len(img.bytes) + 1) :
             walk[k] # walk[k - 1] /\ MatchesOnce(img, walk[k]) /\ ~ Failed(img, start, k, 1) =>
                Len(walk[k - 1]) >= max

(* A signature of an address, by whichever tool. *)
Made(img, ea, max, wildcards, cut) == Rendered(MakeUnique(img, ea, max, wildcards, cut), ea)

GoodSig(img, x, ea, max, wildcards) ==
    /\ SignatureIsShortest(img, x, ea, max, wildcards)
    /\ x.addr = ea /\ x.length \in 1..Len(img.bytes)

(* The shortest come first. *)
Shorter(s) == \A i, j \in 1..Len(s) : i <= j => s[i].length <= s[j].length

(* What is encoded after k steps: piece of the range, that matches it, of    *)
(* least one byte per step until it is complete.                            *)
PartOf(img, sig, start, len, k) ==
    /\ sig \in Seq(Pat) /\ SigMatches(img, sig, start)
    /\ Len(sig) <= len /\ Len(sig) >= k

(* What is encoded after one more step. *)
Encode(img, sig, start, end, wildcards) ==
    LET ea == start + Len(sig)
        piece == InsnSig(img, ea, wildcards)
    IN  CASE ea >= end -> sig
          [] ea < end /\ piece = <<>> -> Append(sig, IF ea \in Addresses(img) THEN img.bytes[ea] ELSE 0)
          [] OTHER -> sig \o SubSeq(piece, 1, Min({Len(piece), end - ea}))

EncodeRec(img, start, end, wildcards, g) ==
    g = [k \in 0..(end - start) |-> IF k = 0 THEN <<>> ELSE Encode(img, g[k - 1], start, end, wildcards)]
=============================================================================
