----------------------------- MODULE GraphChecks ----------------------------
(***************************************************************************)
(* What the graph tools promise of each database, under each of some limits *)
(* and cancels, from each function.                                         *)
(***************************************************************************)
EXTENDS GraphTools, Asking

CONSTANTS
    Limits,         \* limits of a call graph that are asked for
    Cuts,           \* visits from which on a walk is cancelled, 0 for never
    Depths,         \* depths of a trace
    Glances         \* functions and strings a survey looks at

ASSUME GraphChecksAssumption ==
    /\ Limits \subseteq [depth : Nat, nodes : Nat \ {0}, edges : Nat \ {0}, per : Nat \ {0}]
    /\ Cuts \subseteq Nat /\ Depths \subseteq Int /\ Glances \subseteq Nat

(* Reference: what lies within k steps of a function. *)
Near(db, dir) == [f \in db.fns |-> ToSet(Ahead(db, dir, f))]
Within(near, start, k) ==
    LET ball[n \in 0..k] ==
            IF n = 0 THEN {start} ELSE ball[n - 1] \union UNION {near[f] : f \in ball[n - 1]}
    IN  ball[k]

(* The nodes of a call graph are distinct, start with the root and hang on  *)
(* it by listed edges within the limits; when no limit was met they are all *)
(* the functions the root leads to, with all their references.              *)
CallgraphIsSound(db, lim, cut, root) ==
    LET g == CallgraphRoot(db, lim, cut, root)
        N == {g.nodes[i].fn : i \in DOMAIN g.nodes}
        E == ToSet(g.edges)
        out(f) == {i \in DOMAIN g.edges : g.edges[i][1] = f}
    IN  /\ Cardinality(N) = Len(g.nodes) /\ Len(g.nodes) <= lim.nodes /\ Len(g.edges) <= lim.edges
        /\ \A e \in E : e[1] \in N /\ e[2] \in Callees(db, e[1])
        /\ \A f \in N : Cardinality(out(f)) <= lim.per
        /\ \A i \in DOMAIN g.nodes :
              /\ g.nodes[i].depth <= lim.depth
              /\ i = 1 => g.nodes[i] = [fn |-> root, depth |-> 0]
              /\ i > 1 => \E j \in 1..(i - 1) : /\ <<g.nodes[j].fn, g.nodes[i].fn>> \in E
                                              /\ g.nodes[i].depth = g.nodes[j].depth + 1
        /\ g.reason = "none" /\ ~ g.capped =>
              /\ \A f \in N : Cardinality(out(f)) = Len(db.refs[f]) /\ \A c \in Callees(db, f) : <<f, c>> \in E
              /\ (\A i \in DOMAIN g.nodes : g.nodes[i].depth < lim.depth) =>
                    N = Within(Near(db, "forward"), root, Cardinality(db.fns))

(* A trace lists each function once, with its distance from the start; if  *)
(* it met no limit it lists all that are near enough.                       *)
TraceIsExact(db, dir, max, cut, start) ==
    LET t == TraceDataFlow(db, dir, max, cut, start)
        N == {t.nodes[i].fn : i \in DOMAIN t.nodes}
        near == Near(db, dir)
        full == Len(t.nodes) >= TraceNodes \/ Len(t.edges) >= TraceEdges \/ t.partial
    IN  /\ Cardinality(N) = Len(t.nodes) /\ Len(t.nodes) <= TraceNodes /\ Len(t.edges) <= TraceEdges
        /\ \A i \in DOMAIN t.nodes :
              LET n == t.nodes[i]
              IN  /\ n.fn \in Within(near, start, n.depth)
                  /\ n.depth > 0 => n.fn \notin Within(near, start, n.depth - 1)
        /\ ~ full => N = Within(near, start, TraceDepth(max))

(* A group is split by what calls it from outside; its edges and shared     *)
(* data are those of its members.                                           *)
ComponentIsPartitioned(db, S) ==
    LET r == AnalyzeComponent(db, S)
        called == {f \in S \intersect db.fns : \E g \in db.fns \ S : \E i \in CallsOf(db, g) : db.refs[g][i].to = f}
    IN  S # {} =>
          /\ r.interface = called /\ r.internal = S \ called
          /\ \A e \in r.edges : {e[1], e[2]} \subseteq S
          /\ \A x \in r.shared : /\ Cardinality(x.by) >= 2
                                /\ x.by = {f \in S \intersect db.fns : x.addr \in db.data[f]}

(* The profile and the analysis of a function count the same things; a     *)
(* list cut short says so, and cuts off what matters least.                 *)
ProfilesAgree(db, f, items) ==
    LET p == FuncProfile(db, f, items)
        a == AnalyzeFunction(db, f)
        all == FuncStrings(db, f, Len(db.strs[f]))
    IN  /\ p.callee_count = Len(a.callees) /\ p.caller_count = Len(a.callers)
        /\ ToSet(a.callees) = Callees(db, f) /\ ToSet(a.callers) = Callers(db, f)
        /\ IsPrefix(p.strings.shown, all) /\ IsPrefix(a.strings, all) /\ ToSet(all) = ToSet(db.strs[f])
        /\ p.strings.truncated <=> Len(p.strings.shown) < p.string_ref_count
        /\ \A c \in ToSet(db.consts[f]) \ (db.boring \union ToSet(a.constants)) :
              Len(a.constants) = SurveyTop /\ \A d \in ToSet(a.constants) : d > c

(* Each function has one class in the statistics, each import one category, *)
(* the first that fits; what a survey says of calls is of the same calls,   *)
(* what it does not list has no more references than what it lists, and a  *)
(* root is left out of its roots only when there are SurveyRoots before it. *)
SurveyAgrees(db, looked) ==
    LET s == Survey(db, "standard", looked)
        st == s.statistics
        pairs == {p \in db.fns \X db.fns : p[1] \in Callers(db, p[2])}
        roots == db.fns \ {p[2] : p \in pairs}
    IN  /\ st.total = st.named + st.library + st.unnamed
        /\ ToSet(db.imports) = UNION {ToSet(s.imports[c]) : c \in DOMAIN s.imports}
        /\ \A c \in DOMAIN s.imports, sym \in ToSet(db.imports) :
              sym \in ToSet(s.imports[c]) <=> /\ c \in DOMAIN db.cats => sym \in db.cats[c]
                                             /\ \A b \in 1..(c - 1) : sym \notin db.cats[b]
        /\ ~ s.partial /\ ~ s.truncated =>
              /\ s.summary.total >= Cardinality(pairs)
              /\ s.summary.roots \subseteq roots
              /\ \A f \in roots \ s.summary.roots : Cardinality({g \in roots : g < f}) >= SurveyRoots
              /\ s.summary.leaves = Cardinality(db.fns \ {p[1] : p \in pairs})
              /\ \A f \in db.fns \ db.lib : (\A i \in DOMAIN s.functions : s.functions[i].fn # f) =>
                    \A i \in DOMAIN s.functions : RefsTo(db, s.functions[i].fn) >= RefsTo(db, f)

(* Databases of any size; the two directions in which IDA lists references *)
(* agree.                                                                   *)
Databases(db) ==
    /\ db.fns \in SUBSET Nat /\ IsFiniteSet(db.fns)
    /\ db.refs \in [db.fns -> Seq([to : db.fns, call : BOOLEAN])]
    /\ db.xrefs \in [db.fns -> Seq(db.fns)]
    /\ \A f \in db.fns : ToSet(db.xrefs[f]) = {g \in db.fns : f \in Callees(db, g)}
    /\ DOMAIN db.data = db.fns
    /\ db.strs \in [db.fns -> Seq(Nat)] /\ db.consts \in [db.fns -> Seq(Nat)]
    /\ DOMAIN db.strefs \in SUBSET Nat /\ IsFiniteSet(DOMAIN db.strefs)
    /\ \A a \in DOMAIN db.strefs : db.strefs[a] \in Nat
    /\ db.cats \in Seq(SUBSET Nat) /\ db.imports \in Seq(Nat)

GraphAsked == part = "graph" => Databases(ask)

(* Call graphs, traces, groups and surveys are those of the database. *)
GraphsSound ==
    part = "graph" =>
        /\ \A lim \in Limits, cut \in Cuts, root \in ask.fns : CallgraphIsSound(ask, lim, cut, root)
        /\ \A dir \in {"forward", "backward"}, max \in Depths, cut \in Cuts, start \in ask.fns :
              TraceIsExact(ask, dir, max, cut, start)
        /\ \A S \in SUBSET (ask.fns \union {0}) : ComponentIsPartitioned(ask, S)
        /\ \A f \in ask.fns, items \in 0..SurveyTop : ProfilesAgree(ask, f, items)
        /\ \A looked \in Glances : SurveyAgrees(ask, looked)
=============================================================================
