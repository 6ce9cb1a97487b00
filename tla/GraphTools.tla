----------------------------- MODULE GraphTools -----------------------------
(***************************************************************************)
(* The tools of api_composite.py that walk the call graph, as operators on  *)
(* an abstract database and, for each tool, the reply it gives.  A database *)
(* is a record: fns, the addresses of the functions; refs[f], the code      *)
(* references of f in the order of its instructions, [to, call], call being *)
(* FALSE for a jump (one inside f leads to f); xrefs[f], the functions that *)
(* refer to f as IDA lists them; data[f], the data f refers to; strs[f] and *)
(* consts[f], its strings and constants in order; strefs[a], the number of  *)
(* references to the string at a.  A trace goes from address to address:    *)
(* there an element of fns is an address, with the references it makes.     *)
(***************************************************************************)
EXTENDS Series, FiniteSetsExt, SequencesExt

CONSTANTS
    TraceNodes,     \* _MAX_TRACE_NODES
    TraceEdges,     \* _MAX_TRACE_EDGES
    Poll,           \* visits between two looks at the cancel flag (32, 64)
    SurveyFuncs,    \* _MAX_FUNC_ITER
    SurveyStrings,  \* _MAX_STRING_ITER
    SurveyTop,      \* rows in a top list (15)
    SurveyRoots     \* functions without callers that are named (100)

ASSUME GraphAssumption ==
    {TraceNodes, TraceEdges, Poll, SurveyFuncs, SurveyStrings, SurveyTop, SurveyRoots} \subseteq Nat \ {0}

(* _callee_list: every code ref; _caller_list: calls only. *)
Targets(db, f) == [i \in DOMAIN db.refs[f] |-> db.refs[f][i].to]
Callees(db, f) == {db.refs[f][i].to : i \in DOMAIN db.refs[f]}
CallsOf(db, f) == {i \in DOMAIN db.refs[f] : db.refs[f][i].call}
Callers(db, f) == {g \in db.fns : \E i \in CallsOf(db, g) : db.refs[g][i].to = f}

(***************************************************************************)
(* callgraph: depth first from one root.  `lim` holds max_depth, max_nodes, *)
(* max_edges, max_edges_per_func; `cut` is the visit from which on the      *)
(* cancel flag is set (0 for never).                                        *)
(***************************************************************************)
Unvisited == [nodes |-> <<>>, edges |-> <<>>, visited |-> {}, reason |-> "none",
              capped |-> FALSE]
Graphs(db) == [nodes : Seq([fn : db.fns, depth : Nat]), edges : Seq(db.fns \X db.fns),
               visited : SUBSET db.fns, reason : {"none", "nodes", "edges", "cancelled"}, capped : BOOLEAN]

(* The i-th reference of f, to g; deeper gives what a visit of the next     *)
(* level leaves.                                                            *)
Follow(lim, s, f, g, i, deeper) ==
    CASE s.reason # "none" -> s
      [] s.reason = "none" /\ i > lim.per -> [s EXCEPT !.capped = TRUE]
      [] s.reason = "none" /\ i <= lim.per /\ Len(s.edges) >= lim.edges -> [s EXCEPT !.reason = "edges"]
      [] OTHER -> deeper[<<[s EXCEPT !.edges = Append(@, <<f, g>>)], g>>]

(* What there is after 0, 1, ... of the references of f. *)
FollowRefs(db, lim, s, f, deeper) ==
    LET refs == Targets(db, f)
        followed[i \in 0..Len(refs)] ==
            IF i = 0 THEN s ELSE Follow(lim, followed[i - 1], f, refs[i], i, deeper)
    IN  followed

(* Mutant: the limit of nodes is looked at after the node was added. *)
VisitLate(db, lim, cut, s, f, depth, deeper) ==
    IF s.reason # "none" \/ f \in s.visited THEN s
    ELSE LET t == [s EXCEPT !.visited = @ \union {f},
                            !.nodes = Append(@, [fn |-> f, depth |-> depth])]
         IN  IF Len(t.nodes) > lim.nodes THEN [t EXCEPT !.reason = "nodes"]
             ELSE FollowRefs(db, lim, t, f, deeper)[Len(db.refs[f])]

(* traverse of a function at a depth within the limit. *)
Visit(db, lim, cut, s, f, depth, deeper) ==
    LET visits == Cardinality(s.visited) + 1
        t == [s EXCEPT !.visited = @ \union {f},
                       !.nodes = Append(@, [fn |-> f, depth |-> depth])]
    IN  IF s.reason # "none" \/ f \in s.visited THEN s
        ELSE IF Len(s.nodes) >= lim.nodes THEN [s EXCEPT !.reason = "nodes"]
        ELSE IF cut # 0 /\ visits >= cut /\ visits % Poll = 0
             THEN [s EXCEPT !.reason = "cancelled"]
        ELSE FollowRefs(db, lim, t, f, deeper)[Len(db.refs[f])]

(* traverse, by the number of levels that are left: with none, the depth is *)
(* past max_depth and nothing is done.                                      *)
Traverse(db, lim, cut) ==
    LET traverse[level \in 0..(lim.depth + 1)] ==
            [p \in Graphs(db) \X db.fns |->
                IF level = 0 THEN p[1]
                ELSE Visit(db, lim, cut, p[1], p[2], (lim.depth + 1) - level, traverse[level - 1])]
    IN  traverse[lim.depth + 1]

(* _fetch_callgraph_root *)
CallgraphRoot(db, lim, cut, root) ==
    IF root \notin db.fns THEN [error |-> "Function not found"]
    ELSE Traverse(db, lim, cut)[<<Unvisited, root>>]

(* callgraph: one hop per root; past the budget a root gets an error. *)
Callgraph(db, lim, cut, roots, budget) ==
    [i \in DOMAIN roots |->
        IF i > budget THEN [error |-> "Tool budget exceeded"]
        ELSE CallgraphRoot(db, [lim EXCEPT !.depth = Max({0, @}), !.nodes = Max({1, @}),
                                           !.edges = Max({1, @}), !.per = Max({1, @})],
                           cut, roots[i])]

(***************************************************************************)
(* trace_data_flow: breadth first over references, forward or backward.     *)
(***************************************************************************)
Ahead(db, dir, f) == IF dir = "forward" THEN Targets(db, f) ELSE db.xrefs[f]

(* Mutant: a target is marked when it is taken from the queue. *)
LooksUnmarked(dir, t, f, g, depth) ==
    IF Len(t.edges) >= TraceEdges THEN t
    ELSE LET e == [t EXCEPT !.edges = Append(@, IF dir = "forward" THEN <<f, g>> ELSE <<g, f>>)]
         IN  IF g \in {t.nodes[i].fn : i \in DOMAIN t.nodes} \/ Len(t.nodes) + Len(t.queue) >= TraceNodes THEN e
             ELSE [e EXCEPT !.queue = Append(@, [fn |-> g, depth |-> depth + 1])]

(* One reference, from a node of that depth to g; past the limit of edges   *)
(* the rest is dropped.                                                     *)
Looks(dir, t, f, g, depth) ==
    IF Len(t.edges) >= TraceEdges THEN t
    ELSE LET e == [t EXCEPT !.edges = Append(@, IF dir = "forward" THEN <<f, g>> ELSE <<g, f>>)]
         IN  IF g \in t.visited \/ Len(t.nodes) + Len(t.queue) >= TraceNodes THEN e
             ELSE [e EXCEPT !.visited = @ \union {g},
                            !.queue = Append(@, [fn |-> g, depth |-> depth + 1])]

Expand(db, dir, s, f, depth) ==
    LET refs == Ahead(db, dir, f)
        looked[i \in 0..Len(refs)] ==
            IF i = 0 THEN s ELSE Looks(dir, looked[i - 1], f, refs[i], depth)
    IN  looked

(* One turn of the loop, which goes on until the queue is empty, there are  *)
(* nodes enough, or it is cancelled.                                        *)
Turn(db, dir, max, cut, s) ==
    LET n == Head(s.queue)
        t == [s EXCEPT !.queue = Tail(@), !.nodes = Append(@, n)]
    IN  IF s.queue = <<>> \/ Len(s.nodes) >= TraceNodes \/ s.partial THEN s
        ELSE IF cut # 0 /\ Len(s.nodes) + 1 >= cut /\ (Len(s.nodes) + 1) % Poll = 0
             THEN [s EXCEPT !.partial = TRUE]
        ELSE IF n.depth >= max THEN t
        ELSE Expand(db, dir, t, n.fn, n.depth)[Len(Ahead(db, dir, n.fn))]

TraceDepth(max) == Max({1, Min({max, 20})})

(* Each turn but the last adds a node. *)
TraceDataFlow(db, dir, max, cut, start) ==
    LET turns[n \in 0..TraceNodes] ==
            IF n = 0
            THEN [visited |-> {start}, nodes |-> <<>>, edges |-> <<>>,
                  queue |-> << [fn |-> start, depth |-> 0] >>, partial |-> FALSE]
            ELSE Turn(db, dir, TraceDepth(max), cut, turns[n - 1])
    IN  turns[TraceNodes]

(***************************************************************************)
(* analyze_component: a set of functions as a group.                        *)
(***************************************************************************)

(* Mutant: only callers inside the group are looked at. *)
InterfaceOfInside(db, S) == {f \in S \intersect db.fns : Callers(db, f) \intersect S # {}}

(* A function that something outside the group calls. *)
InterfaceOf(db, S) == {f \in S \intersect db.fns : ~ (Callers(db, f) \subseteq S)}

SharedGlobals(db, S) ==
    LET users(a) == {f \in S \intersect db.fns : a \in db.data[f]}
    IN  {[addr |-> a, by |-> users(a)] : a \in
            {x \in UNION {db.data[f] : f \in S \intersect db.fns} : Cardinality(users(x)) >= 2}}

AnalyzeComponent(db, S) ==
    IF S = {} THEN [error |-> "Empty address list"]
    ELSE [nodes |-> S,
          edges |-> {e \in (S \intersect db.fns) \X S : e[2] \in Callees(db, e[1])},
          shared |-> SharedGlobals(db, S),
          interface |-> InterfaceOf(db, S),
          internal |-> S \ InterfaceOf(db, S)]

(***************************************************************************)
(* analyze_function and func_profile: what one function refers to.          *)
(***************************************************************************)

(* _func_strings: values in the order of the code, each once, up to a       *)
(* limit that is looked at after a value was added.                         *)
FuncStrings(db, f, limit) == Upto(FirstOnly(db.strs[f]), IF limit > 1 THEN limit ELSE 1)

(* Mutant: the smallest constants come first. *)
FuncConstantsSmall(db, f, limit) ==
    Upto(Ascending({db.consts[f][i] : i \in DOMAIN db.consts[f]} \ db.boring), limit)

(* _func_constants: without the boring ones, the largest first. *)
FuncConstants(db, f, limit) ==
    LET found == {db.consts[f][i] : i \in DOMAIN db.consts[f]} \ db.boring
    IN  Upto(InOrder([c \in found |-> {d \in found : d > c}]), limit)

AnalyzeFunction(db, f) ==
    IF f \notin db.fns THEN [error |-> "No function"]
    ELSE [callees |-> Ascending(Callees(db, f)), callers |-> Ascending(Callers(db, f)),
          strings |-> FuncStrings(db, f, SurveyTop), constants |-> FuncConstants(db, f, SurveyTop)]

FirstOf(s, n) == [shown |-> Upto(s, n), truncated |-> Len(s) > n]

FuncProfile(db, f, items) ==
    IF f \notin db.fns THEN [error |-> "Function not found"]
    ELSE LET n == IF items <= 0 THEN 20 ELSE items
             strings == FuncStrings(db, f, Len(db.strs[f]))
         IN  [caller_count |-> Cardinality(Callers(db, f)), callee_count |-> Cardinality(Callees(db, f)),
              string_ref_count |-> Len(strings),
              callers |-> FirstOf(Ascending(Callers(db, f)), n),
              callees |-> FirstOf(Ascending(Callees(db, f)), n),
              strings |-> FirstOf(strings, n)]

(***************************************************************************)
(* survey_binary.  `looked` is the number of functions and of strings it    *)
(* looks at before it sees a cancel; the survey then says it is partial.    *)
(***************************************************************************)
First(S, n) == {x \in S : Cardinality({y \in S : y < x}) < n}

(* Rows by the number of references, most first, equals in address order. *)
TopBy(count) ==
    Upto(InOrder([a \in DOMAIN count |->
                    {b \in DOMAIN count : count[b] > count[a] \/ (count[b] = count[a] /\ b < a)}]), SurveyTop)

RefsTo(db, f) == Len(db.xrefs[f])

KindOf(db, f) ==
    LET n == Cardinality(Callees(db, f))
    IN  CASE db.size[f] = "thunk" -> "thunk"
          [] db.size[f] # "thunk" /\ n = 1 /\ db.size[f] = "small" -> "wrapper"
          [] db.size[f] # "thunk" /\ n = 0 -> "leaf"
          [] OTHER -> IF n > 10 THEN "dispatcher" ELSE "complex"

(* A name made by IDA counts as unnamed even in a library function. *)
Statistics(db) ==
    [total |-> Cardinality(db.fns),
     unnamed |-> Cardinality(db.fns \intersect db.auto),
     library |-> Cardinality((db.fns \intersect db.lib) \ db.auto),
     named |-> Cardinality(db.fns \ (db.lib \union db.auto))]

(* The list of roots is cut without a word. *)
CallSummary(db, seen) ==
    [roots |-> First({f \in seen : Callers(db, f) = {}}, SurveyRoots),
     leaves |-> Cardinality({f \in seen : CallsOf(db, f) = {}}),
     total |-> Cardinality(UNION {{f} \X CallsOf(db, f) : f \in seen})]

(* _categorize_imports: the first category whose pattern hits. *)
CategoryOf(cats, sym) ==
    LET hit == {i \in DOMAIN cats : sym \in cats[i]} IN IF hit = {} THEN Len(cats) + 1 ELSE Min(hit)
Categorized(cats, syms) ==
    [c \in 1..(Len(cats) + 1) |-> Picked(syms, {i \in DOMAIN syms : CategoryOf(cats, syms[i]) = c})]

Survey(db, detail, looked) ==
    LET fns == First(db.fns, SurveyFuncs)
        seen == First(fns, looked)
        strings == First(DOMAIN db.strefs, SurveyStrings)
        counted == First(strings, looked)
        top == TopBy([f \in seen \ db.lib |-> RefsTo(db, f)])
    IN  IF detail = "minimal" THEN [statistics |-> Statistics(db), truncated |-> fns # db.fns]
        ELSE [statistics |-> Statistics(db), truncated |-> fns # db.fns,
              strings |-> TopBy([a \in {b \in counted : db.strefs[b] > 0} |-> db.strefs[a]]),
              functions |-> [i \in DOMAIN top |-> [fn |-> top[i], kind |-> KindOf(db, top[i])]],
              summary |-> CallSummary(db, seen),
              imports |-> Categorized(db.cats, db.imports),
              partial |-> seen # fns,
              strings_partial |-> counted # strings]
=============================================================================
