------------------------------ MODULE MCTools -------------------------------
(***************************************************************************)
(* Inputs for the algorithms of the tools.  An initial state picks a family *)
(* of inputs and its seed, the step the rest of the input; the invariants   *)
(* compare what the tools reply to it with what they promise.               *)
(***************************************************************************)
EXTENDS ListTools, GraphChecks, PatternChecks, RequestChecks, EditSession

vars == <<part, ask, session>>
TwoSegments == <<[start |-> 1, end |-> 4], [start |-> 5, end |-> 7]>>
CallLimits == { [depth |-> 3, nodes |-> 9, edges |-> 9, per |-> 9], [depth |-> 1, nodes |-> 9, edges |-> 9, per |-> 9],
                [depth |-> 3, nodes |-> 2, edges |-> 9, per |-> 9], [depth |-> 2, nodes |-> 9, edges |-> 2, per |-> 9],
                [depth |-> 3, nodes |-> 9, edges |-> 9, per |-> 1], [depth |-> 0, nodes |-> 9, edges |-> 9, per |-> 9] }
UpToLen(S, n) == UNION {[1..k -> S] : k \in 0..n}
UpToSize(S, n) == {T \in SUBSET S : Cardinality(T) <= n}

RowKinds == { [name |-> n, size |-> z, typed |-> TRUE, seg |-> "s", isfn |-> f, wide |-> ~ f] :
              n \in {1, 2}, z \in {1, 2}, f \in BOOLEAN }
XrefKinds == { [to |-> t, frm |-> f, kind |-> k] :
               t \in {1, 2}, f \in {2, 3}, k \in {"call", "jump", "read"} }

(* Three or four functions, so that a survey sees all of them or not; 1     *)
(* calls what the seed says, the first of it twice, 4 has no calls and is   *)
(* small.                                                                   *)
Rows(S, call) == LET order == Ascending(S) IN [i \in DOMAIN order |-> [to |-> order[i], call |-> call]]
Graph(n, c1, c2, c3, jumps) ==
    LET refs == <<Rows(c1, TRUE) \o Upto(Rows(c1, TRUE), 1), Rows(jumps, FALSE) \o Rows(c2, TRUE),
                  Rows(c3, TRUE) \o Rows({3}, FALSE), <<>>>>
        times(g, f) == [i \in 1..Cardinality({j \in DOMAIN refs[g] : refs[g][j].to = f}) |-> g]
    IN  [fns |-> 1..n, refs |-> Upto(refs, n),
         xrefs |-> [f \in 1..n |-> times(1, f) \o times(2, f) \o times(3, f) \o times(4, f)],
         data |-> Upto(<<c1, {2}, jumps, {1, 2}>>, n),
         strs |-> Upto(<<<<1, 2, 1, 3>>, <<>>, <<2>>, <<3, 3, 1>>>>, n),
         consts |-> Upto(<<<<0, 7, 9, 7>>, <<8, 7, 9>>, <<0>>, <<>>>>, n), boring |-> {0},
         size |-> <<"large", "small", "thunk", "small">>, lib |-> jumps, auto |-> c3,
         strefs |-> [a \in 1..4 |-> Cardinality(c1 \intersect {a}) + Cardinality(c2)],
         cats |-> <<c2, jumps>>, imports |-> <<1, 2, 3, 4, 1>>]

(* Bytes that stand for instructions: 0 has one byte, 1 and 3 have two, the *)
(* second of 1 a value; 2 is no code; one of the searches may fail.        *)
Image(raw, fails) ==
    [bytes |-> raw, size |-> [ea \in DOMAIN raw |-> <<1, 2, 0, 2>>[raw[ea] + 1]],
     ops |-> [ea \in DOMAIN raw |-> IF raw[ea] = 1 THEN {1} ELSE {}], fails |-> fails]

(* Patterns: nodes, each below an earlier one or at the top. *)
Nodes == {[op |-> "other", hi |-> 0], [op |-> "repeat", hi |-> 1], [op |-> "repeat", hi |-> 2],
          [op |-> "repeat", hi |-> MaxRepeat], [op |-> "atomic", hi |-> 0]}

Hosts == {[form |-> f, name |-> n] : f \in {"bare", "port", "absent", "blank", "unclosed"},
                                     n \in {"localhost", "::1", "evil"}}
Headers(h) == { [bound |-> b, host |-> h, origin |-> o, policy |-> p, verb |-> v, path |-> "/mcp"] :
                b \in {"127.0.0.1", "0.0.0.0"}, o \in {"none", "localhost", "evil"},
                p \in {LocalPolicy, {"*"}, {"evil"}, {}}, v \in {"POST", "GET"} }
Requested == { [envelope |-> e, method |-> m, id |-> i, does |-> d, result |-> "r"] :
               e \in {"ok", "wrong"}, m \in {"initialize", "tools/call"}, i \in {"absent", "null", "1"},
               d \in {"answers", "unknown", "rejects", "cancelled", "raises"} }
Annotations == {[shape |-> s, type |-> t, kinds |-> k] : s \in {"plain", "optional", "literal"},
                t \in {"int", "float", "bool", "str", "list"}, k \in {{"int"}, {"str"}, {"int", "str"}}}
Values == {Typed("str", t) : t \in DOMAIN Texts} \union {Typed("int", 3), Typed("bool", 1), Typed("list", 0)}
SessionOps == ({"reg", "has"} \X (1..3)) \union {<<"tick", 0>>}
Bodies(chunks) == { [chunked |-> c, chunks |-> chunks, length |-> n, encoding |-> e, inflated |-> i] :
                    c \in BOOLEAN, n \in {-1, 0, 3, 4}, e \in {"none", "gzip", "other"}, i \in {BadChunk, 2, 4} }

Inputs ==
    \/ part = "rows?" /\ ask \in RowKinds
    \/ part = "refs?" /\ ask \in XrefKinds
    \/ part = "graph?" /\ ask \in UpToSize(1..4, 2)
    \/ part = "image?" /\ ask \in 0..3
    \/ part = "pattern?" /\ ask \in Nodes
    \/ part = "headers?" /\ ask \in Hosts
    \/ part = "body?" /\ ask \in UpToLen({BadChunk, 0, 1, 2, 3}, 1)
    \/ part = "envelope?" /\ ask \in {"object", "other", "garbage", "empty", "quoted"}
    \/ part = "argument?" /\ ask \in Values
    \/ part = "result?" /\ ask \in {"dict", "text_of_dict", "list", "text", "no_json"}
    \/ part = "sessions?" /\ ask \in SessionOps
    \/ part = "sizes?" /\ ask \in 0..4
    \/ part = "offers?" /\ ask \in SUBSET {"a", "b", "_c"}

PickRows == part = "rows?" /\ part' = "rows"
            /\ \E s \in UpToLen(RowKinds, 2) :
                  LET all == <<ask>> \o s IN ask' = [i \in DOMAIN all |-> [ea |-> i] @@ all[i]]
PickRefs == part = "refs?" /\ part' = "refs" /\ \E s \in UpToLen(XrefKinds, 2) : ask' = <<ask>> \o s
PickGraph == part = "graph?" /\ part' = "graph"
             /\ \E n \in {3, 4}, c2 \in UpToSize({1, 3, 4}, 2), c3 \in UpToSize(1..4, 1), jumps \in {{}, {2, 4}} :
                   LET in(S) == S \intersect (1..n) IN ask' = Graph(n, in(ask), in(c2), in(c3), in(jumps))
PickImage == part = "image?" /\ part' = "image"
             /\ \E s \in UpToLen(0..3, 4), fails \in UpToSize({1} \X {0, 1} \X {1, 2}, 1) :
                   (fails # {} => Len(s) < 4) /\ ask' = Image(<<ask>> \o s, fails)

PickPattern == part = "pattern?" /\ part' = "pattern"
               /\ \E s \in UpToLen(Nodes, 3) : \E up \in [1..(Len(s) + 1) -> 0..Len(s)] :
                     LET all == <<ask>> \o s
                     IN  /\ \A i \in DOMAIN all : up[i] < i
                         /\ ask' = [i \in DOMAIN all |-> [up |-> up[i]] @@ all[i]]
PickHeaders == part = "headers?" /\ part' = "headers" /\ ask' \in Headers(ask)
PickBody == part = "body?" /\ part' = "body"
            /\ \E s \in UpToLen({BadChunk, 0, 1, 2, 3}, 2) : ask' \in Bodies(ask \o s)
PickEnvelope == part = "envelope?" /\ part' = "envelope" /\ \E q \in Requested : ask' = [text |-> ask, req |-> q]
PickArgument == part = "argument?" /\ part' = "argument"
                /\ \E a \in Annotations, d \in BOOLEAN : ask' = [value |-> ask, a |-> [default |-> d] @@ a]
PickResult == part = "result?" /\ part' = "result"
              /\ \E code \in {0, -32603}, error \in {"none", "null", "", "blank", "failed"}, size \in 0..3 :
                    ask' = [code |-> code, out |-> [kind |-> ask, error |-> error, size |-> size]]
PickSessions == part = "sessions?" /\ part' = "sessions" /\ \E s \in UpToLen(SessionOps, 4) : ask' = <<ask>> \o s
PickSizes == part = "sizes?" /\ part' = "sizes" /\ \E s \in UpToLen(0..4, 3) : ask' = <<ask>> \o s
PickOffers == part = "offers?" /\ part' = "offers"
              /\ \E args \in SUBSET {"a", "b", "_c"}, u \in {"none", "u"}, m \in {"none", "m"} :
                    ask' = [prompts |-> [n \in {"p"} |-> [args |-> args \union ask, required |-> ask \ Underscored]],
                            resources |-> {[uri |-> u, mime |-> m, json |-> TRUE]}]

Init ==
    /\ SessionInit
    /\ \/ Inputs /\ enum.is = "nothing"
       \/ part \in {"hooks", "bookmarks", "breakpoints", "enum", "patches"} /\ ask = 0

Pick == \/ PickRows \/ PickRefs \/ PickGraph \/ PickImage \/ PickPattern
        \/ PickHeaders \/ PickBody \/ PickEnvelope \/ PickArgument \/ PickResult
        \/ PickSessions \/ PickSizes \/ PickOffers
Edit == \/ part = "hooks" /\ HookNext
        \/ part = "bookmarks" /\ MarkNext
        \/ part = "breakpoints" /\ BptNext
        \/ part = "enum" /\ EnumNext
        \/ part = "patches" /\ PatchNext

Next == \/ Pick /\ UNCHANGED session
        \/ Edit /\ UNCHANGED <<part, ask>>
Spec == Init /\ [][Next]_vars

(* Lists, searches and cross-references give what they say they give. *)
ListsSound ==
    /\ part = "rows" => WalksAreComplete(ask) /\ SearchesAreHonest(ask)
    /\ part = "refs" => XrefsAreHonest(ask)
=============================================================================
