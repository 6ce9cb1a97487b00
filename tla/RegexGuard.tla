----------------------------- MODULE RegexGuard -----------------------------
(***************************************************************************)
(* regex_guard.py: which patterns of clients are compiled.  A parsed        *)
(* pattern is a sequence of nodes [op, hi, up] in the order in which _check *)
(* visits them: op is "repeat" (hi is its upper bound), "atomic" (an atomic *)
(* group or a possessive repeat) or "other" (a character, a group, a        *)
(* branch); up is the node whose sub-pattern it is in, 0 at the top.        *)
(***************************************************************************)
EXTENDS Integers, Sequences

CONSTANT MaxPatternLen      \* MAX_PATTERN_LEN

MaxRepeat == 9              \* sre's bound of "*" and "+"
Repeats(node) == node.op = "repeat" /\ node.hi > 1

(* The argument of _check for the sub-pattern of a node, by its own: "none" *)
(* outside any repeat, else whether one of the enclosing repeats is         *)
(* unbounded.  A repeat of at most one, a group or a branch leaves it, an   *)
(* atomic group takes it back.                                              *)
Below(node, enclosing) ==
    CASE Repeats(node) -> IF enclosing = "unbounded" \/ node.hi = MaxRepeat THEN "unbounded" ELSE "bounded"
      [] node.op = "atomic" -> "none"
      [] OTHER -> enclosing

Passed(sub) ==
    LET passed[i \in 0..Len(sub)] == IF i = 0 THEN "none" ELSE Below(sub[i], passed[sub[i].up])
    IN  passed

(* _check: it comes to the end if no node raises. *)
Check(sub) ==
    \A i \in DOMAIN sub :
        LET enclosing == Passed(sub)[sub[i].up]
        IN  Repeats(sub[i]) => enclosing = "none" \/ ~ (enclosing = "unbounded" \/ sub[i].hi = MaxRepeat)

(* compile_client_regex *)
Compiles(len, sub) == len <= MaxPatternLen /\ Check(sub)

(* Reference: each node with those it is in. *)
Lines(sub) ==
    LET line[i \in 0..Len(sub)] == IF i = 0 THEN {} ELSE {i} \union line[sub[i].up]
    IN  line

(* A pattern is refused exactly when one repeat lies below another, at any *)
(* depth, one of the two is unbounded and nothing between them is atomic.   *)
OnlyNestedRefused(sub) ==
    Check(sub) <=>
        ~ \E j \in DOMAIN sub : \E i \in Lines(sub)[sub[j].up] :
            /\ Repeats(sub[i]) /\ Repeats(sub[j]) /\ MaxRepeat \in {sub[i].hi, sub[j].hi}
            /\ \A k \in Lines(sub)[sub[j].up] : k > i => sub[k].op # "atomic"

(* What a parser gives: a node comes after those it is in. *)
Patterns == {sub \in Seq([op : {"repeat", "atomic", "other"}, hi : 0..MaxRepeat, up : Nat]) :
                \A i \in DOMAIN sub : sub[i].up < i}
=============================================================================
