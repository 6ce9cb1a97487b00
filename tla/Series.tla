------------------------------- MODULE Series -------------------------------
(***************************************************************************)
(* Sums, selections and orders along a sequence, as loops of the code make *)
(* them.                                                                    *)
(***************************************************************************)
EXTENDS Integers, Sequences, FiniteSets

(* The sums of the first 0, 1, ... numbers of s. *)
Sums(s) == LET sum[i \in 0..Len(s)] == IF i = 0 THEN 0 ELSE sum[i - 1] + s[i] IN sum

(* The elements of s at the places in I, in order. *)
Picked(s, I) ==
    LET picked[i \in 0..Len(s)] ==
            IF i = 0 THEN <<>> ELSE IF i \in I THEN Append(picked[i - 1], s[i]) ELSE picked[i - 1]
    IN  picked[Len(s)]

(* Each element of s where it comes first. *)
FirstOnly(s) == Picked(s, {i \in DOMAIN s : \A j \in 1..(i - 1) : s[j] # s[i]})

(* The first n elements of s, or all. *)
Upto(s, n) == SubSeq(s, 1, IF n < Len(s) THEN n ELSE Len(s))

(* The elements of a finite set, each after those that are ahead of it. *)
InOrder(ahead) ==
    [i \in 1..Cardinality(DOMAIN ahead) |-> CHOOSE x \in DOMAIN ahead : Cardinality(ahead[x]) = i - 1]
Ascending(S) == InOrder([x \in S |-> {y \in S : y < x}])
=============================================================================
