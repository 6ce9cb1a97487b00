--------------------------- MODULE PatternChecks ----------------------------
(***************************************************************************)
(* What the signature maker and the regex guard promise of each image and   *)
(* each pattern.                                                            *)
(***************************************************************************)
EXTENDS SigTools, RegexGuard, Asking

(* Inputs of any size. *)
PatternAsked ==
    /\ part = "image" => IsImage(ask)
    /\ part = "pattern" => ask \in Patterns

(* A byte signature called unique leads to its address only, and no shorter *)
(* one does, as far as IDA's searches did not fail; regexes are refused for *)
(* nested repeats only, and for all.                                        *)
PatternsSound ==
    /\ part = "image" => SignaturesAreShortest(ask)
    /\ part = "pattern" => OnlyNestedRefused(ask)
=============================================================================
