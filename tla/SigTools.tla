------------------------------ MODULE SigTools ------------------------------
(***************************************************************************)
(* The signature maker (api_sigmaker.py).  An image has bytes, its          *)
(* addresses are 1..Len(img.bytes), and what IDA decodes at each: size is   *)
(* the size of the instruction, 0 where there is no code, ops the offsets   *)
(* of its bytes that are values of operands.  img.fails has the searches    *)
(* that fail, by an exception or because IDA's cancel flag is up in them:   *)
(* <<ea, k, n>> is the n-th one that step k makes for a pattern at ea.      *)
(***************************************************************************)
EXTENDS Series, FiniteSets, FiniteSetsExt, SequencesExt

CONSTANTS
    SigPoll,        \* steps between two looks at the cancel flag (8)
    MaxSites,       \* xref sites tried per address (50)
    MaxRange        \* bytes make_signature_for_range accepts (10000)

ASSUME SigAssumption == {SigPoll, MaxSites, MaxRange} \subseteq Nat \ {0}

Wild == -1          \* "??"
NoAddr == -2        \* BADADDR, or nothing found

Addresses(img) == DOMAIN img.bytes

InsnSize(img, ea) ==
    IF ea \in Addresses(img) /\ ea + img.size[ea] - 1 \in Addresses(img) THEN img.size[ea] ELSE 0

(* _insn_sig_bytes; the empty sequence stands for None.  The first byte is  *)
(* always kept.                                                             *)
InsnSig(img, ea, wildcards) ==
    [i \in 1..InsnSize(img, ea) |->
        IF wildcards /\ i > 1 /\ i - 1 \in img.ops[ea] THEN Wild ELSE img.bytes[ea + i - 1]]

(* ida_bytes.find_bytes *)
SigMatches(img, sig, ea) ==
    \A i \in DOMAIN sig : ea + i - 1 \in Addresses(img) /\ sig[i] \in {Wild, img.bytes[ea + i - 1]}

(* _find_nth: the n-th match at or after an address; a search that fails   *)
(* is answered as one that finds nothing.                                   *)
Failed(img, ea, k, n) == <<ea, k, n>> \in img.fails

FindNth(img, sig, from, n, fails) ==
    LET hits == {ea \in Addresses(img) : ea >= from /\ SigMatches(img, sig, ea)}
        nth == {ea \in hits : Cardinality({h \in hits : h <= ea}) = n}
    IN  IF fails \/ nth = {} THEN NoAddr ELSE Min(nth)

(* Mutant: the search starts at the address, not at the start of the image. *)
IsUniqueFromHere(img, sig, ea, k) ==
    /\ FindNth(img, sig, ea, 1, Failed(img, ea, k, 1)) = ea
    /\ FindNth(img, sig, ea + 1, 1, Failed(img, ea, k, 2)) = NoAddr

(* _is_unique, of step k *)
IsUnique(img, sig, ea, k) ==
    /\ FindNth(img, sig, 1, 1, Failed(img, ea, k, 1)) = ea
    /\ FindNth(img, sig, ea + 1, 1, Failed(img, ea, k, 2)) = NoAddr

(* What the walk over the instructions has after 0, 1, ... of them; where  *)
(* none is decoded it stays.                                                *)
Walk(img, start, wildcards) ==
    LET walk[k \in 0..(Len(img.bytes) + 1)] ==
            IF k = 0 THEN <<>>
            ELSE LET sig == walk[k - 1] IN sig \o InsnSig(img, start + Len(sig), wildcards)
    IN  walk

(* _make_unique: instruction after instruction until the pattern is unique, *)
(* long enough, cancelled or at its end.  `cut` is the step from which on   *)
(* the cancel flag is set, 0 for never.                                     *)
MakeUnique(img, start, max, wildcards, cut) ==
    LET walk == Walk(img, start, wildcards)
        full(k) == Len(walk[k - 1]) >= max
        cancelled(k) == ~ full(k) /\ cut # 0 /\ k >= cut /\ k % SigPoll = 0
        stops(k) == full(k) \/ cancelled(k) \/ walk[k] = walk[k - 1]
        last == Min({k \in 1..(Len(img.bytes) + 1) : stops(k) \/ IsUnique(img, walk[k], start, k)})
        sig == walk[last - 1]
    IN  IF ~ stops(last) THEN [sig |-> walk[last], unique |-> TRUE, note |-> "none"]
        ELSE [sig |-> sig,
              unique |-> ~ cancelled(last) /\ sig # <<>> /\ IsUnique(img, sig, start, last),
              note |-> IF cancelled(last) THEN "cancelled" ELSE "none within the limit"]

(***************************************************************************)
(* The tools.  A request names addresses; an unknown name is NoAddr.        *)
(***************************************************************************)
SigFailed(why) == [error |-> why]

(* _render, and what a hop adds to it: a signature always comes with the   *)
(* pattern, a mask that is true where the byte is kept, and the note as a   *)
(* warning; none at all is an error.                                        *)
Rendered(r, at) ==
    IF r.sig = <<>> THEN SigFailed(r.note)
    ELSE [addr |-> at, signature |-> r.sig, length |-> Len(r.sig), unique |-> r.unique,
          mask |-> [i \in DOMAIN r.sig |-> r.sig[i] # Wild],
          warning |-> IF r.unique THEN "none" ELSE r.note]

(* _fetch_one_signature *)
OneSignature(img, ea, max, wildcards, cut) ==
    IF ea = NoAddr THEN SigFailed("Unknown address or name")
    ELSE Rendered(MakeUnique(img, ea, max, wildcards, cut), ea)

(* _fetch_function_signature: the start of the function around the address. *)
FunctionSignature(img, starts, ea, max, wildcards, cut) ==
    LET before == {s \in starts : s <= ea}
    IN  IF ea = NoAddr THEN SigFailed("Unknown address or name")
        ELSE IF before = {} THEN SigFailed("No function")
        ELSE Rendered(MakeUnique(img, Max(before), max, wildcards, cut), Max(before))

(* One hop per query; a query past the budget of time gets an error. *)
Hops(hops, budget) ==
    [i \in DOMAIN hops |-> IF i > budget THEN SigFailed("Tool budget exceeded") ELSE hops[i]]

SigLimit(max) == IF max < 1 THEN 1 ELSE max

MakeSignature(img, queries, max, wildcards, cut, budget) ==
    Hops([i \in DOMAIN queries |-> OneSignature(img, queries[i], SigLimit(max), wildcards, cut)], budget)

MakeSignatureForFunction(img, starts, queries, max, wildcards, cut, budget) ==
    Hops([i \in DOMAIN queries |->
             FunctionSignature(img, starts, queries[i], SigLimit(max), wildcards, cut)], budget)

(* make_signature_for_range: bytes that are no code are kept as they are,  *)
(* the last instruction is cut at the end of the range.  What is encoded    *)
(* after so many steps:                                                     *)
Encoded(img, start, end, wildcards) ==
    LET encoded[k \in 0..(end - start)] ==
            IF k = 0 THEN <<>>
            ELSE LET sig == encoded[k - 1]
                     ea == start + Len(sig)
                     part == InsnSig(img, ea, wildcards)
                 IN  CASE ea >= end -> sig
                       [] ea < end /\ part = <<>> -> Append(sig, IF ea \in Addresses(img) THEN img.bytes[ea] ELSE 0)
                       [] OTHER -> sig \o SubSeq(part, 1, Min({Len(part), end - ea}))
    IN  encoded

MakeSignatureForRange(img, start, end, wildcards) ==
    IF NoAddr \in {start, end} THEN SigFailed("Unknown address or name")
    ELSE IF end <= start \/ end - start > MaxRange THEN SigFailed("Invalid range")
    ELSE LET sig == Encoded(img, start, end, wildcards)[end - start]
         IN  Rendered([sig |-> sig, unique |-> IsUnique(img, sig, start, 0), note |-> "none"], start)

(* _fetch_xref_signatures: unique signatures of the sites that refer to an *)
(* address, the shortest first, in the order of the sites among equals.     *)
ByLength(img, found) ==
    LET sorted[n \in 0..Len(img.bytes)] ==
            IF n = 0 THEN <<>> ELSE sorted[n - 1] \o Picked(found, {i \in DOMAIN found : found[i].length = n})
    IN  sorted[Len(img.bytes)]
XrefSignatures(img, sites, top, max, cut) ==
    LET tried == SubSeq(sites, 1, Min({Len(sites), MaxSites}))
        all == [i \in DOMAIN tried |-> OneSignature(img, tried[i], max, TRUE, cut)]
        found == Picked(all, {i \in DOMAIN all : "signature" \in DOMAIN all[i] /\ all[i].unique})
        sorted == ByLength(img, found)
    IN  [signatures |-> SubSeq(sorted, 1, Min({Len(sorted), top})), total |-> Len(tried)]

FindXrefSignatures(img, sitesOf, queries, top, max, cut, budget) ==
    Hops([i \in DOMAIN queries |->
             IF queries[i] = NoAddr THEN SigFailed("Unknown address or name")
             ELSE XrefSignatures(img, sitesOf[queries[i]], Max({1, top}), SigLimit(max), cut)], budget)

(***************************************************************************)
(* What a signature promises.                                               *)
(***************************************************************************)

MatchesOnce(img, sig) == Cardinality({ea \in Addresses(img) : SigMatches(img, sig, ea)}) = 1

(* A pattern that step k calls unique matches nowhere before its address,  *)
(* nor after it unless the search there failed; one that matches once is    *)
(* called unique unless the first search failed.                            *)
UniquenessIsTold(img, sig, ea, unique, k) ==
    /\ unique => /\ \A x \in Addresses(img) : SigMatches(img, sig, x) => ea <= x
                 /\ MatchesOnce(img, sig) \/ Failed(img, ea, k, 2)
    /\ MatchesOnce(img, sig) => unique \/ Failed(img, ea, k, 1)

(* A signature matches its address; so is told whether it is unique, and    *)
(* one called unique is the shortest run of whole instructions that is; for *)
(* one that is not called unique no run is that begins its last instruction *)
(* within the limit, unless it was cancelled.  A run whose first search     *)
(* failed is passed over.                                                   *)
SignatureIsShortest(img, r, start, max, wildcards) ==
    LET walk == Walk(img, start, wildcards)
        runs == {k \in DOMAIN walk \ {0} :
                    walk[k] # walk[k - 1] /\ MatchesOnce(img, walk[k]) /\ ~ Failed(img, start, k, 1)}
    IN  /\ SigMatches(img, r.signature, start)
        /\ r.unique => /\ \E k \in DOMAIN walk \ {0} : /\ r.signature \in {walk[k - 1], walk[k]}
                                                      /\ UniquenessIsTold(img, r.signature, start, TRUE, k)
                       /\ \A k \in runs : Len(walk[k]) >= r.length
        /\ ~ r.unique /\ r.warning # "cancelled" => \A k \in runs : Len(walk[k - 1]) >= max

(* What every reply of the tools keeps: signatures for single addresses,   *)
(* functions and sites are the shortest, a range has one byte per address   *)
(* and keeps what is no operand, the sites come shortest first.             *)
SignaturesAreShortest(img) ==
    \A max \in 1..3, wildcards \in BOOLEAN, cut \in {0, 2} :
        LET all == [i \in Addresses(img) |-> i]
            one == MakeSignature(img, all, max, wildcards, cut, Len(all))
            fun == MakeSignatureForFunction(img, {1, 3}, all, max, wildcards, cut, Len(all) - 1)
            sites == FindXrefSignatures(img, [a \in {1} |-> all], <<1>>, 2, max, cut, 1)[1].signatures
            Good(r) == "signature" \in DOMAIN r => SignatureIsShortest(img, r, r.addr, max, wildcards)
        IN  /\ \A i \in Addresses(img) : Good(one[i]) /\ Good(fun[i])
            /\ \A i \in Addresses(img) : "signature" \in DOMAIN fun[i] =>
                  fun[i] = one[IF i >= 3 THEN 3 ELSE 1]
            /\ \A i \in DOMAIN sites : /\ sites[i].unique
                                      /\ SignatureIsShortest(img, sites[i], sites[i].addr, max, TRUE)
                                      /\ i > 1 => sites[i - 1].length <= sites[i].length
            /\ \A end \in Addresses(img) :
                  LET r == MakeSignatureForRange(img, 1, end, wildcards)
                  IN  "signature" \in DOMAIN r =>
                        /\ r.length = end - 1 /\ SigMatches(img, r.signature, 1)
                        /\ UniquenessIsTold(img, r.signature, 1, r.unique, 0)

IsImage(img) ==
    /\ img.bytes \in Seq(Nat)
    /\ img.size \in [Addresses(img) -> Nat] /\ img.ops \in [Addresses(img) -> SUBSET Nat]
=============================================================================
