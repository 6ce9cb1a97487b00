---------------------------- MODULE ProfileCache ----------------------------
(***************************************************************************)
(* profiles.py under the request threads of the HTTP server: the table of  *)
(* profiles is read from disk by the first request that names a profile    *)
(* and cached.  No lock guards it; each step below is one that the threads *)
(* can interleave with.  An answer is what ?profile= does to the request:  *)
(* its tools are filtered, or (get_profile gave None) they are not.        *)
(***************************************************************************)
EXTENDS FiniteSets

CONSTANTS
    Threads,    \* request threads
    Names,      \* what clients write in ?profile=
    Shipped,    \* those with a non-empty file in ida_mcp/profiles
    Reloads,    \* reload_profiles is called as well (by an IDA console)
    None

ASSUME ProfileCacheAssumption == Shipped \subseteq Names /\ None \notin Names /\ Reloads \in BOOLEAN

VARIABLES
    cache,      \* keys of _cache
    complete,   \* _cache_complete
    at,         \* where each thread is
    want,       \* the profile its request names
    loaded,     \* its request read the disk itself
    answer      \* "filtered" or "open" once get_profile returned

vars == <<cache, complete, at, want, loaded, answer>>

Init ==
    /\ cache = {} /\ complete = FALSE
    /\ at = [w \in Threads |-> "idle"]
    /\ want = [w \in Threads |-> None]
    /\ loaded = [w \in Threads |-> FALSE]
    /\ answer = [w \in Threads |-> None]

Step(w, from, to) == at[w] = from /\ at' = [at EXCEPT ![w] = to]

Answer(w, known) ==
    answer' = [answer EXCEPT ![w] = IF want[w] \in known THEN "filtered" ELSE "open"]

(* list_profiles looks at _cache_complete. *)
Ask(w) ==
    /\ Step(w, "idle", IF complete THEN "copy" ELSE "clear")
    /\ \E n \in Names : want' = [want EXCEPT ![w] = n]
    /\ loaded' = [loaded EXCEPT ![w] = ~complete]
    /\ answer' = [answer EXCEPT ![w] = None]
    /\ UNCHANGED <<cache, complete>>

(* reload_profiles goes to the disk whatever the cache holds. *)
Reload(w) ==
    /\ Reloads
    /\ Step(w, "idle", "clear")
    /\ want' = [want EXCEPT ![w] = None]
    /\ loaded' = [loaded EXCEPT ![w] = TRUE]
    /\ answer' = [answer EXCEPT ![w] = None]
    /\ UNCHANGED <<cache, complete>>

Clear(w) ==
    /\ Step(w, "clear", "fill")
    /\ cache' = {}
    /\ UNCHANGED <<complete, want, loaded, answer>>

(* Mutant: a table another thread has completed meanwhile is not filled.   *)
FillUnlessComplete(w) ==
    /\ Step(w, "fill", "mark")
    /\ cache' = IF complete THEN cache ELSE cache \union Shipped
    /\ UNCHANGED <<complete, want, loaded, answer>>

Fill(w) ==
    /\ Step(w, "fill", "mark")
    /\ cache' = cache \union Shipped
    /\ UNCHANGED <<complete, want, loaded, answer>>

(* Mutant: a request that loaded answers from the shared table. *)
MarkAnswerFromCache(w) ==
    /\ Step(w, "mark", "idle")
    /\ complete' = TRUE
    /\ Answer(w, cache)
    /\ UNCHANGED <<cache, want, loaded>>

(* _load_all returns the table it read, not the shared one. *)
Mark(w) ==
    /\ Step(w, "mark", "idle")
    /\ complete' = TRUE
    /\ Answer(w, Shipped)
    /\ UNCHANGED <<cache, want, loaded>>

(* Mutant: the copy empties the table (an update in place). *)
CopyTakes(w) ==
    /\ Step(w, "copy", "idle")
    /\ Answer(w, cache)
    /\ cache' = cache \ {want[w]}
    /\ UNCHANGED <<complete, want, loaded>>

Copy(w) ==
    /\ Step(w, "copy", "idle")
    /\ Answer(w, cache)
    /\ UNCHANGED <<cache, complete, want, loaded>>

Next == \E w \in Threads :
    Ask(w) \/ Reload(w) \/ Clear(w) \/ Fill(w) \/ Mark(w) \/ Copy(w)

Spec == Init /\ [][Next]_vars

(***************************************************************************)
(* Properties.                                                             *)
(***************************************************************************)
(* The table is whole or empty: no thread sees a part of it. *)
TypeOK ==
    /\ cache \in {{}, Shipped} /\ complete \in BOOLEAN
    /\ at \in [Threads -> {"idle", "clear", "fill", "mark", "copy"}]
    /\ want \in [Threads -> Names \union {None}]
    /\ loaded \in [Threads -> BOOLEAN]
    /\ answer \in [Threads -> {"filtered", "open", None}]

(* A request that read the disk itself gets the profile it names, whatever *)
(* other threads do to the shared table meanwhile (_load_all).             *)
LoaderIsRight ==
    \A w \in Threads :
        loaded[w] /\ answer[w] # None /\ want[w] \in Shipped => answer[w] = "filtered"

(* However loads overlap, the table is whole again once the last of them   *)
(* has filled it: races do not leave a wrong cache behind.                 *)
TableHeals ==
    complete /\ (\A w \in Threads : at[w] # "fill") => cache = Shipped
=============================================================================
