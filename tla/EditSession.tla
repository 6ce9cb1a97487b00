---------------------------- MODULE EditSession ----------------------------
(***************************************************************************)
(* The tools that change the database, as one client uses them one after   *)
(* another: event hooks (api_hooks.py), bookmarks (api_comments.py),       *)
(* breakpoints (api_debug.py), enums (api_typeinfo.py) and patches         *)
(* (api_modify.py).  IDA may refuse or fail each call it gets; the ghosts  *)
(* `told` and `batch` hold what the replies said.                          *)
(***************************************************************************)
EXTENDS Integers, Sequences, FiniteSets, FiniteSetsExt, SequencesExt

CONSTANTS
    MaxInstalls,    \* bound: hooks installed in a run
    MaxEvents,      \* bound: events seen by one hook
    EventsKept,     \* _EVENTS_PER_HOOK
    Slots,          \* bookmark slots (256)
    Known,          \* addresses parse_addr finds
    Conditions,     \* conditions of breakpoints, "none" for no condition
    Languages,      \* languages of conditions, "none" for no language
    PatchCap,       \* patches listed at most (1000)
    PatchWindow,    \* bytes looked at per segment (100000)
    Segments        \* IDA's segments, from `start` to before `end`, in order

ASSUME EditSessionAssumption ==
    /\ {MaxInstalls, MaxEvents, EventsKept, Slots, PatchCap, PatchWindow} \subseteq Nat
    /\ PatchCap > 0
    /\ Known \subseteq Nat
    /\ "none" \in Conditions /\ {"none", "IDC"} \subseteq Languages
    /\ Segments \in Seq([start : Nat, end : Nat])
    /\ \A i, j \in 1..Len(Segments) : i < j => Segments[i].end <= Segments[j].start

VARIABLES
    hooks,      \* _HOOKS: id -> [type, events, count]
    hookSeq,    \* _HOOK_SEQ
    tracing,    \* ids of the tracers IDA calls
    stuck,      \* ids of the tracers whose unhook() failed
    seen,       \* events of each id since it was installed
    marks,      \* IDA's bookmark of each slot, 0 if none
    bpts,       \* IDA's breakpoints: address -> [on, cond, lang]
    batch,      \* the last breakpoint call: its items, replies, and what was there
    enum,       \* an enum type: what its name denotes, name -> value
    bytes,      \* the bytes of the database, now
    told        \* what the replies promised: slots, bytes, members, and the
                \* members that are `lost` by a failed read

hookVars == <<hooks, hookSeq, tracing, stuck, seen>>
bptVars == <<bpts, batch>>
session == <<hookVars, marks, bptVars, enum, bytes, told>>

Empty == [x \in {} |-> 0]
Set(f, x, v) == [y \in DOMAIN f \union {x} |-> IF y = x THEN v ELSE f[y]]
Drop(f, S) == [y \in DOMAIN f \ S |-> f[y]]
Mapped == UNION {s.start..(s.end - 1) : s \in ToSet(Segments)}
Original(ea) == 0

NoBatch == [tool |-> "none", items |-> <<>>, replies |-> <<>>]

SessionInit ==
    /\ hooks = Empty /\ hookSeq = 0 /\ tracing = {} /\ stuck = {} /\ seen = Empty
    /\ marks = [s \in 0..(Slots - 1) |-> 0]
    /\ bpts = Empty /\ batch = NoBatch
    /\ enum \in {[is |-> is, members |-> Empty] : is \in {"nothing", "other"}}
                   \union {[is |-> "enum", members |-> Set(Empty, "A", 0)]}
    /\ bytes = [a \in Mapped |-> Original(a)]
    /\ told = [slots |-> {}, members |-> enum.members, lost |-> {}, bytes |-> Empty]

(***************************************************************************)
(* Hooks.                                                                  *)
(***************************************************************************)
HookTypes == {"idb", "hexrays"}
OfType(type) == {id \in DOMAIN hooks : hooks[id].type = type}

(* unhook() of the tracers taken out of the table; those in `failing` raise *)
(* or do nothing, which is swallowed.                                      *)
Unhook(ids, failing) ==
    /\ tracing' = tracing \ (ids \ failing)
    /\ stuck' = stuck \union (ids \intersect failing)

(* Mutant: the old hooks of the type are removed when the new one is there. *)
InstallThenReplace(type, luck, failing) ==
    LET id == hookSeq + 1  old == OfType(type) \union {id} IN
    /\ hookSeq < MaxInstalls /\ hookSeq' = id
    /\ IF luck # "hooked"
       THEN UNCHANGED <<hooks, tracing, stuck, seen>>
       ELSE /\ hooks' = Drop(hooks, old)
            /\ tracing' = (tracing \ (old \ failing)) \union {id}
            /\ stuck' = stuck \union (old \intersect failing)
            /\ seen' = Set(seen, id, 0)
    /\ UNCHANGED <<marks, bptVars, enum, bytes, told>>

(* _install: the id is taken first; the old hooks of the type go even when  *)
(* the new one then does not hook.                                         *)
Install(type, luck, failing) ==
    LET id == hookSeq + 1  old == OfType(type) IN
    /\ hookSeq < MaxInstalls /\ hookSeq' = id
    /\ IF luck = "untraced"
       THEN UNCHANGED <<hooks, tracing, stuck, seen>>
       ELSE /\ hooks' = IF luck = "hooked"
                        THEN Set(Drop(hooks, old), id, [type |-> type, events |-> <<>>, count |-> 0])
                        ELSE Drop(hooks, old)
            /\ tracing' = (tracing \ (old \ failing)) \union (IF luck = "hooked" THEN {id} ELSE {})
            /\ stuck' = stuck \union (old \intersect failing)
            /\ seen' = IF luck = "hooked" THEN Set(seen, id, 0) ELSE seen
    /\ UNCHANGED <<marks, bptVars, enum, bytes, told>>

(* _log: an event of a tracer that is not in the table is dropped. *)
Event(id) ==
    /\ id \in tracing /\ seen[id] < MaxEvents
    /\ seen' = [seen EXCEPT ![id] = @ + 1]
    /\ hooks' = IF id \notin DOMAIN hooks THEN hooks
                ELSE LET e == hooks[id]  all == Append(e.events, seen'[id]) IN
                     [hooks EXCEPT ![id] = [type |-> e.type, count |-> e.count + 1,
                         events |-> IF Len(all) > EventsKept THEN Tail(all) ELSE all]]
    /\ UNCHANGED <<hookSeq, tracing, stuck, marks, bptVars, enum, bytes, told>>

(* remove_hooks(id) or all of them: out of the table, then unhooked. *)
RemoveHooks(targets, failing) ==
    /\ hooks' = Drop(hooks, targets)
    /\ Unhook(targets \intersect DOMAIN hooks, failing)
    /\ UNCHANGED <<hookSeq, seen, marks, bptVars, enum, bytes, told>>

HookNext ==
    \/ \E type \in HookTypes, luck \in {"untraced", "unhooked", "hooked"},
          failing \in {{}, DOMAIN hooks} : Install(type, luck, failing)
    \/ \E id \in DOMAIN seen : Event(id)
    \/ \E targets \in {{id} : id \in 1..MaxInstalls} \union {DOMAIN hooks},
          failing \in {{}, DOMAIN hooks} : RemoveHooks(targets, failing)

(***************************************************************************)
(* Bookmarks.                                                              *)
(***************************************************************************)
Taken(ea) == ea # 0                 \* a bookmark at 0 looks like a free slot
FreeSlots == {s \in DOMAIN marks : ~ Taken(marks[s])}
Bookmarks == [s \in {t \in DOMAIN marks : Taken(marks[t])} |-> marks[s]]     \* get_bookmarks

(* Mutant: the next slot is the number of bookmarks. *)
AddBookmarkAtCount(ea) ==
    LET slot == Cardinality(DOMAIN Bookmarks) IN
    /\ IF FreeSlots = {} THEN UNCHANGED <<marks, told>>
       ELSE marks' = [marks EXCEPT ![slot] = ea] /\ told' = [told EXCEPT !.slots = @ \union {<<slot, ea>>}]
    /\ UNCHANGED <<hookVars, bptVars, enum, bytes>>

AddBookmark(ea) ==
    LET slot == Min(FreeSlots) IN
    /\ IF FreeSlots = {} THEN UNCHANGED <<marks, told>>
       ELSE marks' = [marks EXCEPT ![slot] = ea] /\ told' = [told EXCEPT !.slots = @ \union {<<slot, ea>>}]
    /\ UNCHANGED <<hookVars, bptVars, enum, bytes>>

(* A number that is a slot is a slot, even if it is meant as an address;   *)
(* an empty slot is deleted all the same.                                  *)
DeleteBookmark(target) ==
    LET at == {s \in DOMAIN marks : marks[s] = target}
        slot == IF target \in DOMAIN marks THEN target ELSE Min(at)
    IN
    /\ IF target \notin DOMAIN marks /\ at = {} THEN UNCHANGED <<marks, told>>
       ELSE marks' = [marks EXCEPT ![slot] = 0] /\ told' = [told EXCEPT !.slots = {b \in @ : b[1] # slot}]
    /\ UNCHANGED <<hookVars, bptVars, enum, bytes>>

MarkNext == \E ea \in {0, 1, 8, 9} : AddBookmark(ea) \/ DeleteBookmark(ea)

(***************************************************************************)
(* Breakpoints, in batches: an item gives a reply and leaves breakpoints.   *)
(* IDA does an item ("ok"), or fails at the step its luck names.            *)
(***************************************************************************)
Bpts == UNION {[D -> [on : BOOLEAN, cond : Conditions, lang : Languages]] : D \in SUBSET Known}
Luck == {"ok", "fails", "clear", "reload_clear", "language", "set", "reload_set", "compile"}
Wanted == [addr : Nat, luck : Luck, on : BOOLEAN, cond : Conditions, lang : Languages]   \* an item
Done(b, r) == [bpts |-> b, reply |-> r]

(* dbg_add_bp: one that is there already is as good. *)
Added(b, item) ==
    CASE item.addr \notin Known -> Done(b, "unknown")
      [] item.addr \in DOMAIN b -> Done(b, "ok")
      [] OTHER -> IF item.luck = "ok" THEN Done(Set(b, item.addr, [on |-> TRUE, cond |-> "none", lang |-> "IDC"]), "ok")
                  ELSE Done(b, "failed")

Deleted(b, item) ==
    CASE item.addr \notin Known -> Done(b, "unknown")
      [] OTHER -> IF item.addr \in DOMAIN b /\ item.luck = "ok" THEN Done(Drop(b, {item.addr}), "ok")
                  ELSE Done(b, "failed")

Toggled(b, item) ==
    CASE item.addr \notin Known -> Done(b, "unknown")
      [] OTHER -> IF item.addr \in DOMAIN b /\ item.luck = "ok"
                  THEN Done([b EXCEPT ![item.addr].on = item.on], "ok") ELSE Done(b, "failed")

(* Mutant: the new language is applied after the new condition. *)
ConditionedLate(b, item) ==
    LET a == item.addr  withCond == [b EXCEPT ![a].cond = item.cond] IN
    CASE a \notin Known -> Done(b, "unknown")
      [] a \in Known \ DOMAIN b -> Done(b, "not_found")
      [] OTHER -> CASE item.luck = "set" -> Done(b, "not_set")
                    [] item.luck = "language" -> Done(withCond, "no_language")
                    [] OTHER -> Done([withCond EXCEPT ![a].lang = item.lang], "ok")

(* dbg_set_bp_condition: a change of language first clears an old condition *)
(* that is to be replaced; it is gone if a later step fails.  A breakpoint  *)
(* that cannot be read back is an error, whatever was done to it.          *)
Conditioned(b, item) ==
    LET a == item.addr
        changes == item.lang \notin {"none", b[a].lang}
        clears == changes /\ b[a].cond # "none" /\ item.cond # "none"
        cleared == IF clears THEN [b EXCEPT ![a].cond = "none"] ELSE b
        spoken == IF changes THEN [cleared EXCEPT ![a].lang = item.lang] ELSE cleared
        stored == [spoken EXCEPT ![a].cond = item.cond]
    IN  CASE a \notin Known -> Done(b, "unknown")
          [] a \in Known \ DOMAIN b -> Done(b, "not_found")
          [] OTHER ->
               CASE item.luck = "fails" -> Done(b, "not_found")
                 [] item.luck = "clear" /\ clears -> Done(b, "not_cleared")
                 [] item.luck = "reload_clear" /\ clears -> Done(cleared, "not_reloaded")
                 [] item.luck = "language" /\ changes -> Done(cleared, "no_language")
                 [] item.luck = "set" -> Done(spoken, "not_set")
                 [] item.luck = "reload_set" -> Done(stored, "set_not_reloaded")
                 [] item.luck = "compile" /\ item.cond # "none" -> Done(stored, "not_compiled")
                 [] OTHER -> Done(stored, "ok")

(* One call: the items in order, whatever became of those before. *)
Handled(tool, b, item) ==
    CASE tool = "add" -> Added(b, item)
      [] tool = "delete" -> Deleted(b, item)
      [] tool = "toggle" -> Toggled(b, item)
      [] OTHER -> Conditioned(b, item)

Left(tool, items) ==                \* the breakpoints after so many items
    LET left[i \in 0..Len(items)] == IF i = 0 THEN bpts ELSE Handled(tool, left[i - 1], items[i]).bpts
    IN  left

Batch(tool, items) ==
    LET left == Left(tool, items) IN
    /\ bpts' = left[Len(items)]
    /\ batch' = [tool |-> tool, items |-> items, before |-> bpts,
                 replies |-> [i \in 1..Len(items) |-> Handled(tool, left[i - 1], items[i]).reply]]
    /\ UNCHANGED <<hookVars, marks, enum, bytes, told>>

(* A client calls again when it has read the replies. *)
Read ==
    /\ batch.tool # "none"
    /\ batch' = NoBatch
    /\ UNCHANGED <<hookVars, marks, bpts, enum, bytes, told>>

(* The items of a batch: any item, alone or before one of a few. *)
Wants == { [addr |-> a, luck |-> l, on |-> o, cond |-> "none", lang |-> "none"] :
           a \in 1..3, l \in {"ok", "fails"}, o \in BOOLEAN }
CondWants == { [addr |-> a, luck |-> l, on |-> TRUE, cond |-> c, lang |-> g] :
               a \in 1..3, l \in Luck \ {"fails"}, c \in Conditions, g \in Languages }
Batches(S, T) == {<<s>> : s \in S} \union {<<s, t>> : s \in S, t \in T}

BptNext ==
    \/ batch.tool = "none" /\
       \/ \E items \in Batches(Wants, {w \in Wants : w.on /\ w.addr = 1}) :
             \E tool \in {"add", "delete", "toggle"} : Batch(tool, items)
       \/ \E items \in Batches(CondWants, {w \in CondWants : w.addr = 1 /\ w.lang = "Python" /\ w.luck \in {"ok", "set"}}) :
             Batch("condition", items)
    \/ Read

(***************************************************************************)
(* enum_upsert.  IDA may fail to give the old members, all or those it has  *)
(* not come to: the `missed` ones are gone, without a word.                *)
(***************************************************************************)
Over(f, g) == [x \in DOMAIN f \union DOMAIN g |-> IF x \in DOMAIN g THEN g[x] ELSE f[x]]

(* Mutant: the members that are there win over the supplied ones. *)
EnumUpsertKeepsOld(updates, missed, stored) ==
    /\ IF enum.is = "other" \/ ~ stored THEN UNCHANGED <<enum, told>>
       ELSE /\ enum' = [is |-> "enum", members |-> Over(updates, Drop(enum.members, missed))]
            /\ told' = [told EXCEPT !.members = Over(@, updates), !.lost = (@ \union missed) \ DOMAIN updates]
    /\ UNCHANGED <<hookVars, marks, bptVars, bytes>>

EnumUpsert(updates, missed, stored) ==
    /\ IF enum.is = "other" \/ ~ stored THEN UNCHANGED <<enum, told>>
       ELSE /\ enum' = [is |-> "enum", members |-> Over(Drop(enum.members, missed), updates)]
            /\ told' = [told EXCEPT !.members = Over(@, updates), !.lost = (@ \union missed) \ DOMAIN updates]
    /\ UNCHANGED <<hookVars, marks, bptVars, bytes>>

EnumNext ==
    \E names \in SUBSET {"A", "B"}, missed \in SUBSET DOMAIN enum.members, stored \in BOOLEAN :
        \E updates \in [names -> {1, 2}] : EnumUpsert(updates, missed, stored)

(***************************************************************************)
(* Patches.                                                                *)
(***************************************************************************)

(* Mutant: every byte goes to the first address. *)
PatchBytesAtStart(ea, raw) ==
    LET span == ea..(ea + Len(raw) - 1) IN
    /\ bytes' = IF raw = <<>> \/ ea \notin Mapped THEN bytes ELSE [bytes EXCEPT ![ea] = Last(raw)]
    /\ told' = [told EXCEPT !.bytes = [a \in DOMAIN @ \union span |->
                                          IF a \in span THEN raw[a - ea + 1] ELSE @[a]]]
    /\ UNCHANGED <<hookVars, marks, bptVars, enum>>

(* patch_bytes and patch_asm: a byte outside every segment is not written,  *)
(* and the reply is ok all the same.                                       *)
PatchBytes(ea, raw) ==
    LET span == ea..(ea + Len(raw) - 1) IN
    /\ bytes' = [a \in Mapped |-> IF a \in span THEN raw[a - ea + 1] ELSE bytes[a]]
    /\ told' = [told EXCEPT !.bytes = [a \in DOMAIN @ \union span |->
                                          IF a \in span THEN raw[a - ea + 1] ELSE @[a]]]
    /\ UNCHANGED <<hookVars, marks, bptVars, enum>>

(* revert_patch: one byte, refused outside the segments. *)
RevertPatch(ea) ==
    /\ ea \in Mapped
    /\ bytes' = [bytes EXCEPT ![ea] = Original(ea)]
    /\ told' = [told EXCEPT !.bytes = Drop(@, {ea})]
    /\ UNCHANGED <<hookVars, marks, bptVars, enum>>

(* list_patches: the first bytes of each segment, until it has PatchCap. *)
Window(s) == [k \in 1..Min({PatchWindow, Max({0, s.end - s.start})}) |-> s.start + k - 1]
Looked ==
    LET upTo[i \in 0..Len(Segments)] == IF i = 0 THEN <<>> ELSE upTo[i - 1] \o Window(Segments[i])
    IN  upTo[Len(Segments)]
ListPatches ==
    LET listed[n \in 0..Len(Looked)] ==
            IF n = 0 THEN <<>>
            ELSE IF bytes[Looked[n]] = Original(Looked[n]) \/ Len(listed[n - 1]) >= PatchCap
                 THEN listed[n - 1] ELSE Append(listed[n - 1], Looked[n])
    IN  listed[Len(Looked)]

PatchNext ==
    \/ \E ea \in 1..6, n \in 1..2 : \E raw \in [1..n -> {0, 1}] : PatchBytes(ea, raw)
    \/ \E ea \in 1..6 : RevertPatch(ea)

(***************************************************************************)
(* Properties.                                                             *)
(***************************************************************************)

(* At most one hook of a type, every listed hook is one IDA calls and has   *)
(* counted all its events and kept the last ones; a tracer that is not in   *)
(* the table any more runs on only if IDA would not let go of it.          *)
HooksAreThose ==
    /\ \A type \in HookTypes : Cardinality(OfType(type)) <= 1
    /\ tracing = DOMAIN hooks \union stuck
    /\ DOMAIN hooks \intersect stuck = {}
    /\ \A id \in DOMAIN hooks :
          /\ hooks[id].count = seen[id]
          /\ Len(hooks[id].events) = Min({EventsKept, seen[id]})
          /\ \A i \in DOMAIN hooks[id].events :
                hooks[id].events[i] = seen[id] - Len(hooks[id].events) + i

(* A bookmark that a reply gave a slot is listed there until a reply says   *)
(* that slot was deleted, whatever slots and addresses were named - except  *)
(* at address 0.                                                           *)
BookmarksAreKept ==
    \A b \in told.slots : Taken(b[2]) => b[1] \in DOMAIN Bookmarks /\ Bookmarks[b[1]] = b[2]

(* What an "ok" says of a breakpoint. *)
Holds(tool, item) ==
    CASE tool = "add" -> item.addr \in DOMAIN bpts
      [] tool = "delete" -> item.addr \notin DOMAIN bpts
      [] tool = "toggle" -> item.addr \in DOMAIN bpts /\ bpts[item.addr].on = item.on
      [] OTHER -> /\ item.addr \in DOMAIN bpts /\ bpts[item.addr].cond = item.cond
                  /\ item.lang # "none" => bpts[item.addr].lang = item.lang

(* Reply i is that of item i; an "ok" holds unless a later item undid it;   *)
(* what no item named is as it was; an item that fails leaves an old        *)
(* condition or none, but for two errors that say the new one is in force: *)
(* it did not compile, or the breakpoint could not be read back.           *)
Stored == {"ok", "not_compiled", "set_not_reloaded"}
BatchesAreAnswered ==
    LET items == batch.items  n == Len(items)
        final == {i \in 1..n : \A j \in (i + 1)..n : items[j].addr # items[i].addr}
        set(i) == {items[j].cond : j \in {k \in 1..i : batch.replies[k] \in Stored}}
    IN  batch.tool # "none" =>
        /\ Len(batch.replies) = n
        /\ \A a \in Known \ {items[i].addr : i \in 1..n} :
              /\ a \in DOMAIN bpts <=> a \in DOMAIN batch.before
              /\ a \in DOMAIN bpts => bpts[a] = batch.before[a]
        /\ \A i \in final :
              /\ batch.replies[i] = "ok" => Holds(batch.tool, items[i])
              /\ batch.tool = "condition" /\ items[i].addr \in DOMAIN batch.before =>
                    /\ items[i].addr \in DOMAIN bpts
                    /\ bpts[items[i].addr].cond \in {"none", batch.before[items[i].addr].cond} \union set(i)

(* An enum has every member it had at first or was ever given, with the     *)
(* value given last, but for those a later call failed to read back; and no *)
(* other.                                                                   *)
MembersAreKept == enum.is = "enum" => enum.members = Drop(told.members, told.lost)

(* Patches listed are those made and not taken back, where there are bytes: *)
(* in order, all within the window but for those that PatchCap others       *)
(* come before.                                                             *)
PatchesAreListed ==
    LET made == {a \in DOMAIN told.bytes \intersect ToSet(Looked) : told.bytes[a] # Original(a)}
    IN  /\ \A a \in Mapped : bytes[a] = IF a \in DOMAIN told.bytes THEN told.bytes[a] ELSE Original(a)
        /\ \A i, j \in DOMAIN ListPatches : i < j => ListPatches[i] < ListPatches[j]
        /\ ToSet(ListPatches) = {a \in made : Cardinality({b \in made : b < a}) < PatchCap}

(* What the editing tools replied is what the database holds.               *)
EditsAsTold ==
    BookmarksAreKept /\ BatchesAreAnswered /\ MembersAreKept /\ PatchesAreListed
=============================================================================
