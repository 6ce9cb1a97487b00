------------------------------ MODULE ListTools -----------------------------
(***************************************************************************)
(* The tools that list, search and cross-reference, as operators from what  *)
(* IDA enumerates to what the tool replies.  What IDA enumerates is a       *)
(* sequence of rows, [ea, name, size, typed, seg, ...]; a glob or a regular *)
(* expression is the set of the names it matches, AnyName for one that      *)
(* matches all, BadPattern for one that does not compile.  A reply has the  *)
(* rows of its page and the continuation it offers its client.              *)
(***************************************************************************)
EXTENDS Series, FiniteSetsExt, SequencesExt

CONSTANTS
    PageMax,        \* largest page of a tool that limits it (1000 ... 10000)
    PageDefault,    \* the page taken instead (100, 200, ...)
    StringsCap,     \* strings entity_query collects at most (50000)
    SearchCap,      \* matches a search returns at most (200)
    SearchPoll      \* strings between two looks at the cancel flag (16)

AnyName == {0}         \* names are positive numbers
BadPattern == {-1}
NoMore == -1        \* no next offset
Hit(pattern, name) == pattern = AnyName \/ name \in pattern
Ascending0(S) == SetToSortSeq(S, LAMBDA a, b : a < b)

(***************************************************************************)
(* Pages.                                                                   *)
(***************************************************************************)

(* rows[a:b] as Python has it: from the end when negative. *)
PyIndex(len, i) == IF i < 0 THEN Max({0, len + i}) ELSE Min({i, len})
PySlice(rows, a, b) == SubSeq(rows, PyIndex(Len(rows), a) + 1, PyIndex(Len(rows), b))
PyTail(rows, a) == PySlice(rows, a, Len(rows))

(* Mutant: a page that ends where the rows end offers one more. *)
PaginateEager(rows, offset, count) ==
    LET n == IF count <= 0 THEN Len(rows) ELSE count
    IN  [rows |-> PySlice(rows, offset, offset + n),
         next |-> IF offset + n <= Len(rows) THEN offset + n ELSE NoMore, total |-> Len(rows)]

(* _paginate *)
Paginate(rows, offset, count) ==
    LET n == IF count <= 0 THEN Len(rows) ELSE count
    IN  [rows |-> PySlice(rows, offset, offset + n),
         next |-> IF offset + n < Len(rows) THEN offset + n ELSE NoMore, total |-> Len(rows)]

Clamped(n) == IF n <= 0 \/ n > PageMax THEN PageDefault ELSE n

(* A page of a limited size with the total, the client counts on itself. *)
CountedPage(rows, offset, count) ==
    [rows |-> PySlice(rows, offset, offset + Clamped(count)), total |-> Len(rows)]

(* A page without either; limit 0 is no limit. *)
BarePage(rows, offset, limit) ==
    [rows |-> IF limit <= 0 THEN PyTail(rows, offset) ELSE PySlice(rows, offset, offset + limit)]

(***************************************************************************)
(* Filters and orders.                                                      *)
(***************************************************************************)
Named(rows, pattern) == SelectSeq(rows, LAMBDA r : Hit(pattern, r.name))

(* list.sort: stable, and reverse=True keeps equals in their order too. *)
SortedRows(rows, field, descending) ==
    LET keys == SetToSortSeq({rows[i][field] : i \in DOMAIN rows},
                             LAMBDA a, b : IF descending THEN a > b ELSE a < b)
    IN  FoldLeft(LAMBDA acc, k : acc \o SelectSeq(rows, LAMBDA r : r[field] = k), <<>>, keys)

OrderedBy(rows, by, descending) ==
    SortedRows(rows, IF by \in {"name", "size"} THEN by ELSE "ea", descending)

Between(rows, lo, hi, field) ==
    SelectSeq(rows, LAMBDA r : (lo < 0 \/ r[field] >= lo) /\ (hi < 0 \/ r[field] <= hi))

(* func_query *)
FuncQuery(fns, q, offset, count) ==
    IF q.regex = BadPattern THEN [error |-> "Invalid name_regex"]
    ELSE LET sized == Between(Named(Named(fns, q.glob), q.regex), q.min, q.max, "size")
             typed == SelectSeq(sized, LAMBDA r : q.typed = "any" \/ r.typed = q.typed)
         IN  Paginate(OrderedBy(typed, q.by, q.desc), offset, count)

(* entity_query: five kinds of rows; imports have a module in place of a   *)
(* segment, strings are cut at StringsCap when they are collected.          *)
EntityRows(tables, kind) ==
    CASE kind = "strings" -> SubSeq(tables.strings, 1, Min({StringsCap, Len(tables.strings)}))
      [] kind = "globals" -> SelectSeq(tables.names, LAMBDA r : ~ r.isfn)
      [] OTHER -> tables[kind]

EntityQuery(tables, kind, q, offset, count) ==
    IF kind \notin {"functions", "globals", "imports", "strings", "names"}
    THEN [error |-> "Unsupported kind"]
    ELSE IF q.regex = BadPattern THEN [error |-> "Invalid regex"]
    ELSE LET named == Named(Named(EntityRows(tables, kind), q.glob), q.regex)
             placed == SelectSeq(named, LAMBDA r : q.seg \in {"any", r.seg})
             ranged == Between(placed, q.min, q.max, "ea")
         IN  Paginate(OrderedBy(ranged, q.by, q.desc), offset, count)

ListGlobals(names, glob, offset, count) ==
    Paginate(SelectSeq(names, LAMBDA r : ~ r.isfn /\ Hit(glob, r.name)), offset, count)

ImportsQuery(imports, glob, module, offset, count) ==
    Paginate(SelectSeq(imports, LAMBDA r : Hit(glob, r.name) /\ module \in {"any", r.seg}), offset, count)

GetStrings(strings, glob, offset, limit) == Paginate(Named(strings, glob), offset, Clamped(limit))

StringsByLength(strings, min, max, offset, count) ==
    Paginate(SelectSeq(strings, LAMBDA r : r.size >= min /\ (max <= 0 \/ r.size <= max)), offset, count)

(* get_ascii_strings and get_unicode_strings: each string is one of them. *)
AsciiStrings(strings, offset, limit) ==
    Paginate(SelectSeq(strings, LAMBDA r : ~ r.wide), offset, Clamped(limit))
UnicodeStrings(strings, offset, limit) ==
    Paginate(SelectSeq(strings, LAMBDA r : r.wide), offset, Clamped(limit))

(* list_imports, list_exports, list_strings, get_all_names *)
ListImports(imports, glob, offset, count) == CountedPage(Named(imports, glob), offset, count)
ListExports(entries, glob, offset, count) ==
    CountedPage(Named(SelectSeq(entries, LAMBDA r : r.ea # NoMore), glob), offset, count)
ListStrings(strings, glob, offset, count) == CountedPage(Named(strings, glob), offset, count)
AllNamesPage(names, glob, offset, count) == CountedPage(Named(names, glob), offset, count)

(* list_funcs: one pass that counts on past the page; a count of 0 or less *)
(* gives an empty page.                                                     *)
ListFuncs(fns, offset, count) ==
    LET from == Max({offset, 0})
        n == Min({count, PageMax})
    IN  [rows |-> SubSeq(fns, from + 1, Min({from + Max({n, 0}), Len(fns)})), total |-> Len(fns)]

(* get_callees: the targets of calls, each where it is met first. *)
GetCallees(calls, offset, limit) == BarePage(FirstOnly(calls), offset, limit)
EntryPoints(entries, offset, limit) ==
    BarePage(SelectSeq(entries, LAMBDA r : r.ea # NoMore), offset, limit)

(* basic_blocks: a cursor in place of a next offset. *)
BasicBlocks(blocks, offset, max) ==
    LET n == Clamped(max)
    IN  [rows |-> PySlice(blocks, offset, offset + n), total |-> Len(blocks),
         next |-> IF offset + n < Len(blocks) THEN offset + n ELSE NoMore]

(* Mutant: the scan stops when the page is full, not one row later. *)
AllCommentsEarly(heads, offset, limit) ==
    LET found == FoldLeft(LAMBDA acc, h : IF limit > 0 /\ Len(acc) >= offset + limit
                                          THEN acc ELSE acc \o h, <<>>, heads)
    IN  [rows |-> BarePage(found, offset, limit).rows,
         next |-> IF limit > 0 /\ Len(found) > offset + limit THEN offset + limit ELSE NoMore]

(* get_all_comments: head after head, each with its comments, until one    *)
(* row more than the page is found.                                         *)
AllComments(heads, offset, limit) ==
    LET found == FoldLeft(LAMBDA acc, h : IF limit > 0 /\ Len(acc) >= offset + limit + 1
                                          THEN acc ELSE acc \o h, <<>>, heads)
    IN  [rows |-> BarePage(found, offset, limit).rows,
         next |-> IF limit > 0 /\ Len(found) > offset + limit THEN offset + limit ELSE NoMore]

(***************************************************************************)
(* Searches.  IDA's search finds the next of a set of addresses, unless    *)
(* IDA's cancel flag goes up in it: it then bails out and finds nothing.    *)
(* A cancel is [at, inside]: after `at` matches, NoMore for never, inside   *)
(* IDA's search or at the tool's own look at the flag.                      *)
(***************************************************************************)
NextHit(hits, ea, end, bails) ==
    LET later == {h \in hits : h >= ea /\ h < end}
    IN  IF bails \/ later = {} THEN NoMore ELSE Min(later)
Uncut == [at |-> NoMore, inside |-> FALSE]
StruckIn(cut, found) == cut = [at |-> found, inside |-> TRUE]

(* find_bytes of api_analysis.py: skips `offset` matches, then collects;   *)
(* it never looks at the flag, a search that bailed is taken for the end.   *)
RECURSIVE FindBytesFrom(_, _, _, _, _, _, _)
FindBytesFrom(hits, ea, skip, limit, end, cut, found) ==
    LET h == NextHit(hits, ea, end, skip = 0 /\ StruckIn(cut, Len(found)))
        full == Append(found, h)
    IN  IF h = NoMore THEN [rows |-> found, more |-> FALSE]
        ELSE IF skip > 0 THEN FindBytesFrom(hits, h + 1, skip - 1, limit, end, cut, found)
        ELSE IF Len(full) >= limit
             THEN [rows |-> full, more |-> NextHit(hits, h + 1, end, StruckIn(cut, Len(full))) # NoMore]
        ELSE FindBytesFrom(hits, h + 1, 0, limit, end, cut, full)

FindBytes(hits, offset, limit, end, cut) ==
    FindBytesFrom(hits, 0, Max({0, offset}), IF limit <= 0 \/ limit > PageMax THEN PageMax ELSE limit,
                  end, cut, <<>>)

(* The loop of the search tools: look at the cancel flag, collect, go on   *)
(* one address further, at most SearchCap times.  IDA's answer is taken     *)
(* before the flag is looked at: a search that bailed ends the loop as one  *)
(* that found nothing does.                                                 *)
RECURSIVE SearchFrom(_, _, _, _, _)
SearchFrom(hits, ea, end, cut, found) ==
    LET h == NextHit(hits, ea, end, StruckIn(cut, Len(found)))
    IN  IF h = NoMore \/ Len(found) >= SearchCap THEN [matches |-> found, partial |-> FALSE]
        ELSE IF cut.at = Len(found) THEN [matches |-> found, partial |-> TRUE]
        ELSE SearchFrom(hits, h + 1, end, cut, Append(found, h))

(* search_bytes, search_text, search_immediate_value: the whole image. *)
SearchAll(hits, top, cut) == SearchFrom(hits, 0, top, cut, <<>>)

(* find_bytes_between and find_text_between look at the flag before each   *)
(* search, also before the one that finds nothing; find_immediate_between   *)
(* after it.                                                                *)
SearchBetween(hits, what, start, end, cut) ==
    IF start >= end THEN [matches |-> <<>>, partial |-> FALSE]
    ELSE LET r == SearchFrom(hits, start, end, cut, <<>>)
         IN  IF what # "immediate" /\ cut = [at |-> Len(r.matches), inside |-> FALSE] /\ cut.at < SearchCap
                /\ (r.matches # <<>> => Last(r.matches) + 1 < end)
             THEN [r EXCEPT !.partial = TRUE] ELSE r

(* find_regex: over the strings, the flag looked at every SearchPoll. *)
FindRegex(strings, regex, limit, cut) ==
    LET max == Max({1, Min({limit, PageMax})})
        seen == IF cut = NoMore THEN strings
                ELSE SubSeq(strings, 1, Min({Len(strings), ((cut + SearchPoll - 1) \div SearchPoll) * SearchPoll}))
        found == Named(seen, regex)
    IN  IF regex = BadPattern THEN [error |-> "Invalid regex"]
        ELSE [rows |-> SubSeq(found, 1, Min({max, Len(found)})),
              partial |-> Len(found) < max /\ seen # strings]

(* Lists cut at a limit: get_strings_in_range, search_strings, get_heads   *)
(* say that they were cut when exactly `limit` rows exist, too.             *)
Capped(rows, limit) ==
    LET found == SubSeq(rows, 1, Min({Clamped(limit), Len(rows)}))
    IN  [rows |-> found, truncated |-> Len(found) >= Clamped(limit)]

StringsInRange(strings, start, end, limit) ==
    Capped(SelectSeq(strings, LAMBDA r : start <= r.ea /\ r.ea < end), limit)
SearchStrings(strings, query, limit) == Capped(Named(strings, query), limit)
GetHeads(heads, start, end, limit) ==
    Capped(SelectSeq(heads, LAMBDA ea : start <= ea /\ ea < end), limit)

(* get_string_at: the string that starts there, else the one around it. *)
StringAt(strings, ea) ==
    LET around == SelectSeq(strings, LAMBDA r : r.ea <= ea /\ ea < r.ea + r.size)
        exact == SelectSeq(strings, LAMBDA r : r.ea = ea)
    IN  IF exact # <<>> THEN [row |-> exact[1], exact |-> TRUE]
        ELSE IF around # <<>> THEN [row |-> around[1], exact |-> FALSE]
        ELSE [error |-> "No string at address"]

(***************************************************************************)
(* Cross-references: rows [to, frm, kind], kind one of the xref types.      *)
(***************************************************************************)
CodeKinds == {"call", "jump"}
DataKinds == {"read", "write", "offset"}

(* Mutant: rows of other kinds count for the limit. *)
CollectAny(refs, limit, kinds) ==
    SelectSeq(SubSeq(refs, 1, Min({Max({limit, 1}), Len(refs)})), LAMBDA r : r.kind \in kinds)

(* _collect_to and _collect_from: the limit is looked at after a row was   *)
(* added, a limit of 0 lets one through.                                    *)
Collect(refs, limit, kinds) ==
    LET found == SelectSeq(refs, LAMBDA r : r.kind \in kinds)
    IN  SubSeq(found, 1, Min({Max({limit, 1}), Len(found)}))

(* The eleven directional tools: get_xrefs_from ... get_writes_to. *)
KindsOf(tool) ==
    CASE tool = "code" -> CodeKinds [] tool = "data" -> DataKinds [] tool = "calls" -> {"call"}
      [] tool = "jumps" -> {"jump"} [] tool = "reads" -> {"read"} [] tool = "writes" -> {"write"}
      [] OTHER -> CodeKinds \union DataKinds
RefsTool(tool, refs, limit) == Collect(refs, Clamped(limit), KindsOf(tool))

(* get_xrefs *)
GetXrefs(to, from, limit) ==
    LET first == Collect(to, Clamped(limit), KindsOf("any"))
    IN  first \o Collect(from, Max({0, Clamped(limit) - Len(first)}), KindsOf("any"))

(* get_xrefs_to and xref_query: the limit is looked at before. *)
UpTo(refs, limit) == SubSeq(refs, 1, Min({Max({limit, 0}), Len(refs)}))
GetXrefsTo(to, limit) == UpTo(to, limit)
XrefQuery(to, from, direction, tool, limit) ==
    LET side(refs) == SelectSeq(refs, LAMBDA r : r.kind \in KindsOf(tool))
    IN  UpTo((IF direction = "from" THEN <<>> ELSE side(to))
                \o (IF direction \in {"from", "both"} THEN side(from) ELSE <<>>), limit)

(* get_callers: the functions around the call sites, get_caller_count;     *)
(* `fnOf` gives the function at an address, NoMore for none.                *)
GetCallers(to, fnOf, limit) ==
    LET calls == SelectSeq(to, LAMBDA r : r.kind = "call" /\ fnOf[r.frm] # NoMore)
    IN  UpTo(FirstOnly([i \in DOMAIN calls |-> fnOf[calls[i].frm]]), limit)
CallerCount(to, fnOf) ==
    Cardinality({fnOf[to[i].frm] : i \in {j \in DOMAIN to : to[j].kind = "call"}} \ {NoMore})

(* get_xref_count, get_callee_count: the latter counts every function that *)
(* a code ref leads to, get_callees the targets of calls.                   *)
XrefCounts(to, from) == [to |-> Len(to), from |-> Len(from), total |-> Len(to) + Len(from)]
CalleeCount(from, fnOf) ==
    Cardinality({fnOf[from[i].to] : i \in {j \in DOMAIN from : from[j].kind \in CodeKinds}} \ {NoMore})

(* xrefs_to_field: of the type id of Struct.field. *)
FieldRefs(fields, field, refs, limit) ==
    IF field \notin DOMAIN fields THEN [error |-> "Field not found"]
    ELSE [xrefs |-> Collect(refs[fields[field]], Clamped(limit), KindsOf("any"))]

(***************************************************************************)
(* What the lists promise.  `pages` is what a tool replies to each offset   *)
(* for one page size; a client starts at 0 and goes on as the reply, or the *)
(* tool's description, tells it.                                            *)
(***************************************************************************)
Continuation(page, offset, count) ==
    CASE "next" \in DOMAIN page -> page.next
      [] "total" \in DOMAIN page /\ "next" \notin DOMAIN page ->
            IF offset + Len(page.rows) < page.total THEN offset + Len(page.rows) ELSE NoMore
      [] "more" \in DOMAIN page -> IF page.more THEN offset + Len(page.rows) ELSE NoMore
      [] OTHER -> IF Len(page.rows) = count THEN offset + count ELSE NoMore

Walked(pages, count) ==
    LET rest[o \in DOMAIN pages] ==
            LET n == Continuation(pages[o], o, count)
            IN  pages[o].rows \o IF n \in DOMAIN pages THEN rest[n] ELSE <<>>
    IN  rest[0]

(* The walk gives the rows, and no page that announced more was the last. *)
WalkGives(Page(_), count, rows) ==
    LET pages == [o \in 0..(Len(rows) + count) |-> Page(o)]
    IN  /\ Walked(pages, count) = rows
        /\ \A o \in DOMAIN pages : "next" \in DOMAIN pages[o] /\ pages[o].next # NoMore =>
                                    pages[o].next < Len(rows)

(* The rows that pass, in the order asked for, equals in the order of IDA. *)
IsSelection(got, rows, Pass(_), Key(_), descending) ==
    /\ got = SelectSeq(got, Pass)
    /\ ToSet(got) = {rows[i] : i \in {j \in DOMAIN rows : Pass(rows[j])}}
    /\ \A i, j \in DOMAIN got : i < j =>
          \/ IF descending THEN Key(got[i]) > Key(got[j]) ELSE Key(got[i]) < Key(got[j])
          \/ Key(got[i]) = Key(got[j]) /\ got[i].ea < got[j].ea

(* Whatever the page size, a client that walks a list gets each matching   *)
(* row once and in order, and none that does not match.                     *)
WalksAreComplete(rows) ==
    \A count \in 1..(PageMax + 1), glob \in {AnyName, {1}, {1, 2}} :
        LET named == Named(rows, glob)
            Walks(Page(_)) == WalkGives(Page, count, named)
            heads == [i \in DOMAIN rows |-> IF Hit(glob, rows[i].name) THEN <<rows[i]>> ELSE <<>>]
            hits == {named[i].ea : i \in DOMAIN named}
            top == Len(rows) + 2
        IN  /\ Walks(LAMBDA o : ImportsQuery(rows, glob, "any", o, count))
            /\ Walks(LAMBDA o : ListImports(rows, glob, o, count))
            /\ Walks(LAMBDA o : ListExports(rows, glob, o, count))
            /\ Walks(LAMBDA o : GetStrings(rows, glob, o, count))
            /\ WalkGives(LAMBDA o : ListGlobals(rows, glob, o, count), count,
                         SelectSeq(named, LAMBDA r : ~ r.isfn))
            /\ WalkGives(LAMBDA o : StringsByLength(named, 2, 0, o, count), count,
                         SelectSeq(named, LAMBDA r : r.size >= 2))
            /\ WalkGives(LAMBDA o : AsciiStrings(named, o, count), count,
                         SelectSeq(named, LAMBDA r : ~ r.wide))
            /\ \A kind \in {"globals", "strings", "names"} :
                  LET tables == [strings |-> rows, names |-> rows]
                      q == [glob |-> glob, regex |-> AnyName, seg |-> "any", min |-> 1, max |-> -1,
                            by |-> "addr", desc |-> FALSE]
                  IN  Len(rows) <= StringsCap =>
                        WalkGives(LAMBDA o : EntityQuery(tables, kind, q, o, count), count,
                                  SelectSeq(named, LAMBDA r : kind = "globals" => ~ r.isfn))
            /\ Walks(LAMBDA o : BasicBlocks(named, o, count))
            /\ Walks(LAMBDA o : AllComments(heads, o, count))
            /\ Walks(LAMBDA o : EntryPoints(named, o, count))
            /\ count <= PageMax => Walks(LAMBDA o : ListFuncs(named, o, count))
            /\ WalkGives(LAMBDA o : FindBytes(hits, o, count, top, Uncut), count, Ascending0(hits))
            /\ \A by \in {"addr", "size"}, desc \in BOOLEAN, min \in {-1, 2}, regex \in {AnyName, {2}} :
                  LET q == [glob |-> glob, regex |-> regex, min |-> min, max |-> -1,
                            typed |-> "any", seg |-> "any", by |-> by, desc |-> desc]
                      all == FuncQuery(rows, q, 0, 0).rows
                      Pass(r) == Hit(glob, r.name) /\ Hit(regex, r.name) /\ (min < 0 \/ r.size >= min)
                  IN  /\ IsSelection(all, rows, Pass, LAMBDA r : IF by = "size" THEN r.size ELSE r.ea, desc)
                      /\ WalkGives(LAMBDA o : FuncQuery(rows, q, o, count), count, all)

(* Matches are the first ones, in order; only a cancel makes a reply      *)
(* partial, and one that is neither partial nor at its cap has every match, *)
(* but for a cancel that struck inside IDA's search: those found before it. *)
SearchIsHonest(r, hits, cut) ==
    /\ r.matches = SubSeq(Ascending0(hits), 1, Len(r.matches))
    /\ ~ r.partial => \/ Len(r.matches) = Min({SearchCap, Cardinality(hits)})
                      \/ StruckIn(cut, Len(r.matches))
    /\ r.partial => cut = [at |-> Len(r.matches), inside |-> FALSE]

SearchesAreHonest(rows) ==
    \A at \in {NoMore} \union 0..SearchCap, inside \in BOOLEAN, start, end \in 0..4 :
        LET cut == [at |-> at, inside |-> inside]
            hits == {2 * rows[i].name - rows[i].size : i \in DOMAIN rows}
            SeenIn(lo, hi) == {h \in hits : lo <= h /\ h < hi}
        IN  /\ SearchIsHonest(SearchAll(hits, end, cut), SeenIn(0, end), cut)
            /\ \A what \in {"bytes", "immediate"} :
                  SearchIsHonest(SearchBetween(hits, what, start, end, cut), SeenIn(start, end), cut)
            /\ LET r == FindBytes(hits, 0, start, end, cut)
               IN  /\ IsPrefix(r.rows, Ascending0(SeenIn(0, end)))
                   /\ r.more \/ Len(r.rows) = Cardinality(SeenIn(0, end)) \/ StruckIn(cut, Len(r.rows))
            /\ LET r == FindRegex(rows, {1}, end, at)
               IN  /\ IsPrefix(r.rows, Named(rows, {1}))
                   /\ ~ r.partial => Len(r.rows) = Min({Max({1, Min({end, PageMax})}),
                                                        Len(Named(rows, {1}))})
            /\ \A r \in {StringsInRange(rows, start, end, 2), SearchStrings(rows, {1}, end)} :
                  /\ r.truncated \/ r.rows \in {SelectSeq(rows, LAMBDA x : start <= x.ea /\ x.ea < end),
                                                Named(rows, {1})}
                  /\ r.rows = SelectSeq(rows, LAMBDA x : x \in ToSet(r.rows))
            /\ "row" \in DOMAIN StringAt(rows, start) =>
                  LET r == StringAt(rows, start).row IN r.ea <= start /\ start <= r.ea + r.size

(* The directional tools split get_xrefs between them, a limit only cuts    *)
(* the end off, and the counts agree with the lists.                        *)
XrefsAreHonest(refs) ==
    LET fnOf == [ea \in 1..3 |-> IF ea = 3 THEN NoMore ELSE ea]
        every(tool) == SelectSeq(refs, LAMBDA r : r.kind \in KindsOf(tool))
    IN  /\ \A limit \in 1..PageMax, tool \in {"any", "code", "data", "calls", "reads"} :
              /\ RefsTool(tool, refs, limit) = SubSeq(every(tool), 1, Min({limit, Len(every(tool))}))
              /\ XrefQuery(refs, <<>>, "to", tool, limit) = RefsTool(tool, refs, limit)
              /\ Len(GetXrefs(refs, refs, limit)) <= limit + 1
        /\ Len(every("code")) + Len(every("data")) = XrefCounts(refs, <<>>).to
        /\ CallerCount(refs, fnOf) = Len(GetCallers(refs, fnOf, Len(refs)))
        /\ \A limit \in 0..2 : IsPrefix(GetCallers(refs, fnOf, limit), GetCallers(refs, fnOf, Len(refs)))
        /\ Len(FirstOnly([i \in DOMAIN every("calls") |-> every("calls")[i].to])) <=
              CalleeCount(refs, [ea \in 1..3 |-> ea])
=============================================================================
