----------------------------- MODULE GltSearch ------------------------------
(***************************************************************************)
(* glt search (glt/glt/search, glt/Grep, glt/Query and the search side of  *)
(* glt/streaming_archive/reader) over the archives that GltArchive wrote:  *)
(* which archives are opened, the queries a search string becomes in each, *)
(* and the scan of the logtype tables of each segment.  A message is shown *)
(* with its timestamp in a fixed format, which is here one character.      *)
(***************************************************************************)
EXTENDS GltArchive

CONSTANT GltCases  \* search strings, time range, case, and the file whose archives are searched

VARIABLE gs  \* the search: its case, the archives to search, the queries of the open one, what was printed

Timestamp == "#"
MatchesWild(s, wild) == WildcardMatchUnsafe(s, wild, ~gs.c.ignoreCase)
Folded(s) == IF gs.c.ignoreCase THEN Lower(s) ELSE s

(***************************************************************************)
(* Queries (Grep.cpp, Query.cpp).  The encoded variables of a query are    *)
(* compared as numbers, whatever they stand for.                           *)
(***************************************************************************)
\* QueryToken.  Whether a wildcard token without digits is looked up in the
\* dictionary is never set: garbage is the set of those that are.
GltToken(q, t, garbage) ==
  LET types(v, wild, middle, numeric) ==
        CASE v = <<Star>> -> {"wildcard"}
          [] v # <<Star>> /\ ~t.isVar -> IF ~wild \/ middle THEN {"logtype"} ELSE {"logtype", Integer, Float, Dictionary}
          [] v # <<Star>> /\ t.isVar -> IF numeric /\ ~middle THEN {Integer, Float, Dictionary} ELSE {Dictionary}
      token(v, wild, middle, numeric) ==
        [b |-> t.b, e |-> t.e, value |-> v, middle |-> middle, wild |-> wild, types |-> types(v, wild, middle, numeric),
         dictOnly |-> IF t.isVar THEN ~numeric ELSE t.b \in garbage]
      of(v) == token(v, Star \in Range(v), \E i \in 2 .. Len(v) - 1 : v[i] = Star, Converts(Inner(v)))
  IN of(SubSeq(q, t.b, t.e - 1))

\* encode_and_search_dictionary: the first entry that has the value.
EncodeAndSearch(a, v) ==
  LET one(ok, kind, vars) == [ok |-> ok, logtype |-> <<kind>>, vars |-> vars, match |-> TRUE]
      entry(found) == one(found # {}, Dictionary, IF found = {} THEN <<>> ELSE <<[ids |-> {Min(found)}, dict |-> TRUE]>>)
      of(n) == IF n.kind # Dictionary THEN one(TRUE, n.kind, <<[ids |-> {n.encoded}, dict |-> FALSE]>>)
               ELSE entry({i \in DOMAIN a.vars : Folded(a.vars[i]) = Folded(v)})
  IN of(EncodeVar(v))

\* process_var_token.
VarTokenPart(a, t, type) ==
  LET star(c) == IF c = Star THEN <<Star>> ELSE <<>>
      part(ok, vars) == [ok |-> ok, logtype |-> star(Head(t.value)) \o <<type>> \o star(Last(t.value)), vars |-> vars, match |-> TRUE]
      entries(found) == part(found # {}, <<[ids |-> found, dict |-> TRUE]>>)
  IN IF ~t.wild THEN EncodeAndSearch(a, t.value)
     ELSE IF type = Dictionary /\ t.dictOnly THEN entries({i \in DOMAIN a.vars : MatchesWild(a.vars[i], t.value)})
     ELSE part(TRUE, <<>>)

PartOfToken(a, t, type) ==
  LET text(l, m) == [ok |-> TRUE, logtype |-> l, vars |-> <<>>, match |-> m]
  IN CASE type = "wildcard" -> text(<<Star>>, FALSE)
       [] type # "wildcard" /\ t.middle -> text(IF type = "logtype" THEN <<Star>> ELSE <<Star, Dictionary, Star>>, TRUE)
       [] type = "logtype" /\ ~t.middle -> text(AppendConstant(t.value), FALSE)
       [] OTHER -> VarTokenPart(a, t, type)

\* calculate_ids_of_matching_segments.
SegmentsOf(a, logtypes, vars) ==
  {s \in DOMAIN a.segments : /\ logtypes \cap a.segments[s].logtypes # {}
                             /\ \A k \in DOMAIN vars : vars[k].dict => vars[k].ids \cap a.segments[s].vars # {}}

\* generate_logtypes_and_vars_for_subquery.
MatchLogtypes(a, r) ==
  LET found(ids) == [ok |-> r.ok, all |-> r.ok /\ r.logtype = <<Star>>, logtypes |-> ids, vars |-> r.vars, match |-> r.match,
                     segs |-> SegmentsOf(a, ids, r.vars)]
  IN found({l \in DOMAIN a.logtypes : MatchesWild(a.logtypes[l], r.logtype)})
GltSubQuery(a, q, tokens, types) ==
  LET add(r, t, p) ==
        [ok |-> r.ok /\ p.ok, end |-> t.e, match |-> r.match \/ p.match, vars |-> r.vars \o p.vars,
         logtype |-> r.logtype \o AppendConstant(SubSeq(q, r.end, t.b - 1)) \o p.logtype]
      ended(r) == [r EXCEPT !.logtype = @ \o AppendConstant(SubSeq(q, r.end, Len(q)))]
  IN MatchLogtypes(a, ended(FoldLeft(LAMBDA r, i : add(r, tokens[i], PartOfToken(a, tokens[i], types[i])),
                                     [ok |-> TRUE, end |-> 1, match |-> FALSE, vars |-> <<>>, logtype |-> <<>>],
                                     [i \in DOMAIN tokens |-> i])))

\* The string that is cut into tokens: every ? becomes a star, an escaped one too.
TokenString(s) == CleanUp([i \in DOMAIN s |-> IF s[i] = AnyChar THEN Star ELSE s[i]])
GltString(k) == CleanUp(<<Star>> \o gs.c.strings[k] \o <<Star>>)

\* Grep::process_raw_query: a sub-query for each combination of token types.
GltTokens(q, garbage) ==
  LET of(pot) == [i \in DOMAIN pot |-> GltToken(q, pot[i], garbage)] IN of(PotentialVars(q, 1))
GltSubQueries(a, q, tokens) ==
  {GltSubQuery(a, q, tokens, f) :
     f \in {g \in [DOMAIN tokens -> UNION {tokens[i].types : i \in DOMAIN tokens}] : \A i \in DOMAIN tokens : g[i] \in tokens[i].types}}
GltQuery(a, k, garbage) ==
  LET query(all, subs) ==
        [k |-> k, string |-> GltString(k), all |-> all, subs |-> IF all THEN {} ELSE {x \in subs : x.ok /\ x.logtypes # {}}]
      of(subs) == query(\E x \in subs : x.all, subs)
      cut(q) == of(GltSubQueries(a, q, GltTokens(q, garbage)))
  IN cut(TokenString(GltString(k)))

\* Query's matches_var: in order, not necessarily next to each other.
MatchesVars(x, row) ==
  Len(x.vars) <= Len(row)
    /\ FoldLeft(LAMBDA n, v : IF n < Len(x.vars) THEN IF v \in x.vars[n + 1].ids THEN n + 1 ELSE n ELSE n, 0, row) = Len(x.vars)

(***************************************************************************)
(* The scan of a segment                                                   *)
(***************************************************************************)
\* Mutant: the combined tables are left out.
SingleOnly(d) == SelectSeq(d.meta, LAMBDA e : e.type = "single")

\* The single tables, then the combined ones.
TableOrder(d) == SelectSeq(d.meta, LAMBDA e : e.type = "single") \o SelectSeq(d.meta, LAMBDA e : e.type = "combined")

InRange(ts) == gs.c.window[1] <= ts /\ ts <= gs.c.window[2]

\* decompress_message_with_fixed_timestamp_pattern.
Shown(ts, text) == IF ts = 0 THEN text ELSE <<Timestamp>> \o text

\* find_message_matching_with_logtype_query, also from a combined table, and
\* the comparison with the search string: the first sub-query that takes a
\* row decides on it, and the one without variables comes first.
Prints(query, seg, id, row, ts, text) ==
  LET takes == {x \in query.subs : seg \in x.segs /\ id \in x.logtypes /\ MatchesVars(x, row)}
      compare == IF query.all THEN query.string # <<Star>> ELSE \A x \in takes : x.match
  IN /\ InRange(ts)
     /\ query.all \/ takes # {}
     /\ compare => MatchesWild(Shown(ts, text), query.string)

\* get_file_name: the names of the files are in the order of their ids.
FileName(a, id) == a.names[id + 1]

\* The results of a query in a table, row by row.
TableResults(a, seg, e, query) ==
  LET text(t, r) == DecodeEntry(RowEntry(a, e.id, RowOf(t, r))).text
      result(t, r) == IF Prints(query, seg, e.id, RowOf(t, r), t.ts[r], text(t, r))
                      THEN <<[k |-> query.k, path |-> FileName(a, t.ids[r]), shown |-> Shown(t.ts[r], text(t, r))]>> ELSE <<>>
      results(t) == FlattenSeq([r \in 1 .. e.rows |-> result(t, r)])
  IN results(LoadTable(a.segments[seg].disk, e))

\* search_segments and find_message_in_segment_within_time_range.
SegmentResults(a, seg, queries) ==
  FlattenSeq(FlattenSeq([n \in DOMAIN queries |->
    [i \in DOMAIN TableOrder(a.segments[seg].disk) |-> TableResults(a, seg, TableOrder(a.segments[seg].disk)[i], queries[n])]]))

(***************************************************************************)
(* search                                                                  *)
(***************************************************************************)
\* The times that the archive's row of the metadata database covers.
TimesOf(a) == UNION {UNION {Range(LoadTable(a.segments[s].disk, e).ts) : e \in Range(a.segments[s].disk.meta)} : s \in DOMAIN a.segments}

\* update_valid_segment_ids.
ValidSegments(a) == DOMAIN a.segments

\* get_archive_iterator.
ArchivesFor(c) ==
  SelectSeq([n \in DOMAIN gw.archives |-> n],
            LAMBDA n : IF c.file # "" THEN \E i \in DOMAIN gw.archives[n].names : gw.archives[n].names[i] = c.file
                       ELSE \E t, u \in TimesOf(gw.archives[n]) : t <= c.window[2] /\ u >= c.window[1])

GSInit == gs = [pc |-> "idle", c |-> [strings |-> <<>>], todo |-> <<>>, queries |-> <<>>, i |-> 0, segs |-> {}, out |-> <<>>]

StartSearch ==
  /\ gd.pc = "done" /\ gs.pc = "idle"
  /\ \E c \in GltCases : gs' = [gs EXCEPT !.pc = "archive", !.c = c, !.todo = ArchivesFor(c)]
  /\ UNCHANGED <<gj, gw, gd>>

OpenSearchedArchive ==
  /\ gs.pc = "archive"
  /\ gs' = IF gs.todo = <<>> THEN [gs EXCEPT !.pc = "done"] ELSE [gs EXCEPT !.pc = "query", !.i = 0, !.queries = <<>>, !.segs = {}]
  /\ UNCHANGED <<gj, gw, gd>>

Searched == gw.archives[Head(gs.todo)]

AddQuery(queries, query) == IF query.subs = {} THEN queries ELSE Append(queries, query)

\* search(), one search string: a query that takes every message replaces the
\* others and ends the loop; one that takes none is left out.
ProcessString ==
  /\ gs.pc = "query" /\ gs.i < Len(gs.c.strings)
  /\ \E garbage \in SUBSET {p.b : p \in {x \in Range(PotentialVars(TokenString(GltString(gs.i + 1)), 1)) : ~x.isVar}} :
       LET after(query) ==
             IF query.all THEN [gs EXCEPT !.pc = "segments", !.queries = <<query>>, !.segs = ValidSegments(Searched)]
             ELSE [gs EXCEPT !.i = @ + 1, !.queries = AddQuery(@, query), !.segs = @ \cup UNION {x.segs : x \in query.subs}]
       IN gs' = after(GltQuery(Searched, gs.i + 1, garbage))
  /\ UNCHANGED <<gj, gw, gd>>

EndOfStrings ==
  /\ gs.pc = "query" /\ gs.i = Len(gs.c.strings)
  /\ gs' = [gs EXCEPT !.pc = "segments"]
  /\ UNCHANGED <<gj, gw, gd>>

SearchSegment ==
  /\ gs.pc = "segments"
  /\ gs' = IF gs.segs = {} THEN [gs EXCEPT !.pc = "archive", !.todo = Tail(@)]
           ELSE [gs EXCEPT !.segs = @ \ {Min(@)}, !.out = @ \o SegmentResults(Searched, Min(gs.segs), gs.queries)]
  /\ UNCHANGED <<gj, gw, gd>>

GSNext == \/ GANext /\ UNCHANGED gs
          \/ StartSearch \/ OpenSearchedArchive \/ ProcessString \/ EndOfStrings \/ SearchSegment
GSSpec == GAInit /\ GSInit /\ [][GSNext]_<<gj, gw, gd, gs>>

(***************************************************************************)
(* Properties                                                              *)
(***************************************************************************)
\* The segments that are searched and those of the queries are segments of
\* the open archive, and a query without sub-queries is the only one.
GSTypeOK ==
  /\ gs.pc \in {"idle", "archive", "query", "segments", "done"}
  /\ gs.pc \in {"query", "segments"} =>
       /\ gs.segs \cup UNION {UNION {x.segs : x \in gs.queries[n].subs} : n \in DOMAIN gs.queries} \subseteq DOMAIN Searched.segments
       /\ \A n \in DOMAIN gs.queries : gs.queries[n].subs = {} => gs.queries[n].all /\ Len(gs.queries) = 1

\* Search strings whose search is settled: no escapes, no word with a digit
\* and a wildcard inside, none that is a part of a number only.
GltSettled(w) ==
  LET limit(t) == t.middle \/ (t.wild /\ Range(t.value) \subseteq Digits \cup {Star, "-", "."} /\ t.dictOnly)
      limited(q) == \E p \in Range(PotentialVars(q, 1)) : p.isVar /\ limit(GltToken(q, p, {}))
  IN Range(w) \cap (Placeholders \cup {Escape}) = {} /\ ~limited(TokenString(w))

\* An exact variable is looked up once in the dictionary: where the case of
\* letters is ignored, the other spellings are not found.
OneSpelling(k) ==
  gs.c.ignoreCase => \A p \in Range(PotentialVars(TokenString(GltString(k)), 1)) :
                       p.isVar => GltToken(TokenString(GltString(k)), p, {}).wild

\* The messages of the files of searched archives, with the file's path.
AllMessages == FlattenSeq([n \in DOMAIN gj.files |-> [i \in DOMAIN gj.files[n].msgs |-> [path |-> gj.files[n].path, m |-> gj.files[n].msgs[i]]]])
Wanted(x, k) == InRange(x.m.ts) /\ Matches(Folded(Shown(x.m.ts, x.m.text)), Folded(GltString(k)))
Count(s, Test(_)) == Len(SelectSeq(s, Test))

\* Every message in the time range that a search string matches is printed
\* once, with the path of its own file, in whatever table and archive it is.
GltFindsAll ==
  gs.pc = "done" /\ gs.c.file = "" =>
    \A k \in DOMAIN gs.c.strings :
      GltSettled(GltString(k)) /\ OneSpelling(k) /\ (\A j \in DOMAIN gs.c.strings : j # k => TokenString(GltString(j)) # <<Star>>) =>
        \A y \in {[path |-> x.path, shown |-> Shown(x.m.ts, x.m.text)] : x \in Range(SelectSeq(AllMessages, LAMBDA x : Wanted(x, k)))} :
          Count(gs.out, LAMBDA o : o.k = k /\ o.path = y.path /\ o.shown = y.shown)
            = Count(AllMessages, LAMBDA x : Wanted(x, k) /\ x.path = y.path /\ Shown(x.m.ts, x.m.text) = y.shown)

\* What is printed is a message of that file in the time range, and matches
\* the search string if this has no single-character wildcard.
GltPrintsOnlyMatches ==
  \A o \in Range(gs.out) :
    \E x \in Range(AllMessages) :
      /\ x.path = o.path /\ Shown(x.m.ts, x.m.text) = o.shown /\ InRange(x.m.ts)
      /\ Range(GltString(o.k)) \cap ({AnyChar, Escape} \cup Placeholders) = {} => Wanted(x, o.k)
=============================================================================
