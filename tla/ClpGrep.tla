------------------------------ MODULE ClpGrep ------------------------------
(***************************************************************************)
(* Searching CLP archives for wildcard strings: clg (clp/clg/clg.cpp) and  *)
(* what it is made of, GrepCore, QueryToken, Query, SchemaSearcher, Grep   *)
(* and the search loops of streaming_archive/reader/File.  A search string *)
(* becomes a query: a set of sub-queries, each a set of logtypes and a     *)
(* sequence of variables that a message must have.  Texts, logtypes and    *)
(* encodings are those of ClpText; a dictionary entry is its own id.       *)
(***************************************************************************)
EXTENDS ClpText

CONSTANTS Archives,     \* by id: the files of each archive, whether it has a schema, whether it is gone
          Cases,        \* the ids of the archives searched, search strings and options
          SchemaVars    \* the texts that a schema's variables may have

VARIABLES cs,   \* the case
          gp    \* clg: where it is, the queries of the open archive, what it printed
cgVars == <<cs, gp>>

(***************************************************************************)
(* The archives: their messages as they are stored, and the dictionaries   *)
(* with the segments of each entry                                         *)
(***************************************************************************)
Stored == [a \in DOMAIN Archives |-> [f \in DOMAIN Archives[a].files |->
             [i \in DOMAIN Archives[a].files[f].msgs |-> EntryOfText(Archives[a].files[f].msgs[i].text)]]]
DictVars(e) == {e.vars[i].text : i \in {j \in DOMAIN e.vars : e.vars[j].kind = Dictionary}}

\* get_ids_of_segments_containing_entry, for every entry of a dictionary.
SegmentIndex(a, entriesOf(_)) ==
  LET index(of) == [l \in UNION Range(of) |-> {Archives[a].files[f].seg : f \in {g \in DOMAIN of : l \in of[g]}}]
  IN index([f \in DOMAIN Stored[a] |-> UNION {entriesOf(e) : e \in Range(Stored[a][f])}])
LogtypeDict == [a \in DOMAIN Archives |-> SegmentIndex(a, LAMBDA e : {e.logtype})]
VarDict == [a \in DOMAIN Archives |-> SegmentIndex(a, DictVars)]

\* get_entries_matching_wildcard_string and get_entry_matching_value.
MatchingWildcard(dict, wild, ignoreCase) == {v \in DOMAIN dict : WildcardMatchUnsafe(v, wild, ~ignoreCase)}
MatchingValue(dict, s, ignoreCase) == {v \in DOMAIN dict : v = s \/ (ignoreCase /\ Lower(v) = Lower(s))}

(***************************************************************************)
(* QueryToken                                                              *)
(***************************************************************************)
CouldBeInteger(v) == Range(v) \subseteq Digits \cup Wildcards \cup {"-"}
CouldBeFloat(v) == Range(v) \subseteq Digits \cup Wildcards \cup {"-", "."}

\* Mutant: a token with wildcards is taken to be what its text is without them.
OnlyItsOwnType(v, isVar, wild) ==
  IF ~isVar THEN IF ~wild THEN {"logtype"} ELSE {"logtype", Dictionary}
  ELSE IF ~Converts(Inner(v)) THEN {Dictionary} ELSE {EncodeVar(Inner(v)).kind}

PossibleTypes(v, isVar, wild) ==
  IF ~isVar
  THEN IF ~wild THEN {"logtype"}
       ELSE {"logtype", Dictionary} \cup (IF CouldBeInteger(v) THEN {Integer} ELSE {}) \cup (IF CouldBeFloat(v) THEN {Float} ELSE {})
  ELSE IF ~Converts(Inner(v)) THEN {Dictionary} ELSE {Integer, Float, Dictionary}

QueryToken(q, t) ==
  LET typed(v, prefix, suffix, middle, types) ==
        [b |-> t.b, e |-> t.e, value |-> v, prefix |-> prefix, suffix |-> suffix, middle |-> middle,
         wild |-> prefix \/ suffix \/ middle,
         types |-> IF middle /\ ~t.isVar THEN {"logtype"} ELSE IF middle THEN {Dictionary} ELSE types,
         dictOnly |-> types \cap {Integer, Float} = {}]
      token(v, prefix, suffix, middle) ==
        typed(v, prefix, suffix, middle,
              IF v = <<Star>> THEN {"wildcard"} ELSE PossibleTypes(v, t.isVar, prefix \/ suffix \/ middle))
      stars(v) == token(v, v[1] = Star, v[Len(v)] = Star, \E i \in 2 .. Len(v) - 1 : v[i] = Star)
  IN stars(SubSeq(q, t.b, t.e - 1))

\* The types that change_to_next_possible_type goes through, for all tokens together.
Combinations(tokens) == {f \in [DOMAIN tokens -> UNION {tokens[i].types : i \in DOMAIN tokens}] : \A i \in DOMAIN tokens : f[i] \in tokens[i].types}

(***************************************************************************)
(* Sub-queries.  A variable of a sub-query is the set of the encoded       *)
(* variables it may be.                                                    *)
(***************************************************************************)
DictVar(text) == [kind |-> Dictionary, encoded |-> 0, text |-> text]

\* encode_and_search_dictionary.
EncodeAndSearchDictionary(dict, v, ignoreCase) ==
  LET one(ok, kind, vars) == [ok |-> ok, logtype |-> <<kind>>, vars |-> <<vars>>, match |-> TRUE]
      entries(found) == one(found # {}, Dictionary, {DictVar(x) : x \in found})
      of(n) == IF n.kind # Dictionary THEN one(TRUE, n.kind, {n})
               ELSE entries(MatchingValue(dict, Unescape(v), ignoreCase))
  IN of(EncodeVar(v))

\* process_var_token.
ProcessVarToken(dict, t, type, ignoreCase) ==
  LET star(b) == IF b THEN <<Star>> ELSE <<>>
      part(ok, vars) == [ok |-> ok, logtype |-> star(t.prefix) \o <<type>> \o star(t.suffix), vars |-> vars, match |-> TRUE]
      entries(found) == part(found # {}, <<{DictVar(x) : x \in found}>>)
  IN IF ~t.wild THEN EncodeAndSearchDictionary(dict, t.value, ignoreCase)
     ELSE IF type = Dictionary /\ t.dictOnly THEN entries(MatchingWildcard(dict, t.value, ignoreCase))
     ELSE part(TRUE, <<>>)

\* What one token adds to a sub-query.
TokenPart(dict, t, type, ignoreCase) ==
  LET text(l, m) == [ok |-> TRUE, logtype |-> l, vars |-> <<>>, match |-> m]
  IN CASE type = "wildcard" -> text(<<Star>>, FALSE)
       [] type # "wildcard" /\ t.middle -> text(IF type = "logtype" THEN <<Star>> ELSE <<Star, Dictionary, Star>>, TRUE)
       [] type = "logtype" /\ ~t.middle -> text(AppendConstant(t.value), FALSE)
       [] OTHER -> ProcessVarToken(dict, t, type, ignoreCase)

\* generate_logtypes_and_vars_for_subquery, up to the search of the logtypes.
GenerateSubQuery(dict, q, tokens, types, ignoreCase) ==
  LET add(r, t, p) ==
        [ok |-> r.ok /\ p.ok, end |-> t.e, match |-> r.match \/ p.match, vars |-> r.vars \o p.vars,
         logtype |-> r.logtype \o AppendConstant(SubSeq(q, r.end, t.b - 1)) \o p.logtype]
      step(r, i) == add(r, tokens[i], TokenPart(dict, tokens[i], types[i], ignoreCase))
      ended(r) == [r EXCEPT !.logtype = @ \o AppendConstant(SubSeq(q, r.end, Len(q)))]
  IN ended(FoldLeft(step, [ok |-> TRUE, end |-> 1, match |-> FALSE, vars |-> <<>>, logtype |-> <<>>], [i \in DOMAIN tokens |-> i]))

\* The sub-queries that some logtype of the archive matches; a logtype that is
\* only a star supersedes them all.
MatchLogtypes(dict, subs, ignoreCase) ==
  LET matched == {[logtypes |-> MatchingWildcard(dict, x.logtype, ignoreCase), vars |-> x.vars, match |-> x.match] : x \in subs}
  IN IF \E x \in subs : x.logtype = <<Star>> THEN [all |-> TRUE, subs |-> {}]
     ELSE [all |-> FALSE, subs |-> {x \in matched : x.logtypes # {}}]

\* The sub-queries of the heuristic, one for each combination of token types.
HeuristicSubQueries(a, s, ignoreCase) ==
  LET tokens(q, pot) == [i \in DOMAIN pot |-> QueryToken(q, pot[i])]
      subs(q, ts) == {GenerateSubQuery(VarDict[a], q, ts, f, ignoreCase) : f \in Combinations(ts)}
      query(q) == MatchLogtypes(LogtypeDict[a], {x \in subs(q, tokens(q, PotentialVars(q, 1))) : x.ok}, ignoreCase)
  IN query(CleanUp(ReplaceUnescaped(s, AnyChar, Star)))

(***************************************************************************)
(* SchemaSearcher.  The lexer's interpretations of a search string are all *)
(* the ways to cut it into static text and variables of a type, where a    *)
(* star at a cut belongs to both sides.                                    *)
(***************************************************************************)
SchemaType(v) == EncodeVar(v).kind
CouldBeVar(piece, type) == \E v \in SchemaVars : SchemaType(v) = type /\ Matches(v, piece)

RECURSIVE Interpretations(_, _)
Interpretations(q, static) ==
  IF q = <<>> THEN {<<>>}
  ELSE UNION {LET piece == SubSeq(q, 1, k)
                  rests(t) == {SubSeq(q, k + 1, Len(q))} \cup (IF q[k] = Star /\ (k > 1 \/ t = "static") THEN {SubSeq(q, k, Len(q))} ELSE {})
                  types == {t \in {Integer, Float, Dictionary} : CouldBeVar(piece, t)} \cup (IF static THEN {} ELSE {"static"})
              IN UNION {UNION {{<<[type |-> t, text |-> piece]>> \o r : r \in Interpretations(rest, t = "static")} : rest \in rests(t)} : t \in types}
              : k \in DOMAIN q}

\* normalize_interpretations: runs of stars in a token become one.
NormalizeInterpretations(is) == {[i \in DOMAIN f |-> [f[i] EXCEPT !.text = CleanUp(@)]] : f \in is}

HasWildcard(t) == Unescaped(t.text) # {}

\* get_wildcard_encodable_positions.
EncodablePositions(f) == {i \in DOMAIN f : f[i].type \in {Integer, Float} /\ HasWildcard(f[i])}

GenerateLogtypeString(f, mask) ==
  FlattenSeq([i \in DOMAIN f |->
    IF f[i].type = "static" THEN f[i].text
    ELSE IF i \in EncodablePositions(f) THEN <<IF i \in mask THEN f[i].type ELSE Dictionary>>
    ELSE IF f[i].type \in {Integer, Float} /\ EncodeVar(f[i].text).kind = f[i].type THEN <<f[i].type>> ELSE <<Dictionary>>])

\* process_schema_var_token: the sequence of the sets of variables it adds.
SchemaVarToken(dict, t, encoded, ignoreCase) ==
  LET var(n) == IF n.kind = t.type /\ t.type # Dictionary THEN <<{n}>>
                ELSE <<{DictVar(x) : x \in MatchingValue(dict, t.text, ignoreCase)}>>
  IN IF encoded THEN <<>>
     ELSE IF HasWildcard(t) THEN <<{DictVar(x) : x \in MatchingWildcard(dict, t.text, ignoreCase)}>>
     ELSE var(EncodeVar(t.text))

\* generate_schema_sub_queries.
SchemaSubQueries(a, s, ignoreCase) ==
  LET vars(f, mask) ==
        [i \in DOMAIN f |-> IF f[i].type = "static" THEN <<>> ELSE SchemaVarToken(VarDict[a], f[i], i \in mask, ignoreCase)]
      sub(f, mask) ==
        [logtypes |-> MatchingWildcard(LogtypeDict[a], GenerateLogtypeString(f, mask), ignoreCase),
         vars |-> FlattenSeq(vars(f, mask)), match |-> \E i \in DOMAIN f : f[i].type # "static"]
      subs(is) == UNION {{sub(f, mask) : mask \in SUBSET EncodablePositions(f)} : f \in is}
  IN [all |-> FALSE, subs |-> {x \in subs(NormalizeInterpretations(Interpretations(s, FALSE))) :
                                 x.logtypes # {} /\ {} \notin Range(x.vars)}]

(***************************************************************************)
(* clg                                                                     *)
(***************************************************************************)
Id == cs.archives[gp.a]
Archive == Archives[Id]
SearchStrings == [i \in DOMAIN cs.strings |-> CleanUp(<<Star>> \o cs.strings[i] \o <<Star>>)]

\* SubQuery::calculate_ids_of_matching_segments.
MatchingSegments(a, x) ==
  {n \in UNION {LogtypeDict[a][l] : l \in x.logtypes} :
     \A i \in DOMAIN x.vars : (\A v \in x.vars[i] : v.kind = Dictionary) => \E v \in x.vars[i] : n \in VarDict[a][v.text]}

InWindow(m) == cs.window[1] <= m.ts /\ m.ts <= cs.window[2]

\* SubQuery::matches_vars: in order, not necessarily next to each other.
MatchesVars(x, vars) ==
  Len(x.vars) <= Len(vars)
    /\ FoldLeft(LAMBDA n, v : IF n < Len(x.vars) THEN IF v \in x.vars[n + 1] THEN n + 1 ELSE n ELSE n, 0, vars) = Len(x.vars)

\* search_and_output for one message: the first sub-query that takes the
\* message decides whether it is compared with the search string, and the
\* sub-query without variables comes first.
Outputs(q, f, i) ==
  LET msg == Archive.files[f].msgs[i]
      takes(e) == {x \in q.subs : Archive.files[f].seg \in x.segs /\ e.logtype \in x.logtypes /\ MatchesVars(x, e.vars)}
      prints(by) == /\ q.all \/ by # {}
                    /\ (IF q.all THEN q.string # <<Star>> ELSE \A x \in by : x.match)
                         => WildcardMatchUnsafe(msg.text, q.string, ~cs.ignoreCase)
  IN InWindow(msg) /\ prints(takes(Stored[Id][f][i]))

CGInit ==
  /\ cs \in Cases
  /\ gp = [pc |-> "archive", a |-> 0, i |-> 0, queries |-> <<>>, segs |-> {}, files |-> <<>>, out |-> {}]

\* The next archive is opened; one that is gone is passed over.
OpenArchive ==
  /\ gp.pc = "archive"
  /\ gp' = IF gp.a = Len(cs.archives) THEN [gp EXCEPT !.pc = "done"]
           ELSE IF Archives[cs.archives[gp.a + 1]].gone THEN [gp EXCEPT !.a = @ + 1]
           ELSE [gp EXCEPT !.a = @ + 1, !.pc = "query", !.i = 0, !.queries = <<>>, !.segs = {}]
  /\ UNCHANGED cs

\* A query that nothing in the archive can match is dropped.
AddQuery(queries, q) == IF q.subs = {} THEN queries ELSE Append(queries, q)

\* One search string of search(): a query without sub-queries ends the loop.
ProcessRawQuery ==
  /\ gp.pc = "query" /\ gp.i < Len(cs.strings)
  /\ LET s == SearchStrings[gp.i + 1]
         query(p) == [string |-> s, i |-> gp.i + 1, all |-> p.all,
                      subs |-> {[segs |-> MatchingSegments(Id, x)] @@ x : x \in p.subs}]
         after(q) ==
           IF q.all THEN [gp EXCEPT !.pc = "files", !.queries = <<q>>, !.files = SetToSeq(DOMAIN Archive.files)]
           ELSE [gp EXCEPT !.i = @ + 1, !.queries = AddQuery(@, q), !.segs = @ \cup UNION {x.segs : x \in q.subs}]
     IN gp' = after(query(IF Archive.schema THEN SchemaSubQueries(Id, s, cs.ignoreCase)
                          ELSE HeuristicSubQueries(Id, s, cs.ignoreCase)))
  /\ UNCHANGED cs

\* The files of the segments that may hold results, segment by segment.
SelectFiles ==
  /\ gp.pc = "query" /\ gp.i = Len(cs.strings)
  /\ gp' = [gp EXCEPT !.pc = "files",
              !.files = SetToSortSeq({i \in DOMAIN Archive.files : Archive.files[i].seg \in gp.segs},
                                     LAMBDA i, j : Archive.files[i].seg < Archive.files[j].seg
                                                     \/ (Archive.files[i].seg = Archive.files[j].seg /\ i < j))]
  /\ UNCHANGED cs

\* search_files, one file: every query is run on it from its beginning.
SearchFile ==
  /\ gp.pc = "files" /\ gp.files # <<>>
  /\ LET found(q) == {i \in DOMAIN Archive.files[Head(gp.files)].msgs : Outputs(q, Head(gp.files), i)}
     IN gp' = [gp EXCEPT !.files = Tail(@),
                 !.out = @ \cup UNION {{<<gp.a, Head(gp.files), i, gp.queries[k].i>> : i \in found(gp.queries[k])} : k \in DOMAIN gp.queries}]
  /\ UNCHANGED cs

CloseArchive ==
  /\ gp.pc = "files" /\ gp.files = <<>>
  /\ gp' = [gp EXCEPT !.pc = "archive"]
  /\ UNCHANGED cs

CGNext == OpenArchive \/ ProcessRawQuery \/ SelectFiles \/ SearchFile \/ CloseArchive
CGSpec == CGInit /\ [][CGNext]_cgVars

(***************************************************************************)
(* Properties                                                              *)
(***************************************************************************)
\* A query without sub-queries is one that every message is compared with.
CGTypeOK ==
  /\ gp.pc \in {"archive", "query", "files", "done"} /\ gp.a \in 0 .. Len(cs.archives) /\ gp.i \in 0 .. Len(cs.strings)
  /\ \A k \in DOMAIN gp.queries : gp.queries[k].all <=> gp.queries[k].subs = {}

\* Wildcard strings whose search is settled: the known limits of the
\* heuristic are the words with a digit and a wildcard that could be a part of
\* a number or of several words (they are taken for dictionary variables), the
\* escaped backslash before a wildcard, and the placeholder characters.
Settled(w) ==
  LET limit(t) == t.middle \/ (t.wild /\ CouldBeFloat(t.value) /\ ~Converts(Inner(t.value)))
      limited(q) == \E p \in Range(PotentialVars(q, 1)) : p.isVar /\ limit(QueryToken(q, p))
  IN /\ Range(w) \cap Placeholders = {}
     /\ \A i \in 1 .. Len(w) - 1 : ~(w[i] = Escape /\ w[i + 1] = Escape)
     /\ ~limited(CleanUp(ReplaceUnescaped(w, AnyChar, Star)))

\* A string whose query is all stars takes the place of the other strings.
Supersedes(a, j) == ~Archives[a].schema /\ HeuristicSubQueries(a, SearchStrings[j], cs.ignoreCase).all

\* What a wildcard string matches by its definition.
SameText(t, w) == IF cs.ignoreCase THEN Matches(Lower(t), Lower(w)) ELSE Matches(t, w)

\* No message is missed: a message of an archive that is there, in the time
\* range, that matches one of the search strings, is printed, whichever of its
\* words are variables and however these are encoded.
FindsAllMatches ==
  gp.pc = "done" =>
    \A n \in DOMAIN cs.archives, k \in DOMAIN cs.strings :
      LET a == cs.archives[n]
      IN (~Archives[a].gone /\ (Archives[a].schema \/ Settled(SearchStrings[k])) /\ \A j \in DOMAIN cs.strings : j # k => ~Supersedes(a, j))
           => \A f \in DOMAIN Archives[a].files : \A i \in DOMAIN Archives[a].files[f].msgs :
                LET m == Archives[a].files[f].msgs[i]
                IN InWindow(m) /\ SameText(m.text, SearchStrings[k]) => <<n, f, i, k>> \in gp.out

\* Nothing else is printed, where the search string has no single-character
\* wildcard and no star before an escape: the decision is made on the logtype
\* when the string has no variable.
PrintsOnlyMatches ==
  \A o \in gp.out :
    LET m == Archives[cs.archives[o[1]]].files[o[2]].msgs[o[3]]
        w == SearchStrings[o[4]]
        exact == /\ AnyChar \notin Range(w)
                 /\ Range(w) \cap Placeholders = {}
                 /\ \A i \in 1 .. Len(w) - 1 : ~(w[i] \in {Star, Escape} /\ w[i + 1] = Escape)
    IN InWindow(m) /\ (exact => SameText(m.text, w))
=============================================================================
