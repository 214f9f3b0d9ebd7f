----------------------------- MODULE ClpsSearch -----------------------------
(***************************************************************************)
(* The search of one clp-s archive (search_archive): time conditions are   *)
(* added, the passes of SearchAst run, the range and timestamp indexes     *)
(* prune, SchemaMatch resolves the columns and gives every schema its own  *)
(* query, and Output scans the schemas left, each with the column-wise     *)
(* scan where its query allows it and row by row otherwise.                *)
(***************************************************************************)
EXTENDS SearchAst

CONSTANTS Archives,    \* the archives searched
          Options,     \* records [tge, tle, proj]: time bounds <<>> or <<t>>, projected paths
          Candidates,  \* pairs <<text, string>> the sub-queries of a CLP query select
          Junk         \* what an uninitialised int64 may hold

VARIABLES arch,    \* [nodes, tables, ranges, tsPath, tsRange, logOrder]
          opt, junk,
          sm,      \* what SchemaMatch leaves: [matched, queries]
          strs,    \* texts with an entry in m_string_query_map and m_string_var_match_map
          todo,    \* schemas still to scan
          out,     \* records reported, <<schema, row>>
          proj,    \* nodes the projection keeps
          status   \* "running", "error" (returned false), "threw", "done"

csVars == <<saVars, arch, opt, junk, sm, strs, todo, out, proj, status>>

NoStrs == [clp |-> {}, var |-> {}]
NoMatch == [matched |-> {}, queries |-> <<>>]
ExistOps == {"EXISTS", "NEXISTS"}
Schemas == 1 .. Len(arch.tables)
Node(n) == arch.nodes[n]
NodeIds == 1 .. Len(arch.nodes)
PureWildcard(col) == col.path = <<"*">>
IsUnresolved(col) == \E i \in 1 .. Len(col.path) : col.path[i] = "*"
ChildrenOf(n) == {c \in NodeIds : Node(c).parent = n}
Type(n) == IF n = 0 THEN "obj" ELSE Node(n).type

RECURSIVE KeyPath(_)
KeyPath(n) == IF n = 0 THEN <<>> ELSE Append(KeyPath(Node(n).parent), Node(n).key)

-----------------------------------------------------------------------------
(* AddTimestampConditions, and preprocess_query as one step. *)
TimeLiteral(t) == [NoLit EXCEPT !.bounds = <<t, t>>, !.num = t, !.ts = TRUE]
TimeConditions(e) ==
  LET col == Column(arch.tsPath, "")
      bound(b, op) == IF b = <<>> THEN <<>> ELSE <<Filter(col, op, TimeLiteral(b[1]), FALSE)>>
  IN  IF opt.tge = <<>> /\ opt.tle = <<>> THEN e
      ELSE IF arch.tsPath = <<>> THEN Empty
      ELSE And(bound(opt.tge, "GTE") \o bound(opt.tle, "LTE") \o <<e>>)

PreprocessQuery(e) ==
  LET exists(narrow) == IF narrow.k = "empty" THEN narrow ELSE ConvertToExists(narrow)
  IN  exists(NarrowTypes(OrOfAndForm(e), ids))

(* EvaluateRangeIndexFilters: the ranges of log events whose file metadata    *)
(* satisfies a filter, neighbours joined, become conditions on the log-event  *)
(* index.                                                                     *)
RangeSatisfies(e, range) ==
  \E f \in range.fields :
    /\ PathMatches(e.col.path, f.path) /\ f.v.t \in e.col.types
    /\ e.op = "EXISTS" \/ (Satisfies(e.op, e.lit, f.v) # e.inv)

Joined(ranges) ==
  FoldLeft(LAMBDA acc, r : IF acc # <<>> /\ Last(acc).to = r.from
                           THEN [acc EXCEPT ![Len(acc)].to = r.to] ELSE Append(acc, r),
           <<>>, ranges)

LogEventIdx == [path |-> <<"log_event_idx">>, ns |-> "meta", types |-> {"int"}]
IntLiteral(n) == [NoLit EXCEPT !.bounds = <<n, n>>, !.num = n]
RangeFilter(e) ==
  LET found == Joined(SelectSeq(arch.ranges, LAMBDA r : RangeSatisfies(e, r)))
  IN  IF found = <<>> THEN Empty
      ELSE Or([i \in 1 .. Len(found) |->
             And(<<Filter(LogEventIdx, "GTE", IntLiteral(found[i].from), FALSE),
                   Filter(LogEventIdx, "LT", IntLiteral(found[i].to), FALSE)>>)])

RECURSIVE RewriteRanges(_)
RewriteRanges(e) ==
  CASE Composite(e) -> [e EXCEPT !.ops = [i \in 1 .. Len(@) |-> RewriteRanges(@[i])]]
    [] e.k = "filter" /\ e.col.ns = "$" -> RangeFilter(e)
    [] OTHER -> e

EvaluateRangeIndex(e) ==
  IF \E l \in Leaves(e) : l.k = "filter" /\ l.col.ns = "$"
  THEN ConstantProp(OrOfAndForm(RewriteRanges(e))) ELSE e

(* EvaluateTimestampIndex: what the range of the timestamp column decides.    *)
(* TimestampEntry::evaluate_filter *)
\* Mutant: the end of the range is taken as exclusive.
EndIsExclusive(op, t, range) ==
  LET lo == range[1] hi == range[2]
      verdict(true, false) == CASE true -> "True" [] false -> "False" [] OTHER -> "Unknown"
  IN  CASE op = "EQ"  -> verdict(FALSE, t < lo \/ t >= hi)
        [] op = "LT"  -> verdict(t > hi, t <= lo)
        [] op = "LTE" -> verdict(t >= hi, t < lo)
        [] op = "GT"  -> verdict(t < lo, t >= hi)
        [] op = "GTE" -> verdict(t <= lo, t >= hi /\ t > lo)
        [] OTHER      -> "Unknown"
EvaluateEntry(op, t, range) ==
  LET lo == range[1] hi == range[2]
      verdict(true, false) == CASE true -> "True" [] false /\ ~true -> "False" [] OTHER -> "Unknown"
  IN  CASE op = "EQ"  -> verdict(FALSE, t < lo \/ t > hi)
        [] op = "NEQ" -> verdict(t < lo \/ t > hi, FALSE)
        [] op = "LT"  -> verdict(t > hi, t <= lo)
        [] op = "LTE" -> verdict(t >= hi, t < lo)
        [] op = "GT"  -> verdict(t < lo, t >= hi)
        [] op = "GTE" -> verdict(t <= lo, t > hi)
        [] OTHER      -> "Unknown"

Negated(v) == CASE v = "True" -> "False" [] v = "False" -> "True" [] OTHER -> v

RECURSIVE TimestampIndex(_)
TimestampIndex(e) ==
  LET sub == {TimestampIndex(e.ops[i]) : i \in 1 .. Len(e.ops)}
      int == AsInt(e.lit, e.op)
      v   == CASE e.k = "or"  -> IF "True" \in sub THEN "True" ELSE IF "Unknown" \in sub THEN "Unknown" ELSE "False"
               [] e.k = "and" -> IF "False" \in sub THEN "False" ELSE IF "Unknown" \in sub THEN "Unknown" ELSE "True"
               [] e.k = "filter" /\ e.col.types \cap {"int", "float", "ts"} # {} /\ ~IsUnresolved(e.col)
                    /\ arch.tsRange # <<>> /\ e.col.path = arch.tsPath /\ int # <<>> ->
                    EvaluateEntry(e.op, int[1], arch.tsRange)
               [] OTHER -> "Unknown"
  IN  IF e.inv THEN Negated(v) ELSE v

-----------------------------------------------------------------------------
(* SchemaMatch: the nodes a column resolves to.  Walk is the work list of     *)
(* populate_column_mapping, i the next token and n the node to try: a         *)
(* wildcard takes any number of nodes, a node without a name takes no token,  *)
(* and an unstructured array takes the tokens left (rest) to be searched      *)
(* inside it, whatever types the column matches.                              *)
Hit(top, depth, n, rest) == [top |-> top, depth |-> depth, node |-> n, rest |-> rest]

RECURSIVE Walk(_, _, _, _, _)
Walk(col, top, depth, i, n) ==
  LET key    == Node(n).key
      wild   == i <= Len(col.path) /\ col.path[i] = "*"
      next   == IF i <= Len(col.path) THEN i + 1 ELSE i
      atEnd  == next > Len(col.path)
      inside == Type(n) = "array" /\ ~IsUnresolved(col)
      down(j) == UNION {Walk(col, top, depth + 1, j, c) : c \in ChildrenOf(n)}
  IN  IF ~(wild \/ key = "" \/ (i <= Len(col.path) /\ col.path[i] = key)) THEN {}
      ELSE IF inside \/ (atEnd /\ Type(n) \in col.types)
      THEN {Hit(top, depth, n, IF inside THEN SubSeq(col.path, next, Len(col.path)) ELSE <<>>)}
      ELSE (IF ~atEnd /\ col.path[next] = "*" THEN Walk(col, top, depth, next, n) ELSE {})
             \cup (IF key = "" THEN down(i) ELSE down(next) \cup (IF wild THEN down(i) ELSE {}))

Hits(col) ==
  UNION {Walk(col, c, 0, 1, c) \cup (IF col.path[1] = "*" THEN Walk(col, c, 0, 2, c) ELSE {}) :
           c \in {n \in ChildrenOf(0) : Node(n).ns = col.ns}}

Resolves(col) ==
  IF PureWildcard(col) THEN \E n \in NodeIds : Type(n) \in col.types ELSE Hits(col) # {}

(* add_unresolved_tokens overwrites: the array visited last leaves its tokens. *)
After(h, g) == \/ h.top > g.top
               \/ h.top = g.top /\ h.depth > g.depth
               \/ h.top = g.top /\ h.depth = g.depth /\ h.node >= g.node
UnresolvedTokens(col) ==
  LET arrays == {h \in Hits(col) : Type(h.node) = "array" /\ ~IsUnresolved(col)}
  IN  IF PureWildcard(col) \/ arrays = {} THEN <<>>
      ELSE (CHOOSE h \in arrays : \A g \in arrays : After(h, g)).rest

(* A column with wildcards becomes one filter per node, with the node's path. *)
ByNode(e) ==
  LET nodes == SetToSortSeq({h.node : h \in Hits(e.col)}, <)
  IN  Or([i \in 1 .. Len(nodes) |->
        [e EXCEPT !.col = [path |-> KeyPath(nodes[i]), ns |-> e.col.ns, types |-> {Type(nodes[i])}]]])

RECURSIVE PopulateColumnMapping(_)
PopulateColumnMapping(e) ==
  CASE Composite(e) -> [e EXCEPT !.ops = [i \in 1 .. Len(@) |-> PopulateColumnMapping(@[i])]]
    [] e.k = "filter" /\ ~Resolves(e.col) -> Empty
    [] e.k = "filter" /\ Resolves(e.col) /\ IsUnresolved(e.col) /\ ~PureWildcard(e.col) -> ByNode(e)
    [] OTHER -> e

(* m_descriptor_to_schema: the first column of the schema a column resolved to. *)
ColumnIn(col, s) ==
  LET nodes == {h.node : h \in Hits(col)}
      i == SelectInSeq(arch.tables[s].cols, LAMBDA n : n \in nodes)
  IN  IF i = 0 THEN 0 ELSE arch.tables[s].cols[i]

(* intersect_schemas on a filter or an AND of filters: the schemas that have  *)
(* every column it needs and none that must not exist.                        *)
Filters(e) == {l \in Leaves(e) : l.k = "filter"}
CommonSchemas(e) ==
  IF Filters(e) = {} THEN {}
  ELSE {s \in Schemas : \A l \in Filters(e) :
          IF PureWildcard(l.col) THEN TRUE ELSE (ColumnIn(l.col, s) = 0) = (l.op = "NEXISTS")}

(* The column types that remain over those schemas. *)
NarrowTo(l, common) ==
  IF l.k # "filter" \/ PureWildcard(l.col) \/ (l.op \in ExistOps /\ UnresolvedTokens(l.col) = <<>>) THEN l
  ELSE [l EXCEPT !.col.types = {Type(ColumnIn(l.col, s)) : s \in {r \in common : ColumnIn(l.col, r) # 0}}]

Conjuncts(e) == IF e.k = "or" THEN e.ops ELSE <<e>>
IntersectAnd(e) ==
  LET common == CommonSchemas(e)
  IN  CASE common = {} -> Empty
        [] common # {} /\ e.k = "and" -> [e EXCEPT !.ops = [i \in 1 .. Len(@) |-> NarrowTo(@[i], common)]]
        [] OTHER -> NarrowTo(e, common)

(* split_expression_by_schema: each filter bound to its column of the schema. *)
BoundFilter(l, s) ==
  IF PureWildcard(l.col) THEN l @@ [id |-> 0, rest |-> <<>>]
  ELSE [l EXCEPT !.col.types = {Type(ColumnIn(l.col, s))}] @@ [id |-> ColumnIn(l.col, s), rest |-> UnresolvedTokens(l.col)]
SplitAnd(e, s) ==
  IF e.k = "and" THEN [e EXCEPT !.ops = [i \in 1 .. Len(@) |-> BoundFilter(@[i], s)]] ELSE BoundFilter(e, s)
SplitOr(conjuncts, s) ==
  LET ored(ops) == IF Len(ops) = 1 THEN ops[1] ELSE Or(ops)
      of(mine) == ored([i \in 1 .. Len(mine) |-> SplitAnd(mine[i], s)])
  IN  of(SelectSeq(conjuncts, LAMBDA c : s \in CommonSchemas(c)))

HasEmpty(e) == \E l \in Leaves(e) : l.k = "empty"

(* run: the columns resolved, wildcard columns written out per node and       *)
(* resolved again, then the schemas.  A conjunction with an empty operand     *)
(* still adds its schemas to m_matched_schema_ids.                            *)
FullyResolved(e) ==
  LET wild == \E l \in Filters(e) : IsUnresolved(l.col) /\ ~PureWildcard(l.col) /\ Hits(l.col) # {}
      again(once) == IF wild /\ once # Empty THEN PopulateColumnMapping(OrOfAndForm(once)) ELSE once
  IN  again(ConstantProp(PopulateColumnMapping(e)))
MatchedBy(isOr, parts, live) ==
  LET both(ops) == IF isOr THEN Or(ops) ELSE ops[1]
      found == UNION {CommonSchemas(live[i]) : i \in 1 .. Len(live)}
  IN  IF live = <<>> THEN [expr |-> Empty, m |-> NoMatch]
      ELSE [expr |-> both([i \in 1 .. Len(live) |-> IntersectAnd(live[i])]),
            m |-> [matched |-> UNION {CommonSchemas(parts[i]) : i \in 1 .. Len(parts)},
                   queries |-> [s \in found |-> SplitOr(live, s)]]]
IntersectSchemas(full, parts) ==
  MatchedBy(full.k = "or", parts, SelectSeq(parts, LAMBDA c : CommonSchemas(c) # {} /\ ~HasEmpty(c)))
MatchFull(full) == IntersectSchemas(full, Conjuncts(full))
SchemaMatchRun(e) == MatchFull(FullyResolved(e))

-----------------------------------------------------------------------------
(* QueryRunner.  populate_string_queries: the texts looked up in the          *)
(* dictionaries.  A text whose CLP query is known is not looked up as a       *)
(* variable any more.                                                         *)
PopulateOne(known, l) ==
  LET text == l.lit.text
  IN  CASE l.op \in ExistOps -> known
        [] l.op \notin ExistOps /\ "clp" \in l.col.types /\ text \in known.clp -> known
        [] OTHER -> [clp |-> IF "clp" \in l.col.types THEN known.clp \cup {text} ELSE known.clp,
                     var |-> IF "var" \in l.col.types THEN known.var \cup {text} ELSE known.var]
PopulateStringQueries(e) ==
  LET leavesOf(c) == IF Composite(c) THEN c.ops ELSE <<c>>
  IN  FoldLeft(PopulateOne, NoStrs, FlattenSeq([i \in 1 .. Len(Conjuncts(e)) |-> leavesOf(Conjuncts(e)[i])]))

Values(s, r, n) == {arch.tables[s].rows[r][j] : j \in {i \in 1 .. Len(arch.tables[s].cols) : arch.tables[s].cols[i] = n}}
VarMatches(text) == {v \in arch.vars : <<text, v>> \in StrMatches}
HasClpQuery(text) == \E v \in arch.logs : <<text, v>> \in Candidates

(* populate_searched_wildcard_columns *)
SearchedColumns(l, s) == {n \in ToSet(arch.tables[s].cols) : Type(n) \in l.col.types /\ Node(n).ns # "meta"}
RECURSIVE BindWildcards(_, _)
BindWildcards(e, s) ==
  IF Composite(e) THEN [e EXCEPT !.ops = [i \in 1 .. Len(@) |-> BindWildcards(@[i], s)]]
  ELSE IF PureWildcard(e.col) THEN [e EXCEPT !.col.types = {Type(n) : n \in SearchedColumns(e, s)}] ELSE e

(* constant_propagate: what the dictionaries decide of a schema's query, and  *)
(* the query without its decided operands; "threw" if a text was not looked   *)
(* up.                                                                        *)
Result(v, e) == [v |-> v, e |-> e]
Decided(e, v) == Result(IF e.inv THEN Negated(v) ELSE v, e)

(* No string of the archive matches. *)
Absent(l) ==
  CASE l.op = "EQ" -> Decided(l, "False") [] l.op = "NEQ" -> Decided(l, "True") [] OTHER -> Result("False", l)

PropagateWildcard(l) ==
  LET text  == l.lit.text
      clp   == "clp" \in l.col.types
      var   == "var" \in l.col.types
      hasC  == clp /\ HasClpQuery(text)
      hasV  == var /\ VarMatches(text) # {}
      kept  == [l EXCEPT !.col.types = @ \ ((IF hasC THEN {} ELSE {"clp"}) \cup (IF hasV THEN {} ELSE {"var"}))]
  IN  IF l.lit.str = {} \/ l.op \notin EqualityOps THEN Result("False", l)
      ELSE IF (clp /\ text \notin strs.clp) \/ (var /\ text \notin strs.var) THEN Result("threw", l)
      ELSE IF l.op = "NEQ"
      THEN IF (clp /\ ~hasC) \/ (var /\ ~hasV) THEN Decided(l, "True") ELSE Result("Unknown", l)
      ELSE IF kept.col.types = {} THEN Decided(kept, "False") ELSE Result("Unknown", kept)

PropagateFilter(l) ==
  LET text == l.lit.text
  IN  CASE l.op \in ExistOps /\ (l.rest = <<>> \/ l.col.types # {"array"}) -> Result("True", l)
        [] ~(l.op \in ExistOps /\ (l.rest = <<>> \/ l.col.types # {"array"})) /\ PureWildcard(l.col)
             /\ l.col.types \cap {"clp", "var"} # {} -> PropagateWildcard(l)
        [] l.op \notin ExistOps /\ ~PureWildcard(l.col) /\ "clp" \in l.col.types ->
             IF text \notin strs.clp THEN Result("threw", l)
             ELSE IF HasClpQuery(text) THEN Result("Unknown", l) ELSE Absent(l)
        [] l.op \notin ExistOps /\ ~PureWildcard(l.col) /\ "var" \in l.col.types ->
             IF text \notin strs.var THEN Result("threw", l)
             ELSE IF VarMatches(text) # {} THEN Result("Unknown", l) ELSE Absent(l)
        [] OTHER -> Result("Unknown", l)

(* An OR stops at an operand that is True, an AND at one that is False; an    *)
(* AND that is left has the value Unknown even if nothing remains of it.      *)
RECURSIVE Propagate(_)
Propagate(e) ==
  LET sub  == [i \in 1 .. Len(e.ops) |-> Propagate(e.ops[i])]
      stop == IF e.k = "or" THEN "True" ELSE "False"
      first == SelectInSeq(sub, LAMBDA r : r.v \in {stop, "threw"})
      left == SelectSeq(sub, LAMBDA r : r.v = "Unknown")
  IN  CASE e.k = "filter" -> PropagateFilter(e)
        [] e.k # "filter" /\ first # 0 -> Result(sub[first].v, e)
        [] e.k = "or" /\ first = 0 /\ left = <<>> -> Result("False", e)
        [] OTHER -> Result("Unknown", [e EXCEPT !.ops = [i \in 1 .. Len(left) |-> left[i].e]])

(* evaluate_*_filter on one row.  An array cell is a set of leaves            *)
(* [path, v]; its items are compared by eval(), which knows == and !=, and a  *)
(* number the literal cannot be is compared with an uninitialised value.      *)
Eval(op, a, b) == IF op = "EQ" THEN a = b ELSE a # b
ItemMatches(op, lit, number, v) ==
  LET int == AsInt(lit, op)
  IN  CASE v.t = "var"   -> op = "EQ" /\ lit.str # {} /\ <<lit.text, v.x>> \in StrMatches
        [] v.t = "float" -> number /\ Eval(op, v.x, lit.num)
        [] v.t = "int"   -> number /\ Eval(op, v.x, IF int = <<>> THEN junk ELSE int[1])
        [] v.t = "bool"  -> AsBool(lit, op) /\ Eval(op, v.x, lit.bool)
        [] OTHER         -> AsNull(lit, op) /\ op = "EQ"
EvaluateArray(l, cell) ==
  IF l.op \in ExistOps THEN l.op = "EXISTS" /\ l.rest # <<>> /\ \E f \in cell.x : IsPrefix(l.rest, f.path)
  ELSE \E f \in cell.x : /\ f.path = l.rest \/ (f.v.t = "null" /\ IsPrefix(f.path, l.rest))
                         /\ ItemMatches(l.op, l.lit, AsFloat(l.lit) \/ AsInt(l.lit, l.op) # <<>>, f.v)
EvaluateValue(l, t, v) ==
  CASE t = "clp"   -> l.op \in EqualityOps /\ (l.op = "EQ") = (<<l.lit.text, v.x>> \in Candidates \cap StrMatches)
    [] t = "var"   -> l.op \in EqualityOps /\ (l.op = "EQ") = (v.x \in VarMatches(l.lit.text))
    [] t = "array" -> EvaluateArray(l, v)
    [] t = "ts"    -> LET n == AsInt(l.lit, l.op) IN n # <<>> /\ Compare(l.op, v.x, n[1])
    [] t = "null"  -> FALSE
    [] OTHER       -> Satisfies(l.op, l.lit, v)
EvaluateWildcardValue(l, t, v) ==
  IF t # "array" THEN EvaluateValue(l, t, v)
  ELSE \E f \in v.x : ItemMatches(l.op, l.lit, "float" \in l.col.types, f.v)
RowFilter(l, s, r) ==
  IF PureWildcard(l.col)
  THEN \E n \in SearchedColumns(l, s) : \E v \in Values(s, r, n) : EvaluateWildcardValue(l, Type(n), v)
  ELSE \E v \in Values(s, r, l.id) : EvaluateValue(l, Type(l.id), v)

RECURSIVE RowMatches(_, _, _)
RowMatches(e, s, r) ==
  e.inv # CASE e.k = "and" -> \A i \in 1 .. Len(e.ops) : RowMatches(e.ops[i], s, r)
            [] e.k = "or"  -> \E i \in 1 .. Len(e.ops) : RowMatches(e.ops[i], s, r)
            [] OTHER       -> RowFilter(e, s, r)

-----------------------------------------------------------------------------
(* ColumnScan: the rows of a table that match, a column at a time. *)
CanBuildFilter(l) ==
  /\ l.k = "filter" /\ ~IsUnresolved(l.col) /\ l.rest = <<>>
  /\ \/ l.op \in ExistOps
     \/ l.col.types \subseteq {"int", "float", "ts"}
     \/ l.col.types \subseteq {"bool", "clp", "var"} /\ l.op \in EqualityOps
CanBuild(e) == \A l \in Leaves(e) : CanBuildFilter(l)

BuildFilter(l, s) ==
  LET rows    == 1 .. Len(arch.tables[s].rows)
      readers == {j \in 1 .. Len(arch.tables[s].cols) : arch.tables[s].cols[j] = l.id}
      column(j) == {r \in rows : EvaluateValue(l, Type(l.id), arch.tables[s].rows[r][j])}
  IN  IF l.op \in ExistOps THEN rows ELSE UNION {column(j) : j \in readers}

RECURSIVE BuildNode(_, _)
BuildNode(e, s) ==
  LET rows == 1 .. Len(arch.tables[s].rows)
      sub  == {BuildNode(e.ops[i], s) : i \in 1 .. Len(e.ops)}
      set  == CASE e.k = "and" -> {r \in rows : \A b \in sub : r \in b}
                [] e.k = "or"  -> UNION sub
                [] OTHER       -> BuildFilter(e, s)
  IN  IF e.inv THEN rows \ set ELSE set

-----------------------------------------------------------------------------
(* Projection::resolve_column: down the objects, one child per token. *)
ObjectChild(n, key) ==
  LET found == {c \in ChildrenOf(n) : Node(c).key = key /\ Type(c) = "obj" /\ Node(c).ns = ""}
  IN  IF found = {} THEN 0 ELSE CHOOSE c \in found : \A d \in found : c <= d
ResolveProjected(path) ==
  LET parent == FoldLeft(LAMBDA n, key : IF n < 0 THEN n ELSE IF ObjectChild(n, key) = 0 THEN -1 ELSE ObjectChild(n, key),
                         0, Front(path))
  IN  IF parent < 0 THEN {}
      ELSE {c \in ChildrenOf(parent) : Node(c).key = Last(path) /\ Type(c) \in AllTypes /\ Node(c).ns # "meta"}

-----------------------------------------------------------------------------
(* search_archive, a pass at a time. *)
CSInit ==
  /\ SAInit
  /\ arch \in Archives /\ opt \in Options /\ junk \in Junk
  /\ sm = NoMatch /\ strs = NoStrs /\ todo = {} /\ out = {} /\ proj = {}
  /\ status = "running"

Parse ==
  /\ ParseKqlExpression
  /\ status' = IF expr' = Null THEN "error" ELSE status
  /\ UNCHANGED <<arch, opt, junk, sm, strs, todo, out, proj>>

Step(from, to, e, final) ==
  /\ pass = from /\ status = "running"
  /\ expr' = e
  /\ pass' = to
  /\ status' = IF e.k = "empty" THEN final ELSE status
  /\ UNCHANGED <<query, ids, arch, opt, junk, strs, out>>

AddTimestampConditions == Step("parsed", "timed", TimeConditions(expr), "error") /\ UNCHANGED <<sm, todo, proj>>
Preprocess == Step("timed", "ready", PreprocessQuery(expr), "error") /\ UNCHANGED <<sm, todo, proj>>
EvaluateRangeIndexFilters == Step("ready", "ranged", EvaluateRangeIndex(expr), "done") /\ UNCHANGED <<sm, todo, proj>>

EvaluateTimestampIndex ==
  /\ pass = "ranged" /\ status = "running"
  /\ pass' = "indexed"
  /\ status' = IF TimestampIndex(expr) = "False" THEN "done" ELSE status
  /\ UNCHANGED <<query, ids, expr, arch, opt, junk, sm, strs, todo, out, proj>>

MatchSchemas ==
  LET matched(r) ==
        /\ Step("indexed", "matched", r.expr, "done")
        /\ sm' = r.m
        /\ proj' = IF r.expr = Empty THEN {} ELSE UNION {ResolveProjected(p) : p \in opt.proj}
  IN  matched(SchemaMatchRun(expr)) /\ UNCHANGED todo

(* Output::filter up to its loop: the timestamp index again, now that columns *)
(* have their types, and the dictionaries.                                    *)
StartFilter ==
  /\ pass = "matched" /\ status = "running"
  /\ pass' = "scanning"
  /\ todo' = sm.matched
  /\ strs' = PopulateStringQueries(expr)
  /\ status' = IF TimestampIndex(expr) = "False" THEN "done" ELSE status
  /\ UNCHANGED <<query, ids, expr, arch, opt, junk, sm, out, proj>>

(* One schema: schema_init, prepare_filter and the rows it lets through. *)
Matching(s, plan) ==
  LET rows == 1 .. Len(arch.tables[s].rows)
  IN  CASE plan.v = "True"    -> rows
        [] plan.v = "Unknown" -> IF CanBuild(plan.e) THEN BuildNode(plan.e, s)
                                 ELSE {r \in rows : RowMatches(plan.e, s, r)}
        [] OTHER              -> {}
Plan(s) ==
  IF s \notin DOMAIN sm.queries THEN Result("threw", Empty)
  ELSE Propagate(BindWildcards(sm.queries[s], s))

ScanSchema(s) ==
  /\ pass = "scanning" /\ status = "running" /\ s \in todo /\ \A t \in todo : s <= t
  /\ LET plan == Plan(s)
     IN  /\ status' = IF plan.v = "threw" THEN "threw" ELSE IF todo = {s} THEN "done" ELSE status
         /\ out' = out \cup {<<s, r>> : r \in Matching(s, plan)}
  /\ todo' = todo \ {s}
  /\ UNCHANGED <<query, ids, expr, pass, arch, opt, junk, sm, strs, proj>>

CSNext ==
  \/ Parse \/ AddTimestampConditions \/ Preprocess \/ EvaluateRangeIndexFilters
  \/ EvaluateTimestampIndex \/ MatchSchemas \/ StartFilter
  \/ \E s \in Schemas : ScanSchema(s)

CSSpec == CSInit /\ [][CSNext]_csVars

-----------------------------------------------------------------------------
(* What the query asks of a record: the meaning of the preprocessed query on  *)
(* the record's values and on the metadata of its file.                       *)
Named(path) == SelectSeq(path, LAMBDA key : key # "")
RECURSIVE Namespace(_)
Namespace(n) == IF Node(n).parent = 0 THEN Node(n).ns ELSE Namespace(Node(n).parent)
Cells(s, r) ==
  LET own == {[path |-> Named(KeyPath(arch.tables[s].cols[j])), ns |-> Namespace(arch.tables[s].cols[j]),
               v |-> arch.tables[s].rows[r][j]] : j \in 1 .. Len(arch.tables[s].cols)}
      idx == {c.v.x : c \in {d \in own : d.ns = "meta"}}
  IN  own \cup UNION {{[path |-> f.path, ns |-> "$", v |-> f.v] : f \in g.fields} :
                        g \in {h \in ToSet(arch.ranges) : \E i \in idx : h.from <= i /\ i < h.to}}

ValueMeans(l, v) ==
  CASE v.t = "ts"   -> LET n == AsInt(l.lit, l.op) IN n # <<>> /\ Compare(l.op, v.x, n[1])
    [] v.t = "null" -> AsNull(l.lit, l.op)
    [] OTHER        -> Satisfies(l.op, l.lit, v)
ItemMeans(l, v) ==
  IF v.t = "var" THEN l.op = "EQ" /\ l.lit.str # {} /\ <<l.lit.text, v.x>> \in StrMatches ELSE ValueMeans(l, v)

LeafMeans(l, cells) ==
  LET any    == PureWildcard(l.col) /\ l.col.ns # "$"
      mine   == {c \in cells : IF any THEN c.ns \notin {"$", "meta"} ELSE c.ns = l.col.ns}
      direct == {c \in mine : c.v.t \in l.col.types \ {"array"} /\ PathMatches(l.col.path, c.path)}
      arrays == {c \in mine : c.v.t = "array" /\ IF IsUnresolved(l.col)
                                                 THEN "array" \in l.col.types /\ PathMatches(l.col.path, c.path)
                                                 ELSE IsPrefix(c.path, l.col.path)}
      rest(c) == IF IsUnresolved(l.col) THEN <<>> ELSE SubSeq(l.col.path, Len(c.path) + 1, Len(l.col.path))
      exists == direct # {} \/ \E c \in arrays : rest(c) = <<>> \/ \E f \in c.v.x : IsPrefix(rest(c), f.path)
      holds  == \/ \E c \in direct : ValueMeans(l, c.v)
                \/ \E c \in arrays : \E f \in c.v.x : (any \/ f.path = rest(c)) /\ ItemMeans(l, f.v)
  IN  CASE l.op = "EXISTS"  -> exists
        [] l.op = "NEXISTS" -> ~exists
        [] OTHER -> (any \/ direct \cup arrays # {}) /\ holds # l.inv

RECURSIVE RecordMeans(_, _)
RecordMeans(e, cells) ==
  CASE e.k = "and"    -> \A i \in 1 .. Len(e.ops) : RecordMeans(e.ops[i], cells)
    [] e.k = "or"     -> \E i \in 1 .. Len(e.ops) : RecordMeans(e.ops[i], cells)
    [] e.k = "filter" -> LeafMeans(e, cells)
    [] OTHER          -> FALSE

(* The filters whose answer the code and the documentation leave no doubt     *)
(* about.  Not among them: a column that a NOT or a key without wildcards     *)
(* finds twice in a record, and what the README lists under known limits:     *)
(* comparisons inside arrays other than equality of what the literal can be,  *)
(* a missing key that no record of the archive has, a wildcard that leads     *)
(* through the objects of a structured array or a key that its nameless items *)
(* answer to, and another kind of value under the timestamp key.              *)
HitsIn(l, s) == {h \in Hits(l.col) : h.node \in ToSet(arch.tables[s].cols)}
ArraySettled(l) ==
  LET arrays == {h \in Hits(l.col) : Type(h.node) = "array"}
  IN  arrays = {} \/ (l.op \in {"EQ", "EXISTS"} /\ ~l.lit.null /\ (l.op = "EQ" => AsInt(l.lit, l.op) # <<>> \/ ~AsFloat(l.lit)))
Settled(l) ==
  CASE l.col.ns = "$" -> l.op # "NEXISTS" /\ (\A g \in ToSet(arch.ranges) : Cardinality(g.fields) <= 1) /\ arch.logOrder
    [] PureWildcard(l.col) /\ l.col.ns # "$" ->
         l.op \notin ExistOps /\ (AsFloat(l.lit) => \A n \in NodeIds : Type(n) # "array")
    [] OTHER ->
         /\ \A s \in Schemas : Cardinality({h.node : h \in HitsIn(l, s)}) <= 1 \/ (IsUnresolved(l.col) /\ ~l.inv)
         /\ ArraySettled(l)
         /\ l.op = "NEXISTS" => Hits(l.col) # {} /\ ~IsUnresolved(l.col) /\ \A h \in Hits(l.col) : Type(h.node) # "array"
         /\ IsUnresolved(l.col) => \A h \in Hits(l.col) : \A i \in 1 .. Len(KeyPath(h.node)) - 1 : KeyPath(h.node)[i] # ""
         /\ \A h \in Hits(l.col) : Type(h.node) = "array" \/ PathMatches(l.col.path, Named(KeyPath(h.node)))
         /\ l.col.path = arch.tsPath => l.col.ns = "" /\ \A h \in Hits(l.col) : Type(h.node) = "ts"

Asked == PreprocessQuery(TimeConditions(Visit(query)))

(* A finished search has reported exactly the records the query asks for:     *)
(* neither the range index, the timestamp index (before or after the columns  *)
(* have types), the choice of schemas, the dictionaries nor the scan drops or *)
(* adds one.                                                                  *)
ResultsAreMeaning ==
  LET reported(asked) ==
        (\A l \in Leaves(asked) : l.k = "filter" => Settled(l)) =>
          \A s \in Schemas : \A r \in 1 .. Len(arch.tables[s].rows) :
            (<<s, r>> \in out) = RecordMeans(asked, Cells(s, r))
  IN  status = "done" => reported(Asked)

(* Wherever the column-wise scan is used it selects the rows that the         *)
(* row-by-row evaluation of the same query would.                             *)
ScanIsRowEvaluation ==
  pass = "scanning" /\ status = "running" =>
    \A s \in todo : Plan(s).v = "Unknown" /\ CanBuild(Plan(s).e) =>
       BuildNode(Plan(s).e, s) = {r \in 1 .. Len(arch.tables[s].rows) : RowMatches(Plan(s).e, s, r)}

(* The projection keeps exactly the nodes at the projected paths, of any type *)
(* a value can have.                                                          *)
ProjectionIsPaths ==
  pass = "matched" /\ status = "running" =>
    proj = {n \in NodeIds : Type(n) \in AllTypes /\ Namespace(n) = "" /\ KeyPath(n) \in opt.proj}

(* A search that throws does so because two filters share a text and the      *)
(* later one's column has both string types, so that the text was never       *)
(* looked up as a variable, or because a conjunction whose wildcard column    *)
(* could not be resolved again left its schemas behind without a query.       *)
ThrowsOnlyIfKnown ==
  status = "threw" =>
    \/ \E l \in Leaves(expr), m \in Leaves(expr) :
         l # m /\ l.lit.text = m.lit.text /\ {"clp", "var"} \subseteq m.col.types \cup l.col.types
    \/ sm.matched # DOMAIN sm.queries

=============================================================================
