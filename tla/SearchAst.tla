----------------------------- MODULE SearchAst -----------------------------
(***************************************************************************)
(* A KQL query from its parse tree to the expression the search runs: the  *)
(* visitor of kql.cpp, then preprocess_query with its passes OrOfAndForm,  *)
(* NarrowTypes, ConstantProp and ConvertToExists.  The passes rewrite the  *)
(* expression in place; here each is a function from expressions to        *)
(* expressions.  A literal is the record of what its as_*() calls answer.  *)
(***************************************************************************)
EXTENDS Integers, Sequences, FiniteSets, SequencesExt

CONSTANTS StrMatches,   \* pairs <<literal text, string>> that wildcard_match accepts
          Queries,      \* the parse trees tried
          Events,       \* the log events they are asked about
          MIds          \* what comparing two unset m_id fields may give

VARIABLES query,   \* the parse tree
          ids,     \* the outcome of those comparisons
          expr,    \* the expression
          pass     \* the last pass that ran

saVars == <<query, ids, expr, pass>>

AllTypes == {"int", "float", "clp", "var", "bool", "array", "null", "ts"}
NoCol == [path |-> <<>>, ns |-> "", types |-> {}]
NoLit == [text |-> "", any |-> FALSE, null |-> FALSE, str |-> {}, bounds |-> <<>>, num |-> 0,
          bool |-> "none", ts |-> FALSE]

EqualityOps == {"EQ", "NEQ"}

(* ValueLiteral::as_*: under which operation a literal may be read as a type. *)
AsString(l, t, op) == op \in EqualityOps /\ t \in l.str
AsFloat(l) == l.bounds # <<>> \/ l.ts
AsInt(l, op) ==
  CASE l.bounds = <<>> -> <<>>
    [] op \in {"LT", "GTE"} -> <<l.bounds[2]>>
    [] op \in {"GT", "LTE"} -> <<l.bounds[1]>>
    [] OTHER -> IF l.bounds[1] = l.bounds[2] THEN <<l.bounds[1]>> ELSE <<>>
AsBool(l, op) == op \in EqualityOps /\ l.bool # "none"
AsNull(l, op) == op \in EqualityOps /\ l.null
AsAny(l, op)  == op \in EqualityOps /\ l.any

And(ops) == [k |-> "and", inv |-> FALSE, ops |-> ops, col |-> NoCol, op |-> "", lit |-> NoLit]
Or(ops)  == [And(ops) EXCEPT !.k = "or"]
Filter(col, op, lit, inv) == [k |-> "filter", inv |-> inv, ops |-> <<>>, col |-> col, op |-> op, lit |-> lit]
Empty == [And(<<>>) EXCEPT !.k = "empty"]
Null == [And(<<>>) EXCEPT !.k = "nullptr"]
Composite(e) == e.k \in {"and", "or"}
Invert(e) == [e EXCEPT !.inv = ~@]
Column(path, ns) == [path |-> path, ns |-> ns, types |-> AllTypes]

-----------------------------------------------------------------------------
(* kql.cpp: the visitor.  A parse tree is a record                           *)
(*   [k |-> "not" | "and" | "or" | "nested" | "list" | "value" | "filter"]   *)
(* simplify_descriptor_wildcards: a run of wildcards counts once. *)
SimplifyWildcards(path) ==
  FoldLeft(LAMBDA acc, t : IF t = "*" /\ acc # <<>> /\ Last(acc) = "*" THEN acc ELSE Append(acc, t),
           <<>>, path)

RECURSIVE Prepend(_, _)
Prepend(e, prefix) ==
  IF Composite(e) THEN [e EXCEPT !.ops = [i \in 1 .. Len(e.ops) |-> Prepend(e.ops[i], prefix)]]
  ELSE [e EXCEPT !.col.path = SimplifyWildcards(prefix.path \o @), !.col.ns = prefix.ns]

RECURSIVE HasNamespace(_)
HasNamespace(e) ==
  IF Composite(e) THEN \E i \in 1 .. Len(e.ops) : HasNamespace(e.ops[i]) ELSE e.col.ns # ""

(* visitList_of_values: the column is put in front of every value of the list. *)
VisitList(t) ==
  LET filters == [i \in 1 .. Len(t.lits) |-> Filter(Column(t.path, t.ns), "EQ", t.lits[i], t.cond = "not")]
  IN  IF t.cond \in {"and", "not"} THEN And(filters) ELSE Or(filters)

RECURSIVE Visit(_)
Visit(t) ==
  CASE t.k = "filter" -> Filter(Column(t.path, t.ns), t.op, t.lits[1], FALSE)
    [] t.k = "value"  -> Filter(Column(<<"*">>, ""), "EQ", t.lits[1], FALSE)
    [] t.k = "list"   -> VisitList(t)
    [] t.k = "not"    -> LET q == Visit(t.q[1]) IN IF q = Null THEN Null ELSE Invert(q)
    [] t.k = "nested" -> LET q == Visit(t.q[1])
                         IN  IF q = Null \/ HasNamespace(q) THEN Null
                             ELSE Prepend(q, [path |-> t.path, ns |-> t.ns])
    [] OTHER          -> LET l == Visit(t.q[1])
                             r == Visit(t.q[2])
                         IN  IF Null \in {l, r} THEN Null
                             ELSE IF t.k = "and" THEN And(<<l, r>>) ELSE Or(<<l, r>>)

-----------------------------------------------------------------------------
(* OrOfAndForm *)
RECURSIVE Unwrap(_)
Unwrap(e) ==
  IF Composite(e) /\ Len(e.ops) = 1
  THEN Unwrap(IF e.inv THEN Invert(e.ops[1]) ELSE e.ops[1])
  ELSE e

DeMorgan(e) ==
  IF Composite(e)
  THEN [e EXCEPT !.k = IF @ = "and" THEN "or" ELSE "and", !.inv = ~@,
                 !.ops = [i \in 1 .. Len(@) |-> Invert(@[i])]]
  ELSE e

(* Operands of the operands of kind k, each spliced in at the front, and the rest. *)
Spliced(ops, k) ==
  FoldLeft(LAMBDA front, o : IF o.k = k THEN o.ops \o front ELSE front, <<>>, ops)
    \o SelectSeq(ops, LAMBDA o : o.k # k)

SimplifyOr(e) == [e EXCEPT !.ops = Spliced(@, "or")]

(* insert_all_combinations: one AND for every choice of an operand from each OR. *)
RECURSIVE Combinations(_, _)
Combinations(ors, prefix) ==
  IF ors = <<>> THEN <<prefix>>
  ELSE FlattenSeq([i \in 1 .. Len(ors[1].ops) |->
         LET o == ors[1].ops[i]
         IN  Combinations(Tail(ors), prefix \o (IF o.k = "and" THEN o.ops ELSE <<o>>))])

SimplifyAnd(e) ==
  LET flat == Spliced(e.ops, "and")
      ors  == SelectSeq(flat, LAMBDA o : o.k = "or")
      base == SelectSeq(flat, LAMBDA o : o.k # "or")
      all  == Combinations(ors, base)
  IN  IF ors = <<>> THEN [e EXCEPT !.ops = flat]
      ELSE Or([i \in 1 .. Len(all) |-> And(all[i])])

RECURSIVE Simplify(_)
Simplify(e) ==
  LET child(c) == LET u == Unwrap(IF c.inv THEN DeMorgan(c) ELSE c)
                  IN  IF Composite(u) THEN Simplify(u) ELSE u
      f == [e EXCEPT !.ops = [i \in 1 .. Len(@) |-> child(@[i])]]
  IN  IF f.k = "or" THEN SimplifyOr(f) ELSE SimplifyAnd(f)

OrOfAndForm(e) ==
  LET u == Unwrap(e)
      d == IF u.inv THEN DeMorgan(u) ELSE u
  IN  IF Composite(d) THEN Simplify(d) ELSE d

-----------------------------------------------------------------------------
(* ConstantProp *)
RECURSIVE ConstantProp(_)
ConstantProp(e) ==
  LET sub == [i \in 1 .. Len(e.ops) |-> ConstantProp(e.ops[i])]
  IN  CASE e.k = "or"  -> LET left == SelectSeq(sub, LAMBDA o : o.k # "empty")
                          IN  IF left = <<>> THEN Empty ELSE [e EXCEPT !.ops = left]
        [] e.k = "and" -> IF \E i \in 1 .. Len(sub) : sub[i].k = "empty" THEN Empty
                          ELSE [e EXCEPT !.ops = sub]
        [] OTHER -> e

(* NarrowTypes: the types a filter of this operation and literal can match. *)
NarrowedTypes(e) ==
  IF AsAny(e.lit, e.op) THEN e.col.types
  ELSE {t \in e.col.types :
          CASE t \in {"clp", "var"} -> AsString(e.lit, t, e.op)
            [] t = "int"   -> AsInt(e.lit, e.op) # <<>>
            [] t = "float" -> AsFloat(e.lit)
            [] t = "bool"  -> AsBool(e.lit, e.op)
            [] t = "array" -> AsString(e.lit, "var", e.op) \/ AsString(e.lit, "clp", e.op)
            [] t = "null"  -> AsNull(e.lit, e.op)
            [] OTHER       -> e.lit.ts}

(* ColumnDescriptor::operator== also compares m_id, which nothing has set when *)
(* this pass runs: idsEqual says what the two reads happened to give.  It does *)
(* not compare the namespace.                                                  *)
SameDescriptor(c, d, idsEqual) == c.path = d.path /\ c.types = d.types /\ idsEqual

(* The expression a filter becomes, and m_local_exists_descriptors after it. *)
NarrowFilter(e, seen, idsEqual) ==
  LET types   == NarrowedTypes(e)
      both    == {"clp", "var"} \subseteq e.col.types
      lost    == {"clp", "var"} \ types
      notEq   == \/ e.inv /\ e.op = "EQ"
                 \/ ~e.inv /\ e.op = "NEQ"
      narrow  == [e EXCEPT !.col.types = types]
      exists  == [e.col EXCEPT !.types = lost]
  IN  CASE e.op \in {"EXISTS", "NEXISTS"} -> [e |-> e, seen |-> seen]
        [] types = {} -> [e |-> Empty, seen |-> seen]
        [] /\ types # {} /\ notEq /\ both /\ Cardinality(lost) = 1
           /\ ~\E i \in 1 .. Len(seen) : SameDescriptor(seen[i], exists, idsEqual) ->
             [e |-> Or(<<narrow, Filter(exists, "EXISTS", NoLit, FALSE)>>), seen |-> Append(seen, exists)]
        [] OTHER -> [e |-> narrow, seen |-> seen]

(* narrow: an operand that became another expression asks for renormalizing. *)
RECURSIVE Narrow(_, _, _)
Narrow(e, seen, idsEqual) ==
  IF e.k = "filter" THEN NarrowFilter(e, seen, idsEqual) @@ [again |-> FALSE]
  ELSE LET step(acc, o) ==
             LET r == Narrow(o, acc.seen, idsEqual)
             IN  [ops |-> Append(acc.ops, r.e), seen |-> r.seen,
                  again |-> acc.again \/ r.again \/ (o.k = "filter" /\ r.e.k # "filter")]
           all == FoldLeft(step, [ops |-> <<>>, seen |-> seen, again |-> FALSE], e.ops)
       IN  [e |-> [e EXCEPT !.ops = all.ops], seen |-> <<>>, again |-> all.again]

NarrowTypes(e, idsEqual) ==
  LET r == Narrow(e, <<>>, idsEqual)
  IN  ConstantProp(IF r.again THEN OrOfAndForm(r.e) ELSE r.e)

(* ConvertToExists *)
ConvertFilter(e) ==
  LET only(types) == [e.col EXCEPT !.types = @ \cap types]
      exists == e.op = IF e.inv THEN "NEQ" ELSE "EQ"
      some(col, f) == IF col.types = {} THEN Empty ELSE f
      nonNull == IF "null" \in e.col.types THEN [e.col EXCEPT !.types = AllTypes \ {"null"}]
                 ELSE e.col
  IN  CASE e.op \in {"EXISTS", "NEXISTS"} ->
             IF ~e.inv THEN e
             ELSE Filter(e.col, IF e.op = "EXISTS" THEN "NEXISTS" ELSE "EXISTS", NoLit, FALSE)
        [] AsAny(e.lit, e.op) -> Filter(e.col, IF exists THEN "EXISTS" ELSE "NEXISTS", NoLit, FALSE)
        [] AsNull(e.lit, e.op) /\ exists ->
             Or(<<some(only({"null"}), Filter(only({"null"}), "EXISTS", NoLit, FALSE)),
                  some(only({"array", "clp", "var"}),
                       Filter(only({"array", "clp", "var"}), "EQ", e.lit, FALSE))>>)
        [] AsNull(e.lit, e.op) -> some(nonNull, Filter(nonNull, "EXISTS", NoLit, FALSE))
        [] OTHER -> e

RECURSIVE Leaves(_)
Leaves(e) ==
  IF Composite(e) THEN UNION {Leaves(e.ops[i]) : i \in 1 .. Len(e.ops)} ELSE {e}

RECURSIVE Convert(_)
Convert(e) ==
  CASE Composite(e)    -> [e EXCEPT !.ops = [i \in 1 .. Len(@) |-> Convert(@[i])]]
    [] e.k = "filter"  -> ConvertFilter(e)
    [] OTHER           -> e

(* m_needs_standard_form and m_needs_constant_prop, set by the filters converted. *)
ConvertToExists(e) ==
  LET became == {ConvertFilter(l) : l \in {x \in Leaves(e) : x.k = "filter"}}
      form   == IF \E n \in became : n.k = "or" THEN OrOfAndForm(Convert(e)) ELSE Convert(e)
  IN  IF \E n \in became : Empty \in {n} \cup ToSet(n.ops) THEN ConstantProp(form) ELSE form

-----------------------------------------------------------------------------
(* preprocess_query, a pass at a time; a null or empty expression ends it. *)
SAInit ==
  /\ query \in Queries
  /\ ids \in MIds
  /\ expr = Null
  /\ pass = "none"

ParseKqlExpression ==
  /\ pass = "none"
  /\ expr' = Visit(query)
  /\ pass' = IF expr' = Null THEN "done" ELSE "parsed"
  /\ UNCHANGED <<query, ids>>

Standardize ==
  /\ pass = "parsed"
  /\ expr' = OrOfAndForm(expr)
  /\ pass' = "normal"
  /\ UNCHANGED <<query, ids>>

RunNarrowTypes ==
  /\ pass = "normal"
  /\ expr' = NarrowTypes(expr, ids)
  /\ pass' = IF expr' = Empty THEN "done" ELSE "narrowed"
  /\ UNCHANGED <<query, ids>>

RunConvertToExists ==
  /\ pass = "narrowed"
  /\ expr' = ConvertToExists(expr)
  /\ pass' = "done"
  /\ UNCHANGED <<query, ids>>

SANext == ParseKqlExpression \/ Standardize \/ RunNarrowTypes \/ RunConvertToExists

SASpec == SAInit /\ [][SANext]_saVars

-----------------------------------------------------------------------------
(* What a query asks of a log event, which is a set of leaves [path, ns, v].  *)
RECURSIVE PathMatches(_, _)
PathMatches(pattern, path) ==
  CASE pattern = <<>>    -> path = <<>>
    [] pattern # <<>> /\ pattern[1] = "*" ->
         \/ PathMatches(Tail(pattern), path)
         \/ path # <<>> /\ PathMatches(pattern, Tail(path))
    [] OTHER -> path # <<>> /\ pattern[1] = path[1] /\ PathMatches(Tail(pattern), Tail(path))

ColumnLeaves(col, ev) ==
  {f \in ev : /\ f.v.t \in col.types
              /\ IF col.path = <<"*">> THEN TRUE ELSE f.ns = col.ns /\ PathMatches(col.path, f.path)}

Compare(op, v, x) ==
  CASE op = "EQ" -> v = x [] op = "NEQ" -> v # x [] op = "LT" -> v < x
    [] op = "GT" -> v > x [] op = "LTE" -> v <= x [] op = "GTE" -> v >= x [] OTHER -> FALSE

(* Whether one value satisfies "op lit"; numbers are in halves. *)
Satisfies(op, lit, v) ==
  CASE v.t = "int"   -> LET n == AsInt(lit, op) IN n # <<>> /\ Compare(op, v.x, n[1])
    [] v.t = "float" -> AsFloat(lit) /\ Compare(op, v.x, lit.num)
    [] v.t = "bool"  -> AsBool(lit, op) /\ Compare(op, v.x, lit.bool)
    [] v.t \in {"var", "clp"} ->
         AsString(lit, v.t, op) /\ (op = "EQ") = (<<lit.text, v.x>> \in StrMatches)
    [] OTHER -> FALSE

(* A filter that finds no value of a type it can match is neither true nor false. *)
FilterMeans(e, ev) ==
  LET found == ColumnLeaves(e.col, ev)
      holds == \E f \in found : e.op = "EXISTS" \/ Satisfies(e.op, e.lit, f.v)
  IN  IF e.op = "NEXISTS" THEN found = {} ELSE found # {} /\ holds # e.inv

RECURSIVE Means(_, _)
Means(e, ev) ==
  CASE e.k = "and"    -> \A i \in 1 .. Len(e.ops) : Means(e.ops[i], ev)
    [] e.k = "or"     -> \E i \in 1 .. Len(e.ops) : Means(e.ops[i], ev)
    [] e.k = "filter" -> FilterMeans(e, ev)
    [] OTHER          -> FALSE

(* What one condition "column op literal" of the query asks, or its negation. *)
(* A clp string and a var string are both strings to whoever asks.            *)
Asks(col, op, lit, neg, ev) ==
  LET found == ColumnLeaves(col, ev)
      comparable == {f \in found : \/ f.v.t \in NarrowedTypes(Filter(col, op, lit, FALSE))
                                   \/ f.v.t \in {"clp", "var"} /\ op \in EqualityOps /\ lit.str # {}}
      holds == \E f \in found : Satisfies(op, lit, f.v) \/ (AsNull(lit, op) /\ f.v.t = "null")
  IN  CASE AsAny(lit, op)          -> (found # {}) # neg
        [] AsNull(lit, op) /\ neg  -> \E f \in found : f.v.t # "null"
        [] OTHER                   -> IF neg THEN comparable # {} /\ ~holds ELSE holds

RECURSIVE Wanted(_, _, _)
Wanted(e, neg, ev) ==
  LET n == neg # e.inv
  IN  CASE e.k = "filter" -> Asks(e.col, e.op, e.lit, n, ev)
        [] (e.k = "and") # n -> \A i \in 1 .. Len(e.ops) : Wanted(e.ops[i], n, ev)
        [] OTHER -> \E i \in 1 .. Len(e.ops) : Wanted(e.ops[i], n, ev)

(* Every condition of the query finds at most one value in the event. *)
Unambiguous(e, ev) == \A l \in Leaves(e) : Cardinality(ColumnLeaves(l.col, ev)) <= 1

(* The truth of an expression when a set of its conditions is true. *)
Condition(l) == [l EXCEPT !.inv = FALSE]
RECURSIVE Truth(_, _)
Truth(e, true) ==
  e.inv # CASE e.k = "and" -> \A i \in 1 .. Len(e.ops) : Truth(e.ops[i], true)
            [] e.k = "or"  -> \E i \in 1 .. Len(e.ops) : Truth(e.ops[i], true)
            [] OTHER       -> Condition(e) \in true

-----------------------------------------------------------------------------
(* From OrOfAndForm on, the expression is a leaf, an AND or OR of leaves, or  *)
(* an OR of ANDs of leaves, and only leaves are inverted: QueryHandlerImpl    *)
(* and SchemaMatch walk it relying on that.                                   *)
NormalForm ==
  LET leaf(e)   == ~Composite(e)
      simple(e) == Composite(e) => ~e.inv /\ \A i \in 1 .. Len(e.ops) : leaf(e.ops[i])
  IN  pass \in {"normal", "narrowed", "done"} =>
        \/ simple(expr)
        \/ /\ expr.k = "or" /\ ~expr.inv
           /\ \A i \in 1 .. Len(expr.ops) : expr.ops[i].k # "or" /\ simple(expr.ops[i])

(* OrOfAndForm (De Morgan, splicing, distributing AND over OR) rewrites the   *)
(* query into one that is true of exactly the same truth values of its        *)
(* conditions.                                                                *)
NormalizingKeepsTruth ==
  pass = "normal" =>
    LET q == Visit(query)
    IN  \A true \in SUBSET {Condition(l) : l \in Leaves(q)} : Truth(q, true) = Truth(expr, true)

(* The expression the passes leave matches the events the query asks for:     *)
(* NarrowTypes loses no string type under a NOT and ConvertToExists turns     *)
(* comparisons with null and * into the right existence tests.                *)
PreprocessPreservesMatches ==
  pass = "done" /\ expr # Null =>
    \A ev \in Events : Unambiguous(Visit(query), ev) =>
       Means(expr, ev) = Wanted(Visit(query), FALSE, ev)
============================================================================
