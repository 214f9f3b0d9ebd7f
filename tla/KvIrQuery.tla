----------------------------- MODULE KvIrQuery -----------------------------
(***************************************************************************)
(* The query handler of a key-value IR stream.  While the stream is read,  *)
(* every schema-tree node it inserts resolves the columns of the query a   *)
(* step further (update_partially_resolved_columns); each log event is     *)
(* then judged with the nodes resolved so far, never by searching paths.   *)
(* The expression is the one SearchAst's passes leave.                     *)
(***************************************************************************)
EXTENDS SearchAst

CONSTANTS Keys,       \* key names of the stream
          NodeTypes,  \* types of its nodes
          LeafValues, \* values [t, x]; "unknown" is an empty object
          MaxNodes    \* bound: nodes inserted

VARIABLES tree,      \* nodes [ns, parent, key, type]; parent 0 is the root
          partial,   \* partial resolutions [ns, id, col, i]: at node id, token i of col is next
          resolved,  \* m_resolved_column_to_schema_tree_node_ids, as pairs <<col, id>>
          verdict    \* the last log event evaluated and the result

kqVars == <<saVars, tree, partial, resolved, verdict>>

NoVerdict == [ev |-> {}, r |-> "none"]
IsWildcard(col, i) == col.path[i] = "*"
IsLast(col, i) == i = Len(col.path)
TrailingWildcard(col, i) == IsLast(col, i) /\ IsWildcard(col, i)
PureWildcard(col) == col.path = <<"*">>
KnownNamespace(col) == col.ns \in {"", "@"}

(* schema_tree_node_type_to_literal_types *)
LiteralTypes(type) ==
  CASE type = "Int" -> {"int", "ts"} [] type = "Float" -> {"float", "ts"} [] type = "Bool" -> {"bool"}
    [] type = "Str" -> {"clp", "var"} [] type = "Array" -> {"array"} [] OTHER -> {"null"}

Columns(e) == {l.col : l \in {x \in Leaves(e) : x.k = "filter"}}

(* create_initial_partial_resolutions: a leading wildcard may match nothing. *)
FirstTokens(col) ==
  {[ns |-> col.ns, id |-> 0, col |-> col, i |-> i] :
     i \in {1} \cup (IF ~IsLast(col, 1) /\ IsWildcard(col, 1) THEN {2} ELSE {})}

CreateQueryHandler ==
  /\ pass = "done" /\ expr # Null
  /\ pass' = "handler"
  /\ partial' = UNION {FirstTokens(c) : c \in {d \in Columns(expr) : ~PureWildcard(d) /\ d.path # <<>> /\ KnownNamespace(d)}}
  /\ UNCHANGED <<query, ids, expr, tree, resolved, verdict>>

(* handle_column_resolution_on_new_schema_tree_node *)
Resolves(t, n) ==
  /\ IsLast(t.col, t.i) \/ TrailingWildcard(t.col, t.i + 1)
  /\ LiteralTypes(n.type) \cap t.col.types # {}
  /\ IsWildcard(t.col, t.i) \/ t.col.path[t.i] = n.key

(* The tokens to try on the children of new node id. *)
NextTokens(t, n, id) ==
  LET at(i) == [t EXCEPT !.id = id, !.i = i]
  IN  CASE n.type # "Obj" -> {}
        [] n.type = "Obj" /\ IsWildcard(t.col, t.i) ->
             {at(t.i)} \cup (IF IsLast(t.col, t.i) THEN {} ELSE {at(t.i + 1)})
        [] n.type = "Obj" /\ ~IsWildcard(t.col, t.i) /\ (IsLast(t.col, t.i) \/ t.col.path[t.i] # n.key) -> {}
        [] OTHER -> {at(t.i + 1)} \cup
             (IF ~IsLast(t.col, t.i + 1) /\ IsWildcard(t.col, t.i + 1) THEN {at(t.i + 2)} ELSE {})

UpdatePartiallyResolvedColumns(n, id) ==
  LET here == {t \in partial : t.ns = n.ns /\ t.id = n.parent}
  IN  /\ resolved' = resolved \cup {<<t.col, id>> : t \in {u \in here : Resolves(u, n)}}
      /\ partial' = partial \cup UNION {NextTokens(t, n, id) : t \in here}

InsertNode(n) ==
  /\ pass = "handler" /\ verdict = NoVerdict /\ Len(tree) < MaxNodes
  /\ ~\E i \in 1 .. Len(tree) : tree[i] = n
  /\ n.parent # 0 => n.parent <= Len(tree) /\ tree[n.parent].type = "Obj" /\ tree[n.parent].ns = n.ns
  /\ tree' = Append(tree, n)
  /\ UpdatePartiallyResolvedColumns(n, Len(tree) + 1)
  /\ UNCHANGED <<query, ids, expr, pass, verdict>>

-----------------------------------------------------------------------------
(* One pair of a log event, [id, v], against a filter. *)
EvaluatePair(e, pair) ==
  CASE pair.v.t \notin e.col.types -> "Pruned"
    [] pair.v.t \in e.col.types /\ e.op = "EXISTS" -> "True"
    [] pair.v.t \in e.col.types /\ e.op = "NEXISTS" -> "False"
    [] pair.v.t \in e.col.types /\ e.op \notin {"EXISTS", "NEXISTS"} /\ pair.v.t = "null" -> "error"
    [] OTHER -> IF Satisfies(e.op, e.lit, pair.v) THEN "True" ELSE "False"

(* Of the pairs a column may match: any True, else any False, else Pruned. *)
Best(results) ==
  CASE "error" \in results -> "error"
    [] "error" \notin results /\ "True" \in results -> "True"
    [] results \cap {"error", "True"} = {} /\ "False" \in results -> "False"
    [] OTHER -> "Pruned"

EvaluateFilter(e, ev) ==
  Best({EvaluatePair(e, p) : p \in {q \in ev : PureWildcard(e.col) \/ <<e.col, q.id>> \in resolved}})

Inverted(e, r) ==
  IF ~e.inv \/ r \in {"Pruned", "error"} THEN r ELSE IF r = "True" THEN "False" ELSE "True"

(* The depth-first evaluation: an AND stops at its first operand that is not  *)
(* True, an OR at its first True.                                             *)
RECURSIVE Evaluate(_, _)
Evaluate(e, ev) ==
  LET rs == [i \in 1 .. Len(e.ops) |-> Evaluate(e.ops[i], ev)]
      stop == SelectInSeq(rs, LAMBDA r : r # "True")
  IN  Inverted(e, CASE e.k = "filter" -> EvaluateFilter(e, ev)
                    [] e.k = "and"    -> IF stop = 0 THEN "True" ELSE rs[stop]
                    [] e.k = "or"     -> Best({rs[i] : i \in 1 .. Len(rs)})
                    [] OTHER          -> "error")

(* evaluate_kv_pair_log_event: m_is_empty_query answers at once. *)
EvaluateLogEvent(ev) ==
  /\ pass = "handler" /\ verdict = NoVerdict
  /\ verdict' = [ev |-> ev, r |-> IF expr.k = "empty" THEN "False" ELSE Evaluate(expr, ev)]
  /\ UNCHANGED <<saVars, tree, partial, resolved>>

Nodes == [ns : {"", "@"}, parent : 0 .. MaxNodes - 1, key : Keys, type : NodeTypes]
PairsOf(i) ==
  {[id |-> i, v |-> v] : v \in {w \in LeafValues :
     IF tree[i].type = "Obj" THEN w.t \in {"null", "unknown"} ELSE w.t \in LiteralTypes(tree[i].type)}}
(* Log events with one or two pairs. *)
LogEvents ==
  LET pairs == UNION {PairsOf(i) : i \in 1 .. Len(tree)}
  IN  {{p} : p \in pairs}
        \cup {{p, q} : p \in {r \in pairs : r.id < Len(tree) /\ tree[r.id].type # "Obj"},
                       q \in {r \in pairs : r.id = Len(tree)}}

KQInit == SAInit /\ tree = <<>> /\ partial = {} /\ resolved = {} /\ verdict = NoVerdict

KQNext ==
  \/ SANext /\ UNCHANGED <<tree, partial, resolved, verdict>>
  \/ CreateQueryHandler
  \/ \E n \in Nodes : InsertNode(n)
  \/ \E ev \in LogEvents : EvaluateLogEvent(ev)

KQSpec == KQInit /\ [][KQNext]_kqVars

-----------------------------------------------------------------------------
RECURSIVE NodePath(_)
NodePath(i) == IF i = 0 THEN <<>> ELSE Append(NodePath(tree[i].parent), tree[i].key)

(* Whatever the order in which nodes are inserted, the nodes a column has     *)
(* resolved to are exactly those whose path its tokens match, a wildcard      *)
(* standing for any number of keys, and whose type it can match.              *)
ResolutionIsPathMatching ==
  \A col \in {c \in Columns(expr) : ~PureWildcard(c)} :
    pass = "handler" =>
      {i \in 1 .. Len(tree) : <<col, i>> \in resolved} =
      {i \in 1 .. Len(tree) : /\ tree[i].ns = col.ns
                              /\ PathMatches(col.path, NodePath(i))
                              /\ LiteralTypes(tree[i].type) \cap col.types # {}}

(* An event is reported exactly if the query asks for it; a test for a key    *)
(* that does not exist is never met on this path (the archives' search does   *)
(* implement it).                                                             *)
VerdictIsMeaning ==
  verdict # NoVerdict /\ (\A l \in Leaves(expr) : l.op # "NEXISTS") =>
    (verdict.r = "True") =
      Means(expr, {[path |-> NodePath(p.id), ns |-> tree[p.id].ns, v |-> p.v] : p \in verdict.ev})

(* Evaluating never fails: the passes leave no comparison of a null value     *)
(* with a literal and no empty operand, for which the handler has only an     *)
(* error that would end the search of the stream.                             *)
EvaluationSucceeds == verdict.r # "error"
============================================================================
