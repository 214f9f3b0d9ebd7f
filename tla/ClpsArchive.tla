----------------------------- MODULE ClpsArchive -----------------------------
(***************************************************************************)
(* clp-s compression: JsonParser turns each JSON document or key-value log *)
(* event into a schema (node ids of the merged parse tree) and a message   *)
(* (the values), and ArchiveWriter appends the message to the table of its *)
(* schema, splits archives and writes them out.  A JSON value is           *)
(* [t, n, x, kv]: its type, its number, its text, and the members of an    *)
(* object or the elements of an array (with an empty key).                 *)
(***************************************************************************)
EXTENDS Integers, Sequences, FiniteSets, SequencesExt, FiniteSetsExt, TLC

CONSTANTS Inputs,        \* sequences of input files ingested together
          Options,       \* [order, arrays, floats, ts, ns]: command line options
          IntMax,        \* INT64_MAX
          Spaced,        \* strings with a space
          ExactFloats,   \* floats that FloatFormatEncoding reproduces
          Patterns,      \* known timestamp patterns, in the order they are tried
          Parses,        \* pattern -> function from the literals it parses to epochs
          NsPerMs,       \* nanoseconds in a millisecond
          MinTableSize   \* m_min_table_size

VARIABLES opt,       \* the options
          files,     \* the input files
          pos,       \* file and unit ingestion is at, and the split number
          aw,        \* the ArchiveWriter
          irMap,     \* m_ir_node_to_archive_node_id_mapping, both of them
          archives,  \* archives written
          status,    \* of the ingestion
          taken      \* records appended: archive, log event index, file, unit, split

caVars == <<opt, files, pos, aw, irMap, archives, status, taken>>

RootId == -1
NodeTypes == <<"Integer", "Float", "ClpString", "VarString", "Boolean", "Object",
               "UnstructuredArray", "NullValue", "DeprecatedDateString", "StructuredArray",
               "Metadata", "DeltaInteger", "FormattedFloat", "DictionaryFloat", "Timestamp">>
NoColumn == {"Object", "StructuredArray", "NullValue", "Metadata"}

-----------------------------------------------------------------------------
(* Schema: entries of the unordered part that open an object or an array    *)
(* hold its type in the high byte and its length in the others.             *)
TypeOffset == 2 ^ 24
TypeEntry(type) == (SelectInSeq(NodeTypes, LAMBDA t : t = type) - 1) * TypeOffset
IsUnorderedObject(e) == e >= TypeOffset
UnorderedType(e) == NodeTypes[e \div TypeOffset + 1]
UnorderedLength(e) == e % TypeOffset

InsertOrdered(s, id) ==
  LET k == Cardinality({i \in 1 .. s.ordered : s.ids[i] <= id})
  IN  [ids |-> SubSeq(s.ids, 1, k) \o <<id>> \o SubSeq(s.ids, k + 1, Len(s.ids)),
       ordered |-> s.ordered + 1]
InsertUnordered(s, id) == [s EXCEPT !.ids = Append(@, id)]
EndUnorderedObject(s, start) == [s EXCEPT !.ids[start] = @ + Len(s.ids) - start]

-----------------------------------------------------------------------------
(* SchemaTree and the part of ArchiveWriter::add_node that follows the path *)
(* of the authoritative timestamp: node id n is element n + 1.              *)
Find(tree, p, type, key) ==
  SelectInSeq(tree, LAMBDA n : n.parent = p /\ n.type = type /\ n.key = key) - 1

AddNode(a, p, type, key) ==
  LET ns == opt.ts # <<>> /\ p = RootId
      added(tree, id, hit) == [a EXCEPT !.tree = tree, !.id = id,
                                        !.prefix = IF hit THEN id ELSE @,
                                        !.plen = IF hit /\ ~ns THEN @ + 1 ELSE @]
      at(old, hit) == IF old >= 0 THEN added(a.tree, old, hit)
                      ELSE added(Append(a.tree, [parent |-> p, type |-> type, key |-> key]), Len(a.tree), hit)
  IN  at(Find(a.tree, p, type, key),
         /\ type = "Object" /\ a.prefix = p
         /\ IF ns THEN opt.ns = key ELSE Len(opt.ts) > a.plen + 1 /\ opt.ts[a.plen + 1] = key)

MatchesTimestamp(a, p, key) ==
  a.prefix = p /\ Len(opt.ts) - a.plen = 1 /\ Last(opt.ts) = key

-----------------------------------------------------------------------------
(* TimestampDictionaryWriter: the patterns seen so far come first. *)
TruncDiv(x, y) == IF x >= 0 THEN x \div y ELSE -((-x) \div y)
(* TimestampEntry::ingest_timestamp *)
IngestTimestamp(r, t) ==
  LET w   == TruncDiv(t, NsPerMs)
      rem == t - w * NsPerMs
  IN  [lo |-> Min({r.lo, w - (IF rem < 0 THEN 1 ELSE 0)}),
       hi |-> Max({r.hi, w + (IF rem > 0 THEN 1 ELSE 0)})]

PatternsFor(ts, lit) ==
  SelectSeq(ts.pats \o Patterns, LAMBDA p : lit \in DOMAIN Parses[p])

(* Ingests a literal; a literal no pattern parses throws. *)
AddTimestamp(a, lit) ==
  LET r == IF a.id \in DOMAIN a.ts.range THEN a.ts.range[a.id] ELSE [lo |-> 1000, hi |-> -1000]
      by(pat, t) == [a EXCEPT !.ts = [range |-> (a.id :> IngestTimestamp(r, t)) @@ a.ts.range,
                                      pats |-> IF Contains(a.ts.pats, pat) THEN @.pats ELSE Append(@.pats, pat)],
                              !.val = [ty |-> "Timestamp", n |-> t, x |-> pat, kv |-> <<>>]]
      first(ps) == IF ps = <<>> THEN [a EXCEPT !.threw = TRUE] ELSE by(Head(ps), Parses[Head(ps)][lit])
  IN  first(PatternsFor(a.ts, lit))

-----------------------------------------------------------------------------
(* Values: an unsigned integer is cast to a signed one. *)
Wrapped(n) == IF n > IntMax THEN n - 2 * (IntMax + 1) ELSE n
LeafType(v) ==
  CASE v.t = "int"  -> "Integer"
    [] v.t = "flt"  -> IF ~opt.floats THEN "Float"
                       ELSE IF v.x \in ExactFloats THEN "FormattedFloat" ELSE "DictionaryFloat"
    [] v.t = "str"  -> IF v.x \in Spaced THEN "ClpString" ELSE "VarString"
    [] v.t = "bool" -> "Boolean"
    [] v.t = "null" -> "NullValue"
    [] v.t = "arr"  -> "UnstructuredArray"
    [] v.t = "obj"  -> "Object"
LeafValue(v, type) ==
  [ty |-> type, n |-> IF v.t = "int" THEN Wrapped(v.n) ELSE 0, x |-> v.x, kv |-> v.kv]

(* A value of the unordered part: a node, an entry of the schema, a value. *)
UnorderedLeaf(a, p, key, v) ==
  LET leaf(b, type) == [b EXCEPT !.sch = InsertUnordered(@, b.id),
                                 !.un = IF v.t = "null" THEN @ ELSE Append(@, LeafValue(v, type))]
      of(type) == leaf(AddNode(a, p, type, key), type)
  IN  of(LeafType(v))

RECURSIVE ParseArray(_, _), ParseObjFields(_, _, _)
(* parse_array and parse_obj_in_array, for the node a.id: an empty object or *)
(* array is an entry of its own, without a type entry.                       *)
Enter(a, type) == [a EXCEPT !.sch = InsertUnordered(@, TypeEntry(type))]
Leave(a, start) == [a EXCEPT !.sch = EndUnorderedObject(@, start)]
ParseObjInArray(a, obj) ==
  IF obj.kv = <<>> THEN [a EXCEPT !.sch = InsertUnordered(@, a.id)]
  ELSE Leave(ParseObjFields(Enter(a, "Object"), obj, a.id), Len(a.sch.ids) + 1)

ParseObjField(a, obj) ==
  IF obj.kv = <<>> THEN [a EXCEPT !.sch = InsertUnordered(@, a.id)] ELSE ParseObjFields(a, obj, a.id)
ParseObjFields(a, obj, id) ==
  LET field(acc, f) ==
        CASE acc.threw -> acc
          [] f.v.t = "obj" -> ParseObjField(AddNode(acc, id, "Object", f.k), f.v)
          [] f.v.t = "arr" -> ParseArray(AddNode(acc, id, "StructuredArray", f.k), f.v)
          [] OTHER -> UnorderedLeaf(acc, id, f.k, f.v)
  IN  FoldLeft(field, a, obj.kv)

ParseArray(a, arr) ==
  LET element(acc, e) ==
        CASE acc.threw -> acc
          [] e.v.t = "obj" -> ParseObjInArray(AddNode(acc, a.id, "Object", ""), e.v)
          [] e.v.t = "arr" -> ParseArray(AddNode(acc, a.id, "StructuredArray", ""), e.v)
          [] OTHER -> UnorderedLeaf(acc, a.id, "", e.v)
  IN  IF arr.kv = <<>> THEN [a EXCEPT !.sch = InsertUnordered(@, a.id)]
      ELSE Leave(FoldLeft(element, Enter(a, "StructuredArray"), arr.kv), Len(a.sch.ids) + 1)

(* An entry of the ordered part and its value, if its column holds values. *)
OrderedLeaf(a, val) ==
  [a EXCEPT !.sch = InsertOrdered(@, a.id),
            !.msg = IF val.ty \in NoColumn \/ a.id \in DOMAIN @ THEN @ ELSE (a.id :> val) @@ @]
TimestampLeaf(a, lit) == LET leaf(b) == OrderedLeaf(b, b.val) IN leaf(AddTimestamp(a, lit))

(* parse_line: one value at parent p, under a key; an exception ends it. *)
RECURSIVE ParseLine(_, _, _, _)
ParseFields(a, id, v) == FoldLeft(LAMBDA acc, f : ParseLine(acc, id, f.k, f.v), a, v.kv)
ParseObj(a, v) == ParseFields(a, a.id, v)
ParseLine(a, p, key, v) ==
  LET leaf(type) == OrderedLeaf(AddNode(a, p, type, key), LeafValue(v, type))
  IN  CASE a.threw -> a
        [] v.t = "obj" /\ v.kv # <<>> /\ ~a.threw -> ParseObj(AddNode(a, p, "Object", key), v)
        [] v.t = "arr" /\ opt.arrays /\ ~a.threw -> ParseArray(AddNode(a, p, "StructuredArray", key), v)
        [] v.t \in {"int", "flt", "str"} /\ MatchesTimestamp(a, p, key) /\ ~a.threw ->
             TimestampLeaf(AddNode(a, p, "Timestamp", key), v.x)
        [] OTHER -> leaf(LeafType(v))

-----------------------------------------------------------------------------
(* Key-value log events.  A node of an IR tree may stand for nodes of several *)
(* types in the archive: the translation is cached per node and type.         *)
KvNodeType(tree, pair) ==
  LET t == tree[pair.node + 1].type
  IN  CASE t = "Int" -> "Integer" [] t = "Float" -> "Float" [] t = "Bool" -> "Boolean"
        [] t = "Array" -> "UnstructuredArray"
        [] t = "Str" -> IF pair.v.x \in Spaced THEN "ClpString" ELSE "VarString"
        [] t = "Obj" -> IF pair.v.t = "null" THEN "NullValue" ELSE "Object"

(* get_archive_node_id_and_check_timestamp: the nearest cached ancestor, and *)
(* the nodes missing below it.                                               *)
RECURSIVE ArchiveNode(_, _, _, _, _)
ArchiveNode(a, auto, tree, ir, type) ==
  LET node == tree[ir + 1]
      top == ir = 0
      cached(e) == [a EXCEPT !.id = e.id, !.isTs = e.isTs]
      noted(c, isTs) == [c EXCEPT !.isTs = isTs, !.map = (<<auto, ir, type>> :> [id |-> c.id, isTs |-> isTs]) @@ @]
      added(b, p, isTs) ==
        noted(AddNode(b, p, IF isTs THEN "Timestamp" ELSE type, IF auto /\ top THEN "@" ELSE node.key), isTs)
      under(b, p) == added(b, p, a.leaf = ir /\ MatchesTimestamp(b, p, node.key))
      below(b) == under(b, b.id)
  IN  IF <<auto, ir, type>> \in DOMAIN a.map THEN cached(a.map[<<auto, ir, type>>])
      ELSE IF top THEN under(a, RootId)
      ELSE below(ArchiveNode(a, auto, tree, node.parent, "Object"))

(* parse_kv_log_event_subtree: only numbers and strings become timestamps. *)
ParseKvPair(a0, auto, tree, pair) ==
  LET leaf(a, type) == IF a.isTs /\ type \in {"Integer", "Float", "VarString", "ClpString"} THEN TimestampLeaf(a, pair.v.x)
                       ELSE OrderedLeaf(a, LeafValue(pair.v, type))
      of(type) == leaf(ArchiveNode([a0 EXCEPT !.leaf = pair.node], auto, tree, pair.node, type), type)
  IN  IF a0.threw THEN a0 ELSE of(KvNodeType(tree, pair))
ParseKvLogEvent(a, f, e) ==
  LET sub(acc, auto, tree, pairs) == FoldLeft(LAMBDA c, q : ParseKvPair(c, auto, tree, q), acc, pairs)
  IN  sub(sub(a, TRUE, f.autoTree, e.auto), FALSE, f.userTree, e.user)

-----------------------------------------------------------------------------
(* ArchiveWriter *)
NewWriter ==
  [open |-> TRUE, tree |-> <<>>, id |-> RootId, prefix |-> RootId, plen |-> 0,
   ts |-> [range |-> <<>>, pats |-> <<>>], threw |-> FALSE, val |-> <<>>,
   sch |-> [ids |-> <<>>, ordered |-> 0], msg |-> <<>>, un |-> <<>>,
   map |-> <<>>, leaf |-> RootId, isTs |-> FALSE,
   schemas |-> <<>>, tables |-> <<>>, next |-> 0, ranges |-> <<>>, rangeOpen |-> FALSE]

(* initialize_schema_writer: the types of the columns of a schema. *)
ColumnTypes(tree, sch) ==
  LET ids == SelectSeq(sch.ids, LAMBDA e : ~IsUnorderedObject(e) /\ tree[e + 1].type \notin NoColumn)
  IN  [i \in 1 .. Len(ids) |-> tree[ids[i] + 1].type]

(* The values of a message, in the order of the columns. *)
Content(a) ==
  [i \in 1 .. Cardinality(DOMAIN a.msg) |-> a.msg[SetToSortSeq(DOMAIN a.msg, <)[i]]] \o a.un

(* Delta-encoded columns hold the difference to the value before. *)
DeltaTypes == {"DeltaInteger", "Timestamp"}
SumOf(col) == FoldLeft(LAMBDA n, v : n + v.n, 0, col)
AddValue(col, v) ==
  Append(col, IF v.ty \in DeltaTypes THEN [v EXCEPT !.n = @ - SumOf(col)] ELSE v)

(* add_schema and append_message: each column takes a value of its own type; *)
(* a value of another type throws.                                           *)
AppendRow(a, old, table, cols, vals) ==
  LET fits == Len(vals) <= Len(cols) /\ \A c \in 1 .. Len(vals) : vals[c].ty = cols[c]
      row == [n |-> table.n + 1,
              cols |-> [c \in 1 .. Len(cols) |->
                          IF c <= Len(vals) THEN AddValue(table.cols[c], vals[c]) ELSE table.cols[c]]]
  IN  IF a.threw \/ ~fits THEN [a EXCEPT !.threw = TRUE]
      ELSE [a EXCEPT !.schemas = IF old > 0 THEN @ ELSE Append(@, a.sch),
                     !.tables = IF old > 0 THEN [@ EXCEPT ![old] = row] ELSE Append(@, row),
                     !.next = @ + 1]
AppendMessage(a) ==
  LET to(old, cols) == AppendRow(a, old, IF old > 0 THEN a.tables[old] ELSE [n |-> 0, cols |-> [c \in 1 .. Len(cols) |-> <<>>]],
                                 cols, Content(a))
  IN  to(SelectInSeq(a.schemas, LAMBDA s : s.ids = a.sch.ids), ColumnTypes(a.tree, a.sch))

(* RangeIndexWriter, through add_field_to_current_range. *)
OpenRange(a, fields) ==
  [a EXCEPT !.ranges = Append(@, [start |-> a.next, end |-> -1, fields |-> fields]), !.rangeOpen = TRUE]
CloseRange(a) ==
  IF a.rangeOpen THEN [a EXCEPT !.ranges[Len(a.ranges)].end = a.next, !.rangeOpen = FALSE] ELSE a

(* store_tables: the larger tables first, packed into streams of more than *)
(* m_min_table_size; a ClpString column has a header.                      *)
ColumnSize(col, type) ==
  Len(col) * (IF type \in {"Timestamp", "FormattedFloat"} THEN 2 ELSE 1)
    + (IF type \in {"ClpString", "UnstructuredArray"} THEN 1 ELSE 0)
TableSize(a, sid) ==
  FoldLeft(LAMBDA n, c : n + ColumnSize(a.tables[sid].cols[c], ColumnTypes(a.tree, a.schemas[sid])[c]),
           0, [c \in 1 .. Len(a.tables[sid].cols) |-> c])
AddToStream(acc, sid, n, end, full) ==
  [meta |-> Append(acc.meta, [stream |-> Len(acc.sizes) + 1, offset |-> acc.offset, schema |-> sid, n |-> n]),
   sizes |-> IF full THEN Append(acc.sizes, end) ELSE acc.sizes,
   offset |-> IF full THEN 0 ELSE end]
StoreTables(a) ==
  LET before(i, j, m, n) == m > n \/ (m = n /\ i < j)
      add(acc, sid, end, last) == AddToStream(acc, sid, a.tables[sid].n, end, end > MinTableSize \/ sid = last)
      of(bySize) == FoldLeft(LAMBDA acc, sid : add(acc, sid, acc.offset + TableSize(a, sid), Last(bySize)),
                             [meta |-> <<>>, sizes |-> <<>>, offset |-> 0], bySize)
  IN  of(SetToSortSeq(DOMAIN a.tables, LAMBDA i, j : before(i, j, TableSize(a, i), TableSize(a, j))))

(* close: what the files of an archive hold. *)
Archive(a0) ==
  LET of(a) == [tree |-> a.tree, schemas |-> a.schemas, tables |-> a.tables, packed |-> StoreTables(a),
                ranges |-> a.ranges, ts |-> a.ts]
  IN  of(CloseRange(a0))

-----------------------------------------------------------------------------
File == files[pos.file]
Unit == File.units[pos.unit]
AtEnd == pos.unit > Len(File.units)

(* initialize_fields_for_archive: add_metadata_field and the range's fields. *)
LogEventIdx(a) ==
  LET md == AddNode(a, RootId, "Metadata", "") IN AddNode(md, md.id, "DeltaInteger", "log_event_idx")
InitializeFields(a, split) ==
  IF ~opt.order THEN a
  ELSE OpenRange(LogEventIdx(a), [file |-> pos.file, split |-> split, user |-> File.metadata])

StartFile ==
  /\ status = "next" /\ pos.file <= Len(files)
  /\ status' = "ingesting"
  /\ pos' = [pos EXCEPT !.unit = 1, !.split = 0]
  /\ aw' = InitializeFields(aw, 0)
  /\ UNCHANGED <<opt, files, irMap, archives, taken>>

(* A new schema and message, with the index of the log event. *)
BeginRecord ==
  LET a == [aw EXCEPT !.sch = [ids |-> <<>>, ordered |-> 0], !.msg = <<>>, !.un = <<>>, !.map = irMap]
  IN  IF ~opt.order THEN a
      ELSE OrderedLeaf(LogEventIdx(a), [ty |-> "DeltaInteger", n |-> aw.next, x |-> "", kv |-> <<>>])

Took == Append(taken, [archive |-> Len(archives) + 1, idx |-> aw.next, file |-> pos.file,
                       unit |-> pos.unit, split |-> pos.split])

\* Mutant: the translations of the old archive's node ids are kept.
KeepsMap(a, split) == a.map
(* The translations are forgotten when an archive is split. *)
MapAfter(a, split) == IF split THEN <<>> ELSE a.map

(* append_message, then split_archive if the data reached the target size:    *)
(* any record may be the one that does.                                       *)
Appended(a, split) ==
  /\ irMap' = MapAfter(a, split)
  /\ archives' = IF split THEN Append(archives, Archive(a)) ELSE archives
  /\ aw' = IF split THEN InitializeFields(NewWriter, pos.split + 1) ELSE [a EXCEPT !.map = <<>>]
  /\ pos' = [pos EXCEPT !.unit = @ + 1, !.split = IF split THEN @ + 1 ELSE @]

(* ingest returns false: the archive is closed as it is. *)
FailIngest ==
  /\ status' = "failed"
  /\ archives' = Append(archives, Archive(aw))
  /\ aw' = NewWriter
  /\ UNCHANGED <<opt, files, pos, irMap, taken>>

IngestJson(split) ==
  LET ingested(a) ==
        IF a.threw
        THEN /\ status' = "threw"
             /\ UNCHANGED <<aw, irMap, archives, pos, taken>>
        ELSE /\ Appended(a, split)
             /\ taken' = Took
             /\ UNCHANGED status
  IN  /\ status = "ingesting" /\ File.kind = "json" /\ ~AtEnd /\ Unit.u = "doc"
      /\ ingested(AppendMessage(ParseLine(BeginRecord, RootId, "", Unit.v)))
      /\ UNCHANGED <<opt, files>>

(* A scalar, a syntax error, an input of a type that cannot be ingested. *)
RejectInput ==
  /\ status = "ingesting" /\ ~AtEnd
  /\ (File.kind = "json" /\ Unit.u = "bad") \/ File.kind = "other"
  /\ FailIngest

IngestKvir(split) ==
  LET ingested(a) ==
        IF a.threw THEN FailIngest
        ELSE /\ Appended(a, split)
             /\ taken' = Took
             /\ UNCHANGED <<opt, files, status>>
  IN  /\ status = "ingesting" /\ File.kind = "kvir" /\ ~AtEnd /\ Unit.u = "doc"
      /\ ingested(AppendMessage(ParseKvLogEvent(BeginRecord, File, Unit)))

(* An error of the deserializer ends the stream, and so does a change of the *)
(* UTC offset, which IrUnitHandler refuses.                                  *)
StopKvir ==
  /\ status = "ingesting" /\ File.kind = "kvir" /\ ~AtEnd /\ Unit.u \in {"bad", "utc"}
  /\ pos' = [pos EXCEPT !.unit = Len(File.units) + 1]
  /\ UNCHANGED <<opt, files, aw, irMap, archives, status, taken>>

EndFile ==
  /\ status = "ingesting" /\ AtEnd /\ File.kind # "other"
  /\ status' = "next"
  /\ pos' = [pos EXCEPT !.file = @ + 1]
  /\ aw' = CloseRange(aw)
  /\ irMap' = <<>>
  /\ UNCHANGED <<opt, files, archives, taken>>

Store ==
  /\ status = "next" /\ pos.file > Len(files)
  /\ status' = "stored"
  /\ archives' = Append(archives, Archive(aw))
  /\ aw' = NewWriter
  /\ UNCHANGED <<opt, files, pos, irMap, taken>>

CAInit ==
  /\ opt \in Options /\ files \in Inputs
  /\ pos = [file |-> 1, unit |-> 1, split |-> 0]
  /\ aw = NewWriter
  /\ irMap = <<>> /\ archives = <<>> /\ status = "next" /\ taken = <<>>

CANext ==
  \/ StartFile \/ RejectInput \/ StopKvir \/ EndFile \/ Store
  \/ \E split \in BOOLEAN : IngestJson(split) \/ IngestKvir(split)

-----------------------------------------------------------------------------
PathOfNode(tree, id) ==
  LET path[i \in -1 .. Len(tree) - 1] ==
        IF i = RootId THEN <<>> ELSE Append(path[tree[i + 1].parent], tree[i + 1].key)
  IN  path[id]

(* Every cached translation names the node of the archive being written that *)
(* has the key path of the IR node (add_node_to_archive_and_translations).   *)
TranslationsAreCurrent ==
  \A e \in DOMAIN irMap :
    LET irTree == IF e[1] THEN File.autoTree ELSE File.userTree
        key    == IF e[1] THEN "@" ELSE ""
        path   == PathOfNode([i \in 1 .. Len(irTree) |->
                               [irTree[i] EXCEPT !.key = IF i = 1 THEN key ELSE @]], e[2])
    IN  irMap[e].id < Len(aw.tree) /\ PathOfNode(aw.tree, irMap[e].id) = path

(* The timestamp range of an archive covers every timestamp in its columns   *)
(* (TimestampEntry::ingest_timestamp), or searches would skip the archive.   *)
RangeCovers(a) ==
  \A s \in DOMAIN a.tables : \A c \in DOMAIN a.tables[s].cols :
    ColumnTypes(a.tree, a.schemas[s])[c] = "Timestamp" =>
      \A i \in 1 .. Len(a.tables[s].cols[c]) :
        LET t == SumOf(SubSeq(a.tables[s].cols[c], 1, i))
        IN  \E r \in Range(a.ts.range) : r.lo * NsPerMs <= t /\ t <= r.hi * NsPerMs
TimestampRangesCover == RangeCovers(aw) /\ \A k \in 1 .. Len(archives) : RangeCovers(archives[k])
=============================================================================
