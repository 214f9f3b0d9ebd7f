----------------------------- MODULE ClpsExtract -----------------------------
(***************************************************************************)
(* clp-s extraction: JsonConstructor opens each archive, ArchiveReader     *)
(* reads the tables of its schemas, and SchemaReader turns each message    *)
(* back into JSON along a template built once per schema.                  *)
(***************************************************************************)
EXTENDS ClpsArchive

CONSTANTS FloatText      \* text of a float -> what std::to_string prints

VARIABLES ex,            \* the JsonConstructor and its ArchiveReader
          out,           \* records written for the archive
          chunks         \* chunk files of an ordered extraction

ceVars == <<ex, out, chunks>>

-----------------------------------------------------------------------------
(* SchemaReader: the template of a schema s in the tree of an archive.  An   *)
(* operation opens or closes a bracket or adds a value, with a key or not.   *)
Begin(t, key, named) == [op |-> "begin", t |-> t, key |-> key, named |-> named, col |-> 0]
End(t) == [op |-> "end", t |-> t, key |-> "", named |-> FALSE, col |-> 0]
Add(t, key, named, col) == [op |-> "add", t |-> t, key |-> key, named |-> named, col |-> col]

Node(tree, id) == tree[id + 1]
Depth(tree, id) ==
  LET d[i \in -1 .. id] == IF i = RootId THEN 0 ELSE 1 + d[Node(tree, i).parent] IN d[id]
(* find_matching_subtree_root_in_subtree: the match nearest to the root. *)
RECURSIVE MatchingRoot(_, _, _, _)
MatchingRoot(tree, root, id, type) ==
  IF id = root THEN RootId
  ELSE LET above == MatchingRoot(tree, root, Node(tree, id).parent, type)
       IN  IF above # RootId THEN above
           ELSE IF Node(tree, id).type = type THEN id ELSE RootId
FirstColumn(s, lo, hi) == s.ids[Min({i \in lo .. hi : ~IsUnorderedObject(s.ids[i])})]
ColumnIndex(tree, s, i) ==
  Cardinality({j \in 1 .. i : /\ ~IsUnorderedObject(s.ids[j])
                              /\ Node(tree, s.ids[j]).type \notin NoColumn})

(* find_intersection_and_fix_brackets: the objects to close and the ones to *)
(* open between two nodes.                                                   *)
RECURSIVE Between(_, _, _)
Between(tree, cur, next) ==
  LET up(id) == Node(tree, id).parent
      dc == Depth(tree, cur)
      dn == Depth(tree, next)
      w  == Between(tree, IF dc >= dn THEN up(cur) ELSE cur, IF dc <= dn THEN up(next) ELSE next)
  IN  IF up(cur) = up(next)
      THEN [ends |-> IF cur = next THEN 0 ELSE 1, path |-> IF cur = next THEN <<>> ELSE <<next>>]
      ELSE [ends |-> w.ends + (IF dc >= dn THEN 1 ELSE 0),
            path |-> IF dc <= dn THEN Append(w.path, next) ELSE w.path]
FixBrackets(tree, cur, next) ==
  LET b == Between(tree, cur, next)
  IN  [i \in 1 .. b.ends |-> End("obj")] \o
      [i \in 1 .. Len(b.path) |->
        Begin(IF Node(tree, b.path[i]).type = "Object" THEN "obj" ELSE "arr",
              Node(tree, b.path[i]).key, Node(tree, b.path[i]).key # "")]

ValueKind(type) ==
  CASE type \in {"Integer", "DeltaInteger"} -> "int"
    [] type \in {"Float", "FormattedFloat", "DictionaryFloat"} -> "flt"
    [] type \in {"ClpString", "VarString"} -> "str"
    [] type = "Boolean" -> "bool" [] type = "NullValue" -> "null"
    [] type = "UnstructuredArray" -> "arr" [] type = "Timestamp" -> "lit"
AddNodeValue(tree, s, i, named) ==
  LET n == Node(tree, s.ids[i])
  IN  <<Add(ValueKind(n.type), n.key, named, IF n.type = "NullValue" THEN 0 ELSE ColumnIndex(tree, s, i))>>

RECURSIVE ArrayTemplate(_, _, _, _, _), ObjectTemplate(_, _, _, _, _, _)
(* generate_structured_array_template, for the entries lo .. hi of s. *)
ArrayTemplate(tree, s, root, lo, hi) ==
  LET e    == s.ids[lo]
      last == lo + UnorderedLength(e)
      sub  == MatchingRoot(tree, root, FirstColumn(s, lo + 1, last), UnorderedType(e))
      type == Node(tree, e).type
  IN  IF lo > hi THEN <<>>
      ELSE IF IsUnorderedObject(e)
      THEN (IF UnorderedType(e) = "Object"
            THEN <<Begin("obj", "", FALSE)>> \o ObjectTemplate(tree, s, sub, sub, lo + 1, last) \o <<End("obj")>>
            ELSE <<Begin("arr", "", FALSE)>> \o ArrayTemplate(tree, s, sub, lo + 1, last) \o <<End("arr")>>)
           \o ArrayTemplate(tree, s, root, last + 1, hi)
      ELSE (CASE type = "Object" ->
                   FixBrackets(tree, root, e)
                     \o [j \in 1 .. Depth(tree, e) - Depth(tree, root) |-> End("obj")]
              [] type = "StructuredArray" -> <<Begin("arr", "", FALSE), End("arr")>>
              [] OTHER -> AddNodeValue(tree, s, lo, FALSE))
           \o ArrayTemplate(tree, s, root, lo + 1, hi)

(* generate_structured_object_template; cur is the object that is open. *)
ObjectTemplate(tree, s, root, cur, lo, hi) ==
  LET e    == s.ids[lo]
      last == lo + UnorderedLength(e)
      sub  == MatchingRoot(tree, root, FirstColumn(s, lo + 1, last), "StructuredArray")
      n    == Node(tree, e)
  IN  IF lo > hi THEN FixBrackets(tree, cur, root)
      ELSE IF IsUnorderedObject(e)
      THEN FixBrackets(tree, cur, sub) \o ArrayTemplate(tree, s, sub, lo + 1, last) \o <<End("arr")>>
             \o ObjectTemplate(tree, s, root, Node(tree, sub).parent, last + 1, hi)
      ELSE FixBrackets(tree, cur, n.parent)
             \o (CASE n.type = "Object" -> <<Begin("obj", n.key, TRUE), End("obj")>>
                   [] n.type = "StructuredArray" -> <<Begin("arr", n.key, TRUE), End("arr")>>
                   [] OTHER -> AddNodeValue(tree, s, lo, TRUE))
             \o ObjectTemplate(tree, s, root, n.parent, lo + 1, hi)

(* initialize_schema_reader: the roots of the structured arrays of s. *)
RECURSIVE UnorderedObjects(_, _, _)
UnorderedObjects(tree, s, i) ==
  LET e    == s.ids[i]
      last == i + UnorderedLength(e)
  IN  IF i > Len(s.ids) THEN {}
      ELSE IF IsUnorderedObject(e)
      THEN {[root |-> MatchingRoot(tree, RootId, FirstColumn(s, i + 1, last), UnorderedType(e)),
             lo |-> i + 1, hi |-> last]} \cup UnorderedObjects(tree, s, last + 1)
      ELSE {[root |-> e, lo |-> 1, hi |-> 0]} \cup UnorderedObjects(tree, s, i + 1)

(* generate_local_tree and generate_json_template, below node id. *)
LocalTree(tree, s) ==
  LET leaves == {s.ids[i] : i \in 1 .. s.ordered} \cup {o.root : o \in UnorderedObjects(tree, s, s.ordered + 1)}
      above[i \in -1 .. Len(tree) - 1] == IF i = RootId THEN {} ELSE {i} \cup above[Node(tree, i).parent]
  IN  UNION {above[l] : l \in leaves}
RECURSIVE JsonTemplate(_, _, _)
JsonTemplate(tree, s, id) ==
  LET local == LocalTree(tree, s)
      children == SetToSortSeq({c \in local : Node(tree, c).parent = id}, <)
      op(c) ==
        LET n    == Node(tree, c)
            objs == {o \in UnorderedObjects(tree, s, s.ordered + 1) : o.root = c}
            pos1 == Max({i \in 1 .. s.ordered : s.ids[i] = c})
        IN  CASE n.type = "Object" -> <<Begin("obj", n.key, TRUE)>> \o JsonTemplate(tree, s, c) \o <<End("obj")>>
              [] n.type = "StructuredArray" ->
                   <<Begin("arr", n.key, TRUE)>>
                     \o (IF objs = {} THEN <<>>
                         ELSE LET o == CHOOSE x \in objs : TRUE IN ArrayTemplate(tree, s, c, o.lo, o.hi))
                     \o <<End("arr")>>
              [] n.type = "Metadata" -> <<>>
              [] OTHER -> AddNodeValue(tree, s, pos1, TRUE)
  IN  FlattenSeq([i \in 1 .. Len(children) |-> op(children[i])])

(* initialize_serializer: only the default namespace is written. *)
Template(tree, s) ==
  LET roots == {c \in LocalTree(tree, s) : /\ Node(tree, c).parent = RootId
                                           /\ Node(tree, c).type = "Object" /\ Node(tree, c).key = ""}
  IN  IF roots = {} THEN <<>> ELSE JsonTemplate(tree, s, CHOOSE c \in roots : TRUE)

-----------------------------------------------------------------------------
(* ColumnReader: the value of message m. *)
Accumulated(col, m) == SumOf(SubSeq(col, 1, m))
Extracted(col, m) ==
  LET v == col[m]
      n == IF v.ty \in DeltaTypes THEN Accumulated(col, m) ELSE v.n
  IN  CASE v.ty = "Timestamp" ->
             [n |-> 0, x |-> CHOOSE l \in DOMAIN Parses[v.x] : Parses[v.x][l] = n, kv |-> <<>>]
        [] v.ty = "Float" -> [n |-> 0, x |-> FloatText[v.x], kv |-> <<>>]
        [] OTHER -> [n |-> n, x |-> v.x, kv |-> v.kv]

(* generate_json_string: brackets that do not match give malformed JSON. *)
GenerateJson(ops, table, m) ==
  LET put(stack, key, named, v) ==
        LET top == Last(stack)
        IN  Front(stack) \o <<[top EXCEPT !.kv = Append(@, [k |-> key, v |-> v]),
                                          !.bad = @ \/ named # (top.t = "obj")]>>
      value(o) == LET e == Extracted(table.cols[o.col], m)
                  IN  [t |-> o.t, n |-> e.n, x |-> e.x, kv |-> e.kv]
      null == [t |-> "null", n |-> 0, x |-> "", kv |-> <<>>]
      step(stack, o) ==
        CASE o.op = "begin" -> Append(stack, [t |-> o.t, key |-> o.key, named |-> o.named, kv |-> <<>>, bad |-> FALSE])
          [] o.op = "end" ->
               LET top == Last(stack)
                   new == put(Front(stack), top.key, top.named, [t |-> o.t, n |-> 0, x |-> "", kv |-> top.kv])
               IN  IF Len(stack) = 1 THEN <<[top EXCEPT !.bad = TRUE]>>
                   ELSE Front(new) \o <<[Last(new) EXCEPT !.bad = @ \/ top.bad \/ top.t # o.t]>>
          [] OTHER -> put(stack, o.key, o.named, IF o.col = 0 THEN null ELSE value(o))
      end == FoldLeft(step, <<[t |-> "obj", key |-> "", named |-> TRUE, kv |-> <<>>, bad |-> FALSE]>>, ops)
  IN  IF Len(end) # 1 \/ end[1].bad THEN [t |-> "malformed", n |-> 0, x |-> "", kv |-> <<>>]
      ELSE [t |-> "obj", n |-> 0, x |-> "", kv |-> end[1].kv]

-----------------------------------------------------------------------------
(* ArchiveReader *)
A == archives[ex.k]
Meta == A.packed.meta
(* read_metadata: a table ends where the next one of its stream begins. *)
UncompressedSize(a, i) ==
  LET meta == a.packed.meta
  IN  (IF i < Len(meta) /\ meta[i + 1].stream = meta[i].stream THEN meta[i + 1].offset
       ELSE a.packed.sizes[meta[i].stream]) - meta[i].offset

(* read_stream, with PackedStreamReader's: streams are read in order, and   *)
(* the buffer is allocated only for a size above the current one.           *)
ReadStream(r, id, size, reuse) ==
  IF r.buf > 0 /\ r.cur = id THEN r
  ELSE IF r.reading /\ r.prev >= id THEN [r EXCEPT !.phase = "threw"]
  ELSE [r EXCEPT !.buf = IF reuse THEN Max({@, size}) ELSE size, !.cur = id, !.prev = id, !.reading = TRUE]

(* read_schema_table: load throws unless the columns take the whole table. *)
ReadTable(reuse) ==
  LET m == Meta[ex.tab]
      r == ReadStream(ex, m.stream, A.packed.sizes[m.stream], reuse)
  IN  IF UncompressedSize(A, ex.tab) = TableSize(A, m.schema) THEN [r EXCEPT !.tab = @ + 1]
      ELSE [r EXCEPT !.phase = "threw"]

RecordOf(sid, m) == GenerateJson(Template(A.tree, A.schemas[sid]), A.tables[sid], m)

Closed(k) == [k |-> k, phase |-> "closed", tab |-> 1, buf |-> 0, cur |-> 0, prev |-> 0,
              reading |-> FALSE, readers |-> <<>>, first |-> 0, last |-> 0, n |-> 0]

(* An archive without a schema is refused. *)
OpenArchive(ordered) ==
  /\ status \in {"stored", "failed", "threw"} /\ ex.phase = "closed" /\ ex.k < Len(archives)
  /\ ex' = [Closed(ex.k + 1) EXCEPT !.phase = IF archives[ex.k + 1].schemas = <<>> THEN "threw"
                                             ELSE IF ordered /\ opt.order THEN "load" ELSE "store"]
  /\ out' = <<>> /\ chunks' = <<>>
  /\ UNCHANGED caVars

(* ArchiveReader::store *)
StoreTable ==
  LET m == Meta[ex.tab]
      r == ReadTable(TRUE)
  IN  /\ ex.phase = "store" /\ ex.tab <= Len(Meta)
      /\ ex' = r
      /\ out' = IF r.phase = "threw" THEN out ELSE out \o [i \in 1 .. m.n |-> RecordOf(m.schema, i)]
      /\ UNCHANGED <<caVars, chunks>>
CloseArchive ==
  /\ ex.phase = "store" /\ ex.tab > Len(Meta)
  /\ ex' = [ex EXCEPT !.phase = "closed"]
  /\ UNCHANGED <<caVars, out, chunks>>

(* read_all_tables *)
LoadTable ==
  LET r == ReadTable(FALSE)
  IN  /\ ex.phase = "load" /\ ex.tab <= Len(Meta)
      /\ ex' = [r EXCEPT !.readers = Append(@, [schema |-> Meta[ex.tab].schema, next |-> 1]),
                         !.phase = IF @ # "threw" /\ ex.tab = Len(Meta) THEN "merge" ELSE @]
      /\ UNCHANGED <<caVars, out, chunks>>

(* get_next_log_event_idx: the column of the metadata field. *)
NextIdx(rd) ==
  LET s   == A.schemas[rd.schema]
      md  == Find(A.tree, RootId, "Metadata", "")
      idx == Find(A.tree, md, "DeltaInteger", "log_event_idx")
      i   == SelectInSeq(s.ids, LAMBDA e : e = idx)
  IN  Accumulated(A.tables[rd.schema].cols[ColumnIndex(A.tree, s, i)], rd.next)

Chunk(first, last, isLast) == [begin |-> first, end |-> last + 1, isLast |-> isLast]

(* One turn of construct_in_order's loop; cut says whether the chunk reached *)
(* its target size.                                                          *)
Merge(cut, j, rd, first, last) ==
  /\ out' = Append(out, RecordOf(rd.schema, rd.next))
  /\ chunks' = IF cut THEN Append(chunks, Chunk(first, last, FALSE)) ELSE chunks
  /\ ex' = [ex EXCEPT !.first = first, !.last = last, !.n = IF cut THEN 0 ELSE @ + 1,
                      !.readers = IF rd.next = A.tables[rd.schema].n THEN RemoveAt(@, j) ELSE [@ EXCEPT ![j].next = @ + 1]]
MergeFrom(cut, j, idx) == Merge(cut, j, ex.readers[j], IF ex.n = 0 THEN idx[j] ELSE ex.first, idx[j])
MergeNext(cut, idx) == MergeFrom(cut, CHOOSE k \in DOMAIN idx : \A o \in DOMAIN idx : idx[k] <= idx[o], idx)
MergeRecord(cut) ==
  /\ ex.phase = "merge" /\ ex.readers # <<>>
  /\ MergeNext(cut, [k \in DOMAIN ex.readers |-> NextIdx(ex.readers[k])])
  /\ UNCHANGED caVars

FinishMerge ==
  /\ ex.phase = "merge" /\ ex.readers = <<>>
  /\ chunks' = IF ex.n > 0 THEN Append(chunks, Chunk(ex.first, ex.last, TRUE)) ELSE chunks
  /\ ex' = [ex EXCEPT !.phase = "closed"]
  /\ UNCHANGED <<caVars, out>>

CEInit == CAInit /\ ex = Closed(0) /\ out = <<>> /\ chunks = <<>>
CENext ==
  \/ CANext /\ UNCHANGED ceVars
  \/ \E ordered \in BOOLEAN : OpenArchive(ordered)
  \/ StoreTable \/ CloseArchive \/ LoadTable \/ FinishMerge
  \/ \E cut \in BOOLEAN : MergeRecord(cut)
CESpec == CEInit /\ [][CENext]_<<caVars, ceVars>>

-----------------------------------------------------------------------------
(* A document as the set of its leaves with their key paths; the elements of *)
(* an array are documents.  top says that the document is a record.       *)
RECURSIVE Leaves(_, _, _)
Leaves(v, path, top) ==
  LET leaf(t, n, x, els) == {<<path, [t |-> t, n |-> n, x |-> x, els |-> els]>>}
      els == [i \in 1 .. Len(v.kv) |-> Leaves(v.kv[i].v, <<>>, FALSE)]
  IN  CASE v.t = "obj" /\ v.kv # <<>> ->
             UNION {Leaves(v.kv[i].v, Append(path, v.kv[i].k), top) : i \in 1 .. Len(v.kv)}
        [] top /\ v.t \in {"int", "flt", "str", "lit"} /\ opt.ts = path -> leaf("lit", 0, v.x, <<>>)
        [] v.t = "int" -> leaf("int", Wrapped(v.n), "", <<>>)
        [] v.t = "flt" -> leaf("flt", 0, IF opt.floats THEN v.x ELSE FloatText[v.x], <<>>)
        [] v.t \in {"obj", "arr"} -> leaf(v.t, 0, "", els)
        [] OTHER -> leaf(v.t, 0, v.x, <<>>)
Given(r) ==
  LET f == files[r.file]
      u == f.units[r.unit]
  IN  IF f.kind = "json" THEN Leaves(u.v, <<>>, TRUE)
      ELSE IF u.user = <<>> THEN Leaves([t |-> "obj", n |-> 0, x |-> "", kv |-> <<>>], <<>>, TRUE)
      ELSE UNION {Leaves(u.user[i].v, Tail(PathOfNode(f.userTree, u.user[i].node)), TRUE) : i \in 1 .. Len(u.user)}
Done == ex.phase = "closed" /\ ex.k > 0
TakenFor(k) == SelectSeq(taken, LAMBDA r : r.archive = k)

(* What is extracted from an archive is what was ingested into it, each      *)
(* record once, with every value under its key path; an ordered extraction   *)
(* gives the records in the order they were ingested.                        *)
RoundTrip ==
  Done =>
    LET given == [i \in 1 .. Len(TakenFor(ex.k)) |-> Given(TakenFor(ex.k)[i])]
        got   == [i \in 1 .. Len(out) |-> Leaves(out[i], <<>>, TRUE)]
    IN  /\ chunks # <<>> => got = given
        /\ Len(got) = Len(given)
        /\ \A r \in Range(given) \cup Range(got) :
             Cardinality({i \in 1 .. Len(got) : got[i] = r}) = Cardinality({i \in 1 .. Len(given) : given[i] = r})

(* The chunks of an ordered extraction cover the log events of the archive   *)
(* without gap or overlap, so that an extraction job finds the chunk of any  *)
(* log event (finalize_chunk).                                               *)
ChunksTile ==
  Done /\ chunks # <<>> =>
    /\ chunks[1].begin = 0 /\ Last(chunks).end = Len(out)
    /\ \A i \in 2 .. Len(chunks) : chunks[i].begin = chunks[i - 1].end

(* Extraction throws only for an archive without records, and for schemas    *)
(* without columns that share a stream of size 0.                            *)
ThrowsOnlyIfEmpty ==
  ex.phase = "threw" => A.schemas = <<>> \/ \E s \in Range(A.packed.sizes) : s = 0

(* get_metadata_for_log_event finds, for each log event of an archive, the   *)
(* range of the file and of the split it was ingested from.                  *)
RangesOf(a, idx) ==
  LET after == {i \in 1 .. Len(a.ranges) : a.ranges[i].end > a.ranges[i].start /\ a.ranges[i].end > idx}
  IN  {a.ranges[i].fields : i \in {k \in after : \A j \in after : a.ranges[k].end <= a.ranges[j].end}}
MetadataOfEvents ==
  opt.order =>
    \A i \in 1 .. Len(taken) :
      taken[i].archive <= Len(archives) =>
        LET rs == RangesOf(archives[taken[i].archive], taken[i].idx)
        IN  rs # {} /\ \A f \in rs : f.file = taken[i].file /\ f.split = taken[i].split
=============================================================================
