----------------------------- MODULE KvIrStream -----------------------------
(***************************************************************************)
(* A key-value IR stream: Serializer turns pairs of msgpack maps (auto-    *)
(* generated and user-generated keys) into IR units, growing a schema tree *)
(* for each; Deserializer reads the units back, growing the same trees.    *)
(* The stream is a sequence of units' parts; a crash of the writer leaves  *)
(* any prefix of what it flushed.  A msgpack value is [t, n, x, kv]: its   *)
(* type and its number, its text or, for a map, its pairs.                 *)
(***************************************************************************)
EXTENDS Integers, Sequences, FiniteSets, SequencesExt, TLC

CONSTANTS Maps,        \* pairs [auto, user] of maps the application logs
          Offsets,     \* UTC offsets it switches to
          Metadata,    \* kinds of user-defined metadata: "none", "object", "other"
          IdMax,       \* the largest node id of one, two and four bytes
          IntMax,      \* the largest integer of one, two, four and eight bytes
          ClpStrings,  \* strings with a space
          TooLong,     \* strings and keys longer than a length field can say
          MaxUnits     \* bound: calls of the serializer

VARIABLES ser,     \* the Serializer: both trees and the UTC offset; or its error
          irBuf,   \* m_ir_buf
          stream,  \* what was written out
          calls,   \* calls made
          sent,    \* log events serialized, with the offset at the time
          des,     \* the Deserializer
          got      \* log events given to the handler

kvVars == <<ser, irBuf, stream, calls, sent, des, got>>

Root == [parent |-> -1, key |-> "", type |-> "Obj"]
NonString == "<not a string>"

-----------------------------------------------------------------------------
(* SchemaTree: node id n is element n + 1. *)
HasId(tree, id) == id < Len(tree)
Children(tree, id) == {c \in 1 .. Len(tree) - 1 : tree[c + 1].parent = id}
TryGetNodeId(tree, n) == {c \in Children(tree, n.parent) : tree[c + 1] = n}
RECURSIVE Ancestors(_, _)
Ancestors(tree, id) ==
  IF tree[id + 1].parent <= 0 THEN {}
  ELSE {tree[id + 1].parent} \cup Ancestors(tree, tree[id + 1].parent)
RECURSIVE PathOf(_, _)
PathOf(tree, id) == IF id = 0 THEN <<>> ELSE Append(PathOf(tree, tree[id + 1].parent), tree[id + 1].key)

(* The width of an encoded id and its value: auto-generated ids are stored as *)
(* their ones' complement.                                                    *)
EncodeId(id, auto) ==
  [k |-> "id", w |-> SelectInSeq(IdMax, LAMBDA m : id <= m), n |-> IF auto THEN -id - 1 ELSE id]
DecodeId(tok) == [auto |-> tok.n < 0, id |-> IF tok.n < 0 THEN -tok.n - 1 ELSE tok.n]

-----------------------------------------------------------------------------
(* Serializer *)
NodeType(v) ==
  CASE v.t = "int" -> "Int" [] v.t = "float" -> "Float" [] v.t = "str" -> "Str"
    [] v.t = "bool" -> "Bool" [] v.t \in {"nil", "map"} -> "Obj" [] v.t = "arr" -> "Array"
    [] OTHER -> "none"

(* is_msgpack_array_serializable looks at the elements of arrays and at the *)
(* keys of maps, not at the values of maps.                                 *)
ArraySerializable(v) == v.x \notin {"holdsBinary", "nonStringKey"}

SerializeValue(v) ==
  LET tok(tag) == <<[k |-> "val", tag |-> tag, n |-> v.n, x |-> v.x]>>
      width    == SelectInSeq(IntMax, LAMBDA m : -m - 1 <= v.n /\ v.n <= m)
  IN  CASE v.t = "int"   -> IF v.n > IntMax[4] THEN <<>> ELSE tok(<<"Int1", "Int2", "Int4", "Int8">>[width])
        [] v.t = "str"   -> IF v.x \in TooLong THEN <<>>
                            ELSE tok(IF v.x \in ClpStrings THEN "ClpStr" ELSE "Str")
        [] v.t = "arr"   -> IF ArraySerializable(v) THEN tok("ClpStr") ELSE <<>>
        [] v.t = "nil"   -> tok("Null")
        [] v.t = "bool"  -> tok("Bool")
        [] OTHER         -> tok("Float")

EmptyObject == [k |-> "val", tag |-> "Empty", n |-> 0, x |-> ""]

SchemaTreeNode(n, auto) ==
  [k |-> "node", type |-> n.type, parent |-> EncodeId(n.parent, auto), key |-> n.key]

(* One pair of a map, depth first: a new node for a new key and type, then    *)
(* the pair itself or the inner map.  "failed" is any of the error returns.   *)
RECURSIVE SerializeDfs(_, _, _, _)
SerializeDfs(kvs, parent, auto, acc0) ==
  LET step(acc, kv) ==
        LET n      == [parent |-> parent, key |-> kv.k, type |-> NodeType(kv.v)]
            old    == TryGetNodeId(acc.tree, n)
            id     == IF old = {} THEN Len(acc.tree) ELSE CHOOSE c \in old : TRUE
            tree   == IF old = {} THEN Append(acc.tree, n) ELSE acc.tree
            nodes  == IF old = {} THEN Append(acc.nodes, SchemaTreeNode(n, auto)) ELSE acc.nodes
            val    == IF kv.v.t = "map" THEN <<EmptyObject>> ELSE SerializeValue(kv.v)
            fails  == \/ kv.k = NonString
                      \/ n.type = "none"
                      \/ old = {} /\ (parent > IdMax[3] \/ kv.k \in TooLong)
            acc1   == [acc EXCEPT !.tree = tree, !.nodes = nodes]
        IN  IF acc.failed \/ fails THEN [acc EXCEPT !.failed = TRUE]
            ELSE IF kv.v.t = "map" /\ kv.v.kv # <<>> THEN SerializeDfs(kv.v.kv, id, auto, acc1)
            ELSE IF id > IdMax[3] \/ val = <<>> THEN [acc EXCEPT !.failed = TRUE]
            ELSE [acc1 EXCEPT !.ids = Append(@, EncodeId(id, auto)) \o (IF auto THEN val ELSE <<>>),
                              !.vals = @ \o (IF auto THEN <<>> ELSE val)]
  IN  FoldLeft(step, acc0, kvs)

NewResult(tree) == [tree |-> tree, nodes |-> <<>>, ids |-> <<>>, vals |-> <<>>, failed |-> FALSE]

(* An empty map of user-generated keys still writes one byte. *)
UserGenUnits(m) ==
  IF m.user = <<>> THEN [NewResult(ser.user) EXCEPT !.ids = <<EmptyObject>>]
  ELSE SerializeDfs(m.user, 0, FALSE, NewResult(ser.user))

(* The trees go back to their snapshots if anything failed. *)
TreesAfter(a, u) ==
  IF a.failed \/ u.failed THEN ser ELSE [ser EXCEPT !.auto = a.tree, !.user = u.tree]

(* serialize_msgpack_map: the units reach m_ir_buf only at the end. *)
SerializeMsgpackMap(m) ==
  LET written(a, u, ok) ==
        /\ ser' = TreesAfter(a, u)
        /\ irBuf' = irBuf \o (IF ok THEN a.nodes \o u.nodes \o a.ids \o u.ids \o u.vals ELSE <<>>)
        /\ sent' = IF ok THEN Append(sent, [m |-> m, utc |-> ser.utc]) ELSE sent
      units(a, u) == written(a, u, ~a.failed /\ ~u.failed)
  IN  /\ ser.made /\ calls < MaxUnits
      /\ calls' = calls + 1
      /\ units(SerializeDfs(m.auto, 0, TRUE, NewResult(ser.auto)), UserGenUnits(m))
      /\ UNCHANGED <<stream, des, got>>

ChangeUtcOffset(o) ==
  /\ ser.made /\ calls < MaxUnits
  /\ calls' = calls + 1
  /\ ser' = [ser EXCEPT !.utc = o]
  /\ irBuf' = Append(irBuf, [k |-> "utc", x |-> o])
  /\ UNCHANGED <<stream, sent, des, got>>

(* create: the magic number and the metadata; only an object will do. *)
CreateSerializer(md) ==
  /\ ~ser.made /\ calls = 0 /\ stream = <<>>
  /\ calls' = 1
  /\ IF md = "other" THEN UNCHANGED <<ser, irBuf>>
     ELSE /\ ser' = [ser EXCEPT !.made = TRUE]
          /\ irBuf' = <<[k |-> "preamble", version |-> "current", user |-> md]>>
  /\ UNCHANGED <<stream, sent, des, got>>

(* The application writes out get_ir_buf_view and clears the buffer. *)
Flush ==
  /\ ser.made /\ irBuf # <<>>
  /\ stream' = stream \o irBuf
  /\ irBuf' = <<>>
  /\ UNCHANGED <<ser, calls, sent, des, got>>

(* It ends the stream with the end-of-stream tag, *)
Close ==
  /\ ser.made
  /\ stream' = stream \o irBuf \o <<[k |-> "eof"]>>
  /\ ser' = [ser EXCEPT !.made = FALSE]
  /\ irBuf' = <<>>
  /\ UNCHANGED <<calls, sent, des, got>>

(* or dies, and part of the last write may be missing. *)
Crash ==
  /\ ser.made
  /\ \E n \in 0 .. Len(stream) : stream' = SubSeq(stream, 1, n)
  /\ ser' = [ser EXCEPT !.made = FALSE]
  /\ irBuf' = <<>>
  /\ UNCHANGED <<calls, sent, des, got>>

-----------------------------------------------------------------------------
(* Deserializer.  Reading past the end of the stream is IncompleteStream.     *)
At(p) == IF p <= Len(stream) THEN stream[p] ELSE [k |-> "end"]
ReadFails(err) == [err |-> err, p |-> 0, auto |-> <<>>, user |-> <<>>]

(* The pairs of auto-generated keys, a later value of the same key dropped;   *)
(* they stop at the first id of a user-generated key.                         *)
RECURSIVE AutoGenPairs(_, _)
AutoGenPairs(p, pairs) ==
  LET tok == At(p) IN
  IF tok.k # "id" \/ ~DecodeId(tok).auto THEN [err |-> "", p |-> p, pairs |-> pairs]
  ELSE IF At(p + 1).k # "val"
       THEN [err |-> IF At(p + 1).k = "end" THEN "Incomplete" ELSE "UnknownValueType", p |-> p, pairs |-> pairs]
       ELSE LET id == DecodeId(tok).id
            IN  AutoGenPairs(p + 2, IF id \in DOMAIN pairs THEN pairs ELSE pairs @@ (id :> At(p + 1)))

RECURSIVE UserGenSchema(_, _)
UserGenSchema(p, ids) ==
  LET tok == At(p)
  IN  CASE tok.k = "end" -> [err |-> "Incomplete", p |-> p, ids |-> ids]
        [] tok.k = "id" /\ DecodeId(tok).auto -> [err |-> "InvalidKeyGroupOrdering", p |-> p, ids |-> ids]
        [] tok.k = "id" /\ ~DecodeId(tok).auto -> UserGenSchema(p + 1, Append(ids, DecodeId(tok).id))
        [] OTHER -> [err |-> "", p |-> p, ids |-> ids]

RECURSIVE UserGenValues(_, _, _)
UserGenValues(p, ids, pairs) ==
  IF ids = <<>> THEN [err |-> "", p |-> p, pairs |-> pairs]
  ELSE CASE Head(ids) \in DOMAIN pairs -> [err |-> "DuplicateKey", p |-> p, pairs |-> pairs]
         [] Head(ids) \notin DOMAIN pairs /\ At(p).k = "val" ->
              UserGenValues(p + 1, Tail(ids), pairs @@ (Head(ids) :> At(p)))
         [] OTHER -> [err |-> IF At(p).k = "end" THEN "Incomplete" ELSE "UnknownValueType",
                      p |-> p, pairs |-> pairs]

(* KeyValuePairLogEvent::create *)
NodeTypeMatches(type, tok) ==
  CASE type = "Obj"   -> tok.tag \in {"Empty", "Null"}
    [] type = "Int"   -> tok.tag \in {"Int1", "Int2", "Int4", "Int8"}
    [] type = "Str"   -> tok.tag \in {"Str", "ClpStr"}
    [] type = "Array" -> tok.tag = "ClpStr"
    [] OTHER          -> tok.tag = type

ValidPairs(tree, pairs) ==
  /\ \A id \in DOMAIN pairs :
       /\ HasId(tree, id) /\ id # 0
       /\ NodeTypeMatches(tree[id + 1].type, pairs[id])
  /\ LET named == DOMAIN pairs \cup UNION {Ancestors(tree, id) : id \in DOMAIN pairs}
     IN  /\ \A id \in DOMAIN pairs : \A d \in DOMAIN pairs : id \notin Ancestors(tree, d)
         /\ \A c, d \in named : c # d =>
              <<tree[c + 1].parent, tree[c + 1].key>> # <<tree[d + 1].parent, tree[d + 1].key>>

LogEventAt(p) ==
  LET values(a, v) == IF v.err # "" THEN ReadFails(v.err) ELSE [err |-> "", p |-> v.p, auto |-> a.pairs, user |-> v.pairs]
      schema(a, s) ==
        CASE s.err # "" -> ReadFails(s.err)
          [] s.err = "" /\ s.ids = <<>> ->
               IF At(s.p) = EmptyObject THEN [err |-> "", p |-> s.p + 1, auto |-> a.pairs, user |-> <<>>]
               ELSE ReadFails("InvalidTag")
          [] OTHER -> values(a, UserGenValues(s.p, s.ids, <<>>))
      pairs(a) == IF a.err # "" THEN ReadFails(a.err) ELSE schema(a, UserGenSchema(a.p, <<>>))
  IN  pairs(AutoGenPairs(p, <<>>))

(* serialize_to_json: the pairs as the leaves of an object; the text of an    *)
(* array is parsed again, which binary data inside it breaks.                 *)
ToJson(tree, pairs) ==
  IF \E id \in DOMAIN pairs : tree[id + 1].type = "Array" /\ pairs[id].x = "holdsBinaryInMap"
  THEN "protocol_error"
  ELSE {[path |-> PathOf(tree, id), type |-> tree[id + 1].type, n |-> pairs[id].n, x |-> pairs[id].x,
         empty |-> pairs[id].tag = "Empty"] : id \in DOMAIN pairs}

CreateDeserializer ==
  /\ ~ser.made /\ calls > 0 /\ des.p = 0
  /\ des' = IF At(1).k = "preamble" /\ At(1).version = "current" /\ At(1).user \in {"none", "object"}
            THEN [des EXCEPT !.p = 2] ELSE [des EXCEPT !.p = 1, !.err = "Incomplete"]
  /\ UNCHANGED <<ser, irBuf, stream, calls, sent, got>>

Reading == des.p > 0 /\ des.err = "" /\ ~des.complete
Stops(err) == des' = [des EXCEPT !.err = err] /\ UNCHANGED got

ReadNode ==
  LET tok  == At(des.p)
      pid  == DecodeId(tok.parent)
      node == [parent |-> pid.id, key |-> tok.key, type |-> tok.type]
      tree == IF pid.auto THEN des.auto ELSE des.user
  IN  IF TryGetNodeId(tree, node) # {} THEN Stops("protocol_error")
      ELSE /\ des' = [des EXCEPT !.p = @ + 1,
                                 !.auto = IF pid.auto THEN Append(tree, node) ELSE @,
                                 !.user = IF pid.auto THEN @ ELSE Append(tree, node)]
           /\ UNCHANGED got

ReadLogEvent ==
  LET read(r) ==
        IF r.err # "" THEN Stops(r.err)
        ELSE IF ~ValidPairs(des.auto, r.auto) \/ ~ValidPairs(des.user, r.user) THEN Stops("invalid event")
        ELSE /\ des' = [des EXCEPT !.p = r.p, !.idx = @ + 1]
             /\ got' = Append(got, [idx |-> des.idx, utc |-> des.utc,
                                    auto |-> ToJson(des.auto, r.auto), user |-> ToJson(des.user, r.user)])
  IN  read(LogEventAt(des.p))

DeserializeNextIrUnit ==
  /\ Reading
  /\ LET tok == At(des.p)
     IN  CASE tok.k = "end"  -> Stops("Incomplete")
           [] tok.k = "node" -> ReadNode
           [] tok.k = "utc"  -> des' = [des EXCEPT !.p = @ + 1, !.utc = tok.x] /\ UNCHANGED got
           [] tok.k = "eof"  -> des' = [des EXCEPT !.complete = TRUE] /\ UNCHANGED got
           [] tok.k = "id" \/ tok = EmptyObject -> ReadLogEvent
           [] OTHER -> Stops("protocol_not_supported")
  /\ UNCHANGED <<ser, irBuf, stream, calls, sent>>

KvInit ==
  /\ ser = [made |-> FALSE, auto |-> <<Root>>, user |-> <<Root>>, utc |-> 0]
  /\ irBuf = <<>> /\ stream = <<>> /\ calls = 0 /\ sent = <<>>
  /\ des = [p |-> 0, auto |-> <<Root>>, user |-> <<Root>>, utc |-> 0, idx |-> 0, complete |-> FALSE, err |-> ""]
  /\ got = <<>>

KvNext ==
  \/ \E md \in Metadata : CreateSerializer(md)
  \/ \E m \in Maps : SerializeMsgpackMap(m)
  \/ \E o \in Offsets : ChangeUtcOffset(o)
  \/ Flush \/ Close \/ Crash
  \/ CreateDeserializer \/ DeserializeNextIrUnit

KvSpec == KvInit /\ [][KvNext]_kvVars

-----------------------------------------------------------------------------
(* What the application logged, as the leaves of an object. *)
RECURSIVE LeavesOf(_, _)
LeavesOf(kvs, path) ==
  UNION {LET v == kvs[i].v
             p == Append(path, kvs[i].k)
         IN  IF v.t = "map" /\ v.kv # <<>> THEN LeavesOf(v.kv, p)
             ELSE {[path |-> p, type |-> NodeType(v), n |-> v.n, x |-> v.x,
                    empty |-> v.t = "map"]} : i \in 1 .. Len(kvs)}
RECURSIVE DistinctKeys(_)
DistinctKeys(kvs) ==
  /\ \A i, j \in 1 .. Len(kvs) : i # j => kvs[i].k # kvs[j].k
  /\ \A i \in 1 .. Len(kvs) : kvs[i].v.t = "map" => DistinctKeys(kvs[i].v.kv)
Plain(m) == DistinctKeys(m.auto) /\ DistinctKeys(m.user)
HasBinary(kvs) == \E l \in LeavesOf(kvs, <<>>) : l.x = "holdsBinaryInMap"
JsonOf(kvs) == IF HasBinary(kvs) THEN "protocol_error" ELSE LeavesOf(kvs, <<>>)

(* The trees are forests rooted at node 0: a parent is an earlier Obj node    *)
(* and no two siblings have the same key and type, also after a failed call   *)
(* put a tree back.                                                           *)
TreesWellFormed ==
  \A tree \in {ser.auto, ser.user, des.auto, des.user} :
    \A i \in 2 .. Len(tree) :
      /\ tree[i].parent \in 0 .. i - 2
      /\ tree[tree[i].parent + 1].type = "Obj"
      /\ \A j \in 2 .. Len(tree) : tree[i] = tree[j] => i = j

(* The reader's trees stay prefixes of the writer's: the node ids in the log  *)
(* events mean the same key on both sides, whatever calls failed in between.  *)
TreesAgree == IsPrefix(des.auto, ser.auto) /\ IsPrefix(des.user, ser.user)

(* Every log event the reader hands out is the one logged at that index, with *)
(* its values, its nesting and its UTC offset, in order.                      *)
EventsRoundTrip ==
  \A i \in 1 .. Len(got) :
    /\ i <= Len(sent)
    /\ got[i] = [idx |-> i - 1, utc |-> sent[i].utc,
                 auto |-> JsonOf(sent[i].m.auto), user |-> JsonOf(sent[i].m.user)]

(* A stream of maps without repeated keys is read to its end, or, if the      *)
(* writer died, until the bytes run out; a closed one gives back every event. *)
ReadsToTheEnd ==
  (\A i \in 1 .. Len(sent) : Plain(sent[i].m)) =>
    /\ des.err \in {"", "Incomplete"}
    /\ des.complete => Len(got) = Len(sent)
============================================================================
