------------------------------- MODULE IrText -------------------------------
(***************************************************************************)
(* A CLP IR stream of unstructured log events: LogEventSerializer writes   *)
(* it (clp/ir, clp/ffi/ir_stream/encoding_methods), LogEventDeserializer   *)
(* or UnstructuredIrDeserializerImpl read it (decoding_methods).  The      *)
(* stream is a sequence of tags, numbers and characters; the file may end  *)
(* anywhere, because the writer stopped before it closed the stream, and   *)
(* one tag may have been damaged.                                          *)
(***************************************************************************)
EXTENDS ClpText

CONSTANTS Sessions,     \* what is written: width, events, metadata; and the reader's interface
          UByteMax, UShortMax, LenMax,  \* the lengths one, two and four bytes hold
          DeltaMax      \* <<byte, short, int>>: the deltas one, two and four bytes hold

VARIABLES ses, wr, st, rd
irVars == <<ses, wr, st, rd>>

(***************************************************************************)
(* Writing                                                                 *)
(***************************************************************************)
Tag(t) == [kind |-> "tag", t |-> t, n |-> 0]
Number(n) == [kind |-> "number", t |-> "", n |-> n]
Metadata(version, ref) == [kind |-> "metadata", t |-> version, n |-> ref]
Text(s) == [i \in DOMAIN s |-> [kind |-> "char", t |-> s[i], n |-> 0]]

\* The tag for a string of a length, <<>> when it is too long for any.
LengthTag(kind, len) ==
  IF len <= UByteMax THEN <<kind \o "UByte">>
  ELSE IF len <= UShortMax THEN <<kind \o "UShort">>
  ELSE IF len <= LenMax THEN <<kind \o "Int">> ELSE <<>>

SerializeText(kind, s) == <<Tag(LengthTag(kind, Len(s))[1]), Number(Len(s))>> \o Text(s)

\* The metadata is one item: its version and the reference timestamp.
SerializePreamble(w, prev) ==
  <<Tag(w), Tag("json")>>
    \o <<Tag(IF ses.meta <= UByteMax THEN "LengthUByte" ELSE "LengthUShort"), Number(ses.meta)>>
    \o <<Metadata(ses.version, prev)>>

\* The variables of a message in their order, until one is too long.
SerializeVariables(s, w) ==
  LET add(r, v, x) ==
        IF x.placeholder # Dictionary THEN [r EXCEPT !.items = @ \o <<Tag("Var" \o w), Number(x.encoded[1])>>]
        ELSE IF LengthTag("VarStr", Len(v)) = <<>> THEN [r EXCEPT !.ok = FALSE]
        ELSE [r EXCEPT !.items = @ \o SerializeText("VarStr", v)]
      step(r, t) == IF r.ok THEN add(r, SubSeq(s, t[1], t[2]), EncodeVariable(SubSeq(s, t[1], t[2]), w)) ELSE r
  IN FoldLeft(step, [ok |-> TRUE, items |-> <<>>], Variables(s))

SerializeMessage(s, w) ==
  LET add(vars, logtype) ==
        IF ~vars.ok THEN vars
        ELSE IF LengthTag("LogtypeStr", Len(logtype)) = <<>> THEN [vars EXCEPT !.ok = FALSE]
        ELSE [vars EXCEPT !.items = @ \o SerializeText("LogtypeStr", logtype)]
  IN add(SerializeVariables(s, w), EncodeMessage(s, w).logtype)

SerializeTimestamp(d) ==
  CASE d \in -(DeltaMax[1] + 1) .. DeltaMax[1] -> <<Tag("TimestampDeltaByte"), Number(d)>>
    [] d \notin -(DeltaMax[1] + 1) .. DeltaMax[1] /\ d \in -(DeltaMax[2] + 1) .. DeltaMax[2] -> <<Tag("TimestampDeltaShort"), Number(d)>>
    [] d \notin -(DeltaMax[2] + 1) .. DeltaMax[2] /\ d \in -(DeltaMax[3] + 1) .. DeltaMax[3] -> <<Tag("TimestampDeltaInt"), Number(d)>>
    [] OTHER -> <<Tag("TimestampDeltaLong"), Number(d)>>

\* LogEventSerializer::open.  The preamble is flushed at once.
OpenSerializer ==
  /\ wr.pc = "closed"
  /\ IF ses.meta <= UShortMax
     THEN /\ wr' = [wr EXCEPT !.pc = "open"]
          /\ st' = SerializePreamble(ses.w, wr.prev)
     ELSE /\ wr' = [wr EXCEPT !.pc = "done"]
          /\ st' = <<>>
  /\ UNCHANGED <<ses, rd>>

\* LogEventSerializer::serialize_log_event.  A caller whose event was refused
\* gives the stream up (ClpExtract).
SerializeLogEvent ==
  /\ wr.pc = "open" /\ wr.i < Len(ses.events)
  /\ ses.events[wr.i + 1].utc = wr.utc
  /\ LET e == ses.events[wr.i + 1]
         ts == IF ses.w = "four" THEN SerializeTimestamp(e.ts - wr.prev) ELSE <<Tag("TimestampVal"), Number(e.ts)>>
         after(m) == [wr EXCEPT !.i = @ + 1, !.prev = e.ts, !.pc = IF m.ok THEN @ ELSE "done",
                        !.buf = @ \o m.items \o (IF m.ok THEN ts ELSE <<>>), !.num = IF m.ok THEN @ + 1 ELSE @]
     IN wr' = after(SerializeMessage(e.text, ses.w))
  /\ UNCHANGED <<ses, st, rd>>

\* serialize_utc_offset_change, before the event that has another offset.
SerializeUtcOffsetChange ==
  /\ wr.pc = "open" /\ wr.i < Len(ses.events)
  /\ ses.events[wr.i + 1].utc # wr.utc
  /\ wr' = [wr EXCEPT !.utc = ses.events[wr.i + 1].utc, !.buf = @ \o <<Tag("UtcOffsetChange"), Number(ses.events[wr.i + 1].utc)>>]
  /\ UNCHANGED <<ses, st, rd>>

\* LogEventSerializer::flush, which a client may call between events.
Flush ==
  /\ wr.pc = "open" /\ wr.buf # <<>>
  /\ st' = st \o wr.buf
  /\ wr' = [wr EXCEPT !.buf = <<>>]
  /\ UNCHANGED <<ses, rd>>

CloseSerializer ==
  /\ wr.pc = "open" /\ wr.i = Len(ses.events)
  /\ st' = st \o wr.buf \o <<Tag("Eof")>>
  /\ wr' = [wr EXCEPT !.pc = "done", !.buf = <<>>, !.closed = TRUE]
  /\ UNCHANGED <<ses, rd>>

\* The writer stops: what reached the file ends anywhere.
Crash ==
  /\ wr.pc \in {"open", "done"} /\ rd.pc = "off" /\ wr.fault = "none"
  /\ \E n \in 0 .. Len(st \o wr.buf) - 1 : st' = SubSeq(st \o wr.buf, 1, n)
  /\ wr' = [wr EXCEPT !.pc = "done", !.fault = "cut", !.buf = <<>>]
  /\ UNCHANGED <<ses, rd>>

\* A tag of the finished file is damaged.
Damage ==
  /\ wr.pc = "done" /\ rd.pc = "off" /\ wr.fault = "none"
  /\ \E i \in {j \in DOMAIN st : st[j].kind = "tag"} : st' = [st EXCEPT ![i] = Tag("junk")]
  /\ wr' = [wr EXCEPT !.fault = "damage"]
  /\ UNCHANGED <<ses, rd>>

(***************************************************************************)
(* Reading.  Both readers take the same steps; the units of                *)
(* UnstructuredIrDeserializerImpl begin with the two schema-tree nodes.    *)
(***************************************************************************)
Has(n) == rd.pos + n <= Len(st)
Item(n) == st[rd.pos + n]
Stop(res) == rd' = [rd EXCEPT !.pc = "done", !.res = res]

\* get_encoding_type.
GetEncodingType ==
  /\ rd.pc = "off" /\ wr.pc = "done"
  /\ IF ~Has(1) THEN Stop("incomplete")
     ELSE IF Item(1).t \notin {"four", "eight"} THEN Stop("corrupt")
     ELSE rd' = [rd EXCEPT !.pc = "preamble", !.pos = 1, !.w = Item(1).t]
  /\ UNCHANGED <<ses, wr, st>>

BackwardCompatible == {"v0.0.0", "0.0.1", "0.0.2"}

\* deserialize_preamble and create.
CreateReader ==
  /\ rd.pc = "preamble"
  /\ IF ~Has(2) THEN Stop("incomplete")
     ELSE IF Item(2).t \notin {"LengthUByte", "LengthUShort"} THEN Stop("corrupt")
     ELSE IF ~Has(4) THEN Stop("incomplete")
     ELSE IF Item(1).t # "json" THEN Stop("unsupported")
     ELSE IF Item(4).t = "none" THEN Stop("corrupt")
     ELSE IF Item(4).t \notin BackwardCompatible THEN Stop("unsupported")
     ELSE rd' = [rd EXCEPT !.pc = "unit", !.pos = @ + 4, !.prev = IF rd.w = "four" THEN Item(4).n ELSE 0,
                           !.pending = IF ses.api = "unit" THEN <<"timestamp", "message">> ELSE <<>>]
  /\ UNCHANGED <<ses, wr, st>>

\* deserialize_ir_unit_schema_tree_node_insertion.
NodeInsertion ==
  /\ rd.pc = "unit" /\ rd.pending # <<>>
  /\ rd' = [rd EXCEPT !.pending = Front(@), !.nodes = @ \cup {Last(rd.pending)}]
  /\ UNCHANGED <<ses, wr, st>>

\* The tag that says what comes next; an offset change is read at once.
NextUnit ==
  /\ rd.pc = "unit" /\ rd.pending = <<>>
  /\ IF ~Has(1) THEN Stop("incomplete")
     ELSE IF Item(1).t = "Eof" THEN Stop("end")
     ELSE IF Item(1).t # "UtcOffsetChange"
          THEN rd' = [rd EXCEPT !.pc = "variables", !.pos = @ + 1, !.tag = Item(1).t, !.encoded = <<>>, !.dict = <<>>]
     ELSE IF ~Has(2) THEN Stop("incomplete")
     ELSE rd' = [rd EXCEPT !.pos = @ + 2, !.utc = Item(2).n]
  /\ UNCHANGED <<ses, wr, st>>

StringTags(kind) == {kind \o "UByte", kind \o "UShort", kind \o "Int"}

\* A string after its tag: its length and its characters are there.
HasString == IF Has(1) THEN Has(1 + Item(1).n) ELSE FALSE
String == [i \in 1 .. Item(1).n |-> Item(1 + i).t]

\* One round of the loop of deserialize_encoded_text_ast.
ReadVariable ==
  /\ rd.pc = "variables" /\ rd.tag \in StringTags("VarStr") \cup {"Var" \o rd.w}
  /\ IF ~(IF rd.tag = "Var" \o rd.w THEN Has(1) ELSE HasString) THEN Stop("incomplete")
     ELSE LET n == IF rd.tag = "Var" \o rd.w THEN 1 ELSE 1 + Item(1).n
          IN IF ~Has(n + 1) THEN Stop("incomplete")
             ELSE rd' = [rd EXCEPT !.pos = @ + n + 1, !.tag = Item(n + 1).t,
                                   !.encoded = IF rd.tag = "Var" \o rd.w THEN Append(@, Item(1).n) ELSE @,
                                   !.dict = IF rd.tag = "Var" \o rd.w THEN @ ELSE Append(@, String)]
  /\ UNCHANGED <<ses, wr, st>>

ReadLogtype ==
  /\ rd.pc = "variables" /\ rd.tag \notin StringTags("VarStr") \cup {"Var" \o rd.w}
  /\ IF rd.tag \notin StringTags("LogtypeStr") THEN Stop("corrupt")
     ELSE IF ~HasString THEN Stop("incomplete")
     ELSE rd' = [rd EXCEPT !.pc = "timestamp", !.pos = @ + 1 + Item(1).n, !.logtype = String]
  /\ UNCHANGED <<ses, wr, st>>

TimestampTags == IF rd.w = "eight" THEN {"TimestampVal"}
                 ELSE {"TimestampDeltaByte", "TimestampDeltaShort", "TimestampDeltaInt", "TimestampDeltaLong"}

\* deserialize_timestamp, and the event that is returned.
ReadTimestamp ==
  /\ rd.pc = "timestamp"
  /\ IF ~Has(1) THEN Stop("incomplete")
     ELSE IF Item(1).t \notin TimestampTags THEN Stop("corrupt")
     ELSE IF ~Has(2) THEN Stop("incomplete")
     ELSE LET ts == IF rd.w = "eight" THEN Item(2).n ELSE rd.prev + Item(2).n
          IN rd' = [rd EXCEPT !.pc = "unit", !.pos = @ + 2, !.prev = ts,
                              !.out = Append(@, [ts |-> ts, utc |-> rd.utc,
                                                 ast |-> [logtype |-> rd.logtype, encoded |-> rd.encoded, dict |-> rd.dict]])]
  /\ UNCHANGED <<ses, wr, st>>

IRInit ==
  /\ ses \in Sessions
  /\ wr = [pc |-> "closed", i |-> 0, num |-> 0, prev |-> ses.ref, utc |-> 0, buf |-> <<>>, closed |-> FALSE, fault |-> "none"]
  /\ st = <<>>
  /\ rd = [pc |-> "off", pos |-> 0, w |-> "", tag |-> "", logtype |-> <<>>, encoded |-> <<>>, dict |-> <<>>, prev |-> 0,
           utc |-> 0, pending |-> <<>>, nodes |-> {}, out |-> <<>>, res |-> ""]

IRNext ==
  \/ OpenSerializer \/ SerializeLogEvent \/ SerializeUtcOffsetChange \/ Flush \/ CloseSerializer \/ Crash \/ Damage
  \/ GetEncodingType \/ CreateReader \/ NodeInsertion \/ NextUnit \/ ReadVariable \/ ReadLogtype \/ ReadTimestamp

IRSpec == IRInit /\ [][IRNext]_irVars

(***************************************************************************)
(* Properties                                                              *)
(***************************************************************************)
IRTypeOK ==
  /\ wr.pc \in {"closed", "open", "done"} /\ wr.i \in 0 .. Len(ses.events) /\ wr.num \in {wr.i, wr.i - 1}
  /\ rd.pc \in {"off", "preamble", "unit", "variables", "timestamp", "done"} /\ rd.pos \in 0 .. Len(st)
  /\ rd.res \in {"", "incomplete", "corrupt", "unsupported", "end"}

\* However the file was cut or damaged, the events a reader returns are the
\* first events that were written: their texts, their timestamps (four-byte
\* streams hold differences) and their UTC offsets.
EventsAreRestored ==
  /\ Len(rd.out) <= wr.num
  /\ \A i \in DOMAIN rd.out :
       /\ Unparse(rd.out[i].ast, rd.w) = [fail |-> FALSE, text |-> ses.events[i].text]
       /\ rd.out[i].ts = ses.events[i].ts /\ rd.out[i].utc = ses.events[i].utc

\* A reader sees the end of a stream only where the writer closed it; without
\* a fault it gets there with every event, and a file that was only cut is
\* reported as incomplete, never as corrupt: clients wait for more data then.
EndIsTheEnd ==
  (rd.pc = "done" /\ ses.version \in BackwardCompatible) =>
    /\ rd.res = "end" => (wr.closed /\ Len(rd.out) = Len(ses.events))
    /\ (wr.closed /\ wr.fault = "none") => rd.res = "end"
    /\ wr.fault = "cut" => rd.res = "incomplete"

\* A message is stored in an archive in one way, whether it came as text or in
\* a four-byte or an eight-byte IR stream (so that one query finds all of
\* them), and the archive gives the text back.
ArchivedAlike ==
  \A i \in DOMAIN rd.out :
    LET text == ses.events[i].text
    IN /\ EntryOfAst(rd.out[i].ast, rd.w) = EntryOfText(text)
       /\ DecodeEntry(EntryOfText(text)) = [fail |-> FALSE, text |-> text]
=============================================================================
