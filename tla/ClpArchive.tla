------------------------------ MODULE ClpArchive ------------------------------
(***************************************************************************)
(* clp compression (unstructured logs): FileCompressor parses each input   *)
(* into messages, and streaming_archive::writer::Archive encodes them into *)
(* file splits, segments, dictionaries with a segment index, the archive's *)
(* metadata DB and the global metadata DB.                                 *)
(*                                                                         *)
(* A line is [pats, ts, lt, vars]: the known timestamp patterns that parse *)
(* it (0 stands for a timestamp only the schema's regex matches), its      *)
(* timestamp, its text with the variables taken out, and its variables,    *)
(* all of them dictionary variables.                                       *)
(***************************************************************************)
EXTENDS Integers, Sequences, FiniteSets, SequencesExt, FiniteSetsExt, TLC

CONSTANT Jobs   \* compression jobs: [heuristic, inputs, empties, dict, file, seg]

VARIABLES job,     \* the job: its inputs and the target sizes
          todo,    \* what FileCompressor has left to do, in order
          arc,     \* the Archive writer, and every durable write so far (arc.w)
          ok,      \* all_files_compressed_successfully
          status   \* running, done, failed (an exception left compress), crashed

caVars == <<job, todo, arc, ok, status>>

MaxTs == 99
MinTs == -99
NoPattern == -1   \* nullptr

-----------------------------------------------------------------------------
(* MessageParser and ParsedMessage: a line with a timestamp starts a        *)
(* message, the lines after it without one belong to it.                    *)
KnownPattern(line) ==
  LET known == line.pats \ {0} IN IF known = {} THEN NoPattern ELSE Min(known)

Message(pat, ts, lines) ==
  [pat |-> pat, ts |-> ts, changed |-> FALSE,
   lt |-> [i \in DOMAIN lines |-> [x |-> lines[i].lt, n |-> Len(lines[i].vars)]],
   vars |-> FlattenSeq([i \in DOMAIN lines |-> lines[i].vars])]

\* The pattern of the last message is tried before the known ones.
PatternOf(line, last) == IF last \in line.pats \ {0} THEN last ELSE KnownPattern(line)

\* consume: the message becomes the one returned, and remembers its pattern.
Consume(p, m) == [p EXCEPT !.out = Append(@, [m EXCEPT !.changed = m.pat # p.last]), !.last = m.pat]

ParseLine(p, line) ==
  LET pat == PatternOf(line, p.last)
  IN  IF pat # NoPattern
      THEN [(IF p.buf = <<>> THEN p ELSE Consume(p, Message(p.pat, p.ts, p.buf)))
              EXCEPT !.buf = <<line>>, !.pat = pat, !.ts = line.ts]
      ELSE IF p.buf = <<>> THEN Consume(p, Message(NoPattern, 0, <<line>>))
                           ELSE [p EXCEPT !.buf = Append(@, line)]

ParseMessages(lines) ==
  LET p == FoldLeft(ParseLine, [out |-> <<>>, last |-> NoPattern, buf |-> <<>>, pat |-> NoPattern, ts |-> 0],
                    lines)
  IN  (IF p.buf = <<>> THEN p ELSE Consume(p, Message(p.pat, p.ts, p.buf))).out

\* The events log-surgeon returns: an event starts at a timestamp of the schema.
SchemaEvents(lines) ==
  LET Add(es, line) == IF line.pats # {} \/ es = <<>> \/ Last(es)[1].pats = {}
                       THEN Append(es, <<line>>)
                       ELSE Append(Front(es), Append(Last(es), line))
      events == FoldLeft(Add, <<>>, lines)
  IN  [i \in DOMAIN events |->
         [Message(KnownPattern(events[i][1]), events[i][1].ts, events[i])
            EXCEPT !.changed = events[i][1].pats # {}]]   \* has_header

-----------------------------------------------------------------------------
(* Dictionary writers: an entry's id is its place.                          *)
AddEntry(dict, value) == IF value \in Range(dict) THEN dict ELSE Append(dict, value)
IdOf(dict, value) == SelectInSeq(dict, LAMBDA v : v = value)
DataSizeOfDictionaries(a) == Len(a.lts) + Len(a.vars)

-----------------------------------------------------------------------------
(* streaming_archive::writer::File: three columns and the patterns with the *)
(* number of the first message they apply to.                               *)
NewFile(id, orig, path, splitIx, begin) ==
  [id |-> id, orig |-> orig, path |-> path, splitIx |-> splitIx, begin |-> begin,
   isSplit |-> splitIx > 0, ts |-> <<>>, lt |-> <<>>, vars |-> <<>>, pats |-> <<>>,
   beginTs |-> MaxTs, endTs |-> MinTs]
HasTsPattern(f) == f.pats # <<>>
EndMessageIx(f) == f.begin + Len(f.ts)
EncodedSize(f) == 2 * Len(f.ts) + Len(f.vars)

WriteEncodedMsg(f, ts, lt, vars) ==
  [f EXCEPT !.ts = Append(@, ts), !.lt = Append(@, lt), !.vars = @ \o vars,
            !.beginTs = IF ts < @ THEN ts ELSE @, !.endTs = IF ts > @ THEN ts ELSE @]

\* The row of the file in the metadata DB: the columns' places in the segment.
FileRow(f, seg, pos) ==
  [id |-> f.id, orig |-> f.orig, path |-> f.path, beginTs |-> f.beginTs, endTs |-> f.endTs,
   pats |-> f.pats, begin |-> f.begin, num |-> Len(f.ts), numVars |-> Len(f.vars),
   isSplit |-> f.isSplit, splitIx |-> f.splitIx, seg |-> seg,
   tsPos |-> pos, ltPos |-> pos + Len(f.ts), varPos |-> pos + 2 * Len(f.ts)]

-----------------------------------------------------------------------------
(* Archive: the segments of the files with and without timestamps.          *)
Kinds == {"with", "without"}
EmptySegment == [open |-> FALSE, id |-> 0, cells |-> <<>>, rows |-> <<>>, lts |-> {}, vars |-> {}]
Unassigned == [lts |-> {}, vars |-> {}]
EmptyMetadata == [begin |-> MaxTs, end |-> MinTs]

ClosedArchive ==
  [id |-> -1, open |-> FALSE, file |-> <<>>, seg |-> [k \in Kinds |-> EmptySegment],
   unassigned |-> Unassigned, nextSeg |-> 0, lts |-> <<>>, vars |-> <<>>, index |-> <<>>,
   global |-> <<>>, meta |-> EmptyMetadata, oldPat |-> NoPattern, nextFile |-> 1, w |-> <<>>]

OpenArchive(a, id) ==
  [a EXCEPT !.id = id, !.open = TRUE, !.file = <<>>, !.nextSeg = 0, !.lts = <<>>, !.vars = <<>>,
            !.index = <<>>, !.meta = EmptyMetadata, !.w = Append(@, [op |-> "open", a |-> id])]

WriteDirSnapshot(a) ==
  [a EXCEPT !.w = Append(@, [op |-> "dicts", a |-> a.id, lts |-> a.lts, vars |-> a.vars, index |-> a.index])]

PersistFileMetadata(a, rows) ==
  [a EXCEPT !.w = IF rows = <<>> THEN @ ELSE Append(@, [op |-> "files", a |-> a.id, rows |-> Range(rows)])]

\* index_segment in both dictionaries, and the segment's file is closed and synced.
IndexSegment(a, k) ==
  LET s == a.seg[k]
  IN  [a EXCEPT !.index = Append(@, [seg |-> s.id, lts |-> s.lts, vars |-> s.vars]),
                !.w = Append(@, [op |-> "segment", a |-> a.id, seg |-> s.id, cells |-> s.cells]),
                !.global = @ \o s.rows, !.seg[k] = EmptySegment]

CloseSegment(a, k) == PersistFileMetadata(WriteDirSnapshot(IndexSegment(a, k)), a.seg[k].rows)

CloseIfOpen(a, k) == IF a.seg[k].open THEN CloseSegment(a, k) ELSE a

UpdateGlobalMetadata(a) ==
  [a EXCEPT !.w = @ \o <<[op |-> "garchive", a |-> a.id, begin |-> a.meta.begin, end |-> a.meta.end],
                         [op |-> "gfiles", a |-> a.id, rows |-> Range(a.global)]>>,
            !.global = <<>>, !.open = FALSE]

CloseArchive(a) ==
  UpdateGlobalMetadata(WriteDirSnapshot(CloseIfOpen(CloseIfOpen(a, "with"), "without")))

SplitArchive(a) == OpenArchive(CloseArchive(a), a.id + 1)

-----------------------------------------------------------------------------
(* Archive: the file being compressed (none or one).                        *)
CreateAndOpenFile(a, path, orig, splitIx, begin) ==
  [a EXCEPT !.file = <<NewFile(a.nextFile, orig, path, splitIx, begin)>>, !.nextFile = @ + 1]

ChangeTsPattern(a, pat) == [a EXCEPT !.file[1].pats = Append(@, [from |-> Len(a.file[1].ts), pat |-> pat])]

UpdateSegmentIndices(a, lt, vars) ==
  IF HasTsPattern(a.file[1])
  THEN [a EXCEPT !.seg["with"].lts = @ \cup {lt}, !.seg["with"].vars = @ \cup Range(vars)]
  ELSE [a EXCEPT !.unassigned.lts = @ \cup {lt}, !.unassigned.vars = @ \cup Range(vars)]

\* write_msg, and the end of write_msg_using_schema and write_log_event_ir.
WriteMsg(a, m) ==
  LET lts == AddEntry(a.lts, m.lt)
      vars == FoldLeft(AddEntry, a.vars, m.vars)
      lt == IdOf(lts, m.lt)
      ids == [i \in DOMAIN m.vars |-> IdOf(vars, m.vars[i])]
  IN  UpdateSegmentIndices([a EXCEPT !.lts = lts, !.vars = vars,
                                     !.file[1] = WriteEncodedMsg(@, m.ts, lt, ids)], lt, ids)

Cells(f) == [i \in DOMAIN f.ts |-> [c |-> "ts", n |-> f.ts[i]]]
            \o [i \in DOMAIN f.lt |-> [c |-> "lt", n |-> f.lt[i]]]
            \o [i \in DOMAIN f.vars |-> [c |-> "var", n |-> f.vars[i]]]

OpenIfClosed(a, k) ==
  IF a.seg[k].open THEN a
  ELSE [a EXCEPT !.seg[k].open = TRUE, !.seg[k].id = a.nextSeg, !.nextSeg = @ + 1]

ExpandTimeRange(meta, f) ==
  [begin |-> IF f.beginTs < meta.begin THEN f.beginTs ELSE meta.begin,
   end |-> IF f.endTs > meta.end THEN f.endTs ELSE meta.end]

AppendFileContents(a, k) ==
  LET f == a.file[1]
      b == OpenIfClosed(a, k)
      c == [b EXCEPT !.seg[k].cells = @ \o Cells(f),
                     !.seg[k].rows = Append(@, FileRow(f, b.seg[k].id, Len(b.seg[k].cells))),
                     !.meta = ExpandTimeRange(@, f)]
  IN  IF Len(c.seg[k].cells) >= job.seg THEN CloseSegment(c, k) ELSE c

AppendFileToSegment(a) ==
  LET k == IF HasTsPattern(a.file[1]) THEN "with" ELSE "without"
      b == AppendFileContents([a EXCEPT !.seg[k].lts = @ \cup a.unassigned.lts,
                                        !.seg[k].vars = @ \cup a.unassigned.vars], k)
  IN  [b EXCEPT !.unassigned = Unassigned, !.file = <<>>]

\* Mutant: the next split is not told the pattern in force.
NoPatternSplit(a, f, pat) == CreateAndOpenFile(a, f.path, f.orig, f.splitIx + 1, EndMessageIx(f))

\* The next split of the file, in the same archive or a new one.
NextSplit(a, f, pat) ==
  LET b == CreateAndOpenFile(a, f.path, f.orig, f.splitIx + 1, EndMessageIx(f))
  IN  IF HasTsPattern(f) THEN ChangeTsPattern(b, pat) ELSE b

SplitFile(a, pat) ==
  NextSplit(AppendFileToSegment([a EXCEPT !.file[1].isSplit = TRUE]), a.file[1], pat)
SplitFileAndArchive(a, pat) ==
  NextSplit(SplitArchive(AppendFileToSegment([a EXCEPT !.file[1].isSplit = TRUE])), a.file[1], pat)

SplitIfLarge(a, pat) ==
  IF DataSizeOfDictionaries(a) >= job.dict THEN SplitFileAndArchive(a, pat)
  ELSE IF EncodedSize(a.file[1]) >= job.file THEN SplitFile(a, pat) ELSE a

\* The three ways a message is written; `changed` tells has_ts_patt_changed or has_header.
WriteParsedMessage(a, m) ==
  LET b == SplitIfLarge(a, m.pat) IN WriteMsg(IF m.changed THEN ChangeTsPattern(b, m.pat) ELSE b, m)
WriteUsingSchema(a, m) ==
  LET b == IF m.changed /\ m.pat # a.oldPat
           THEN [ChangeTsPattern(a, m.pat) EXCEPT !.oldPat = m.pat] ELSE a
  IN  WriteMsg(SplitIfLarge(b, m.pat), m)
WriteLogEventIr(a, m) == WriteMsg(SplitIfLarge(a, m.pat), m)

-----------------------------------------------------------------------------
(* FileCompressor: what it does with an input, as a sequence of items.  An  *)
(* item of a stream carries the number g of the stream.                     *)
Item(k, g) == [k |-> k, g |-> g]
Encode(w, path, ms, g) ==
  <<[k |-> "open", g |-> g, path |-> path, w |-> w]>>
  \o [i \in DOMAIN ms |-> [k |-> w, g |-> g, m |-> ms[i]]] \o <<Item("close", g)>>

ParseAndEncode(path, lines, g) ==
  IF job.heuristic THEN Encode("parsed", path, ParseMessages(lines), g)
                   ELSE Encode("schema", path, SchemaEvents(lines), g)

\* compress_ir_stream: every event has the stream's pattern; at the end of the
\* events the stream ends, is corrupt, or its events do not decode (which throws).
CompressIrStream(path, mem, g) ==
  LET ms == [i \in DOMAIN mem.lines |-> Message(mem.pat, mem.lines[i].ts, <<mem.lines[i]>>)]
      items == Encode("ir", path, ms, g)
  IN  CASE mem.end = "ok" -> items
        [] mem.end = "corrupt" -> Append(items, Item("fail", g))
        [] mem.end = "throws" -> Append(Front(items), Item("fail", g))

Parent(path) == Front(path)

\* Members of an archive read by libarchive: regular files, directories and others.
MemberItems(parent, mem, g) ==
  IF mem.type # "reg" THEN <<>>
  ELSE <<Item("member", g)>> \o
       CASE mem.content = "text" -> ParseAndEncode(parent \o mem.path, mem.lines, g)
         [] mem.content = "ir" -> CompressIrStream(parent \o mem.path, mem, g)
         [] OTHER -> <<Item("fail", g)>>   \* unreadable, or neither text nor IR

ParentDirectories(mems) ==
  {Parent(m.path) : m \in {m \in Range(mems) : m.type \in {"reg", "dir"}}} \ {<<>>}

EmptyDirectories(parent, mems) ==
  {parent \o d : d \in {m.path : m \in {m \in Range(mems) : m.type = "dir"}} \ ParentDirectories(mems)}

TryCompressingAsArchive(in, g) ==
  LET parent == Parent(in.path)
  IN  FlattenSeq([i \in DOMAIN in.members |-> MemberItems(parent, in.members[i], <<g, i>>)])
      \o (IF in.badHeader THEN <<Item("fail", <<g, 0>>)>> ELSE <<>>)
      \o <<[k |-> "dirs", g |-> <<g, 0>>, dirs |-> EmptyDirectories(parent, in.members)]>>

CompressFile(in, g) ==
  CASE in.content = "text" -> ParseAndEncode(in.path, in.lines, <<g, 0>>)
    [] in.content = "archive" -> TryCompressingAsArchive(in, g)
    [] OTHER -> <<Item("fail", <<g, 0>>)>>   \* unreadable, or libarchive cannot open it

\* compress: the files in order, then the archive is closed.
Compress(ins) ==
  FlattenSeq([i \in DOMAIN ins |-> <<Item("file", <<i, 0>>)>> \o CompressFile(ins[i], i)])
  \o <<Item("finish", <<0, 0>>)>>

AddEmptyDirectories(a, dirs) ==
  [a EXCEPT !.w = IF dirs = {} THEN @ ELSE Append(@, [op |-> "empty", a |-> a.id, dirs |-> dirs])]

-----------------------------------------------------------------------------
CAInit ==
  /\ job \in Jobs
  /\ todo = Compress(job.inputs)
  /\ arc = AddEmptyDirectories(OpenArchive(ClosedArchive, 0), job.empties)
  /\ ok = TRUE
  /\ status = "running"

Next1 == Head(todo)
Running(k) == status = "running" /\ Next1.k = k
Done1 == todo' = Tail(todo)
Aborts == status' = "failed" /\ UNCHANGED <<job, todo, arc, ok>>

\* compress and try_compressing_as_archive split the archive between files.
StartFile ==
  /\ Running("file") \/ Running("member")
  /\ IF DataSizeOfDictionaries(arc) < job.dict THEN Done1 /\ UNCHANGED <<arc, status>>
     ELSE IF arc.file = <<>> THEN Done1 /\ arc' = SplitArchive(arc) /\ UNCHANGED status
     ELSE status' = "failed" /\ UNCHANGED <<todo, arc>>
  /\ UNCHANGED <<job, ok>>

\* create_and_open_file; a file left open by a failed IR stream makes it throw,
\* which only compress_ir_stream catches.
OpenFile ==
  /\ Running("open")
  /\ arc.file = <<>>
  /\ LET a == [CreateAndOpenFile(arc, Next1.path, arc.nextFile, 0, 0) EXCEPT !.oldPat = NoPattern]
     IN  arc' = IF Next1.w = "ir" THEN ChangeTsPattern(a, job.inputs[Next1.g[1]].members[Next1.g[2]].pat) ELSE a
  /\ Done1 /\ UNCHANGED <<job, ok, status>>

OpenFileThrows ==
  /\ Running("open")
  /\ arc.file # <<>>
  /\ IF Next1.w = "ir"
     THEN /\ todo' = SelectSeq(todo, LAMBDA t : t.g # Next1.g)
          /\ ok' = FALSE /\ UNCHANGED <<job, arc, status>>
     ELSE Aborts

WriteMessage ==
  /\ status = "running" /\ Next1.k \in {"parsed", "schema", "ir"}
  /\ ~(Next1.k = "schema" /\ Next1.m.changed /\ Next1.m.pat = NoPattern)
  /\ arc' = CASE Next1.k = "parsed" -> WriteParsedMessage(arc, Next1.m)
              [] Next1.k = "schema" -> WriteUsingSchema(arc, Next1.m)
              [] Next1.k = "ir" -> WriteLogEventIr(arc, Next1.m)
  /\ Done1 /\ UNCHANGED <<job, ok, status>>

\* The schema's timestamp matches no known pattern: the exception leaves compress.
UnknownTimestamp ==
  /\ Running("schema") /\ Next1.m.changed /\ Next1.m.pat = NoPattern
  /\ Aborts

CloseFileAndAppendToSegment ==
  /\ Running("close")
  /\ arc' = AppendFileToSegment(arc)
  /\ Done1 /\ UNCHANGED <<job, ok, status>>

NoteFailure ==
  /\ Running("fail")
  /\ ok' = FALSE
  /\ Done1 /\ UNCHANGED <<job, arc, status>>

AddDirectories ==
  /\ Running("dirs")
  /\ arc' = AddEmptyDirectories(arc, Next1.dirs)
  /\ Done1 /\ UNCHANGED <<job, ok, status>>

\* Archive::close throws if a file is still open.
Finish ==
  /\ Running("finish")
  /\ IF arc.file = <<>> THEN /\ arc' = CloseArchive(arc) /\ status' = "done"
                             /\ Done1 /\ UNCHANGED <<job, ok>>
                        ELSE Aborts

\* The process dies, or the exception of a failed call leaves compress, within
\* this step or an earlier one: what is left is a prefix of the durable writes.
Crash ==
  /\ status = "running"
  /\ \E n \in 0 .. Len(arc.w) : arc' = [arc EXCEPT !.w = SubSeq(@, 1, n)]
  /\ status' = "crashed"
  /\ UNCHANGED <<job, todo, ok>>

CANext == \/ StartFile \/ OpenFile \/ OpenFileThrows \/ WriteMessage \/ UnknownTimestamp
          \/ CloseFileAndAppendToSegment \/ NoteFailure \/ AddDirectories \/ Finish \/ Crash

CASpec == CAInit /\ [][CANext]_caVars

-----------------------------------------------------------------------------
(* What the durable writes amount to.                                       *)
Writes(w, op) == {i \in DOMAIN w : w[i].op = op}
LocalRows(w, a) == UNION {w[i].rows : i \in {i \in Writes(w, "files") : w[i].a = a}}
GlobalRows(w) == UNION {w[i].rows : i \in Writes(w, "gfiles")}
DictsOf(w, a) == LET is == {i \in Writes(w, "dicts") : w[i].a = a}
                 IN  IF is = {} THEN [lts |-> <<>>, vars |-> <<>>, index |-> <<>>] ELSE w[Max(is)]
SegmentCells(w, a, seg) ==
  LET is == {i \in Writes(w, "segment") : w[i].a = a /\ w[i].seg = seg}
  IN  IF is = {} THEN <<>> ELSE w[Min(is)].cells
Column(cells, pos, n) == [i \in 1 .. n |-> cells[pos + i].n]

\* The types of the state: an open archive has at most one file, the segments that
\* are open have different ids below m_next_segment_id, and compress ends only
\* with every archive closed.
CATypeOK ==
  /\ status \in {"running", "done", "failed", "crashed"} /\ ok \in BOOLEAN
  /\ Len(arc.file) <= 1
  /\ \A k \in Kinds : arc.seg[k].open => arc.seg[k].id < arc.nextSeg
  /\ arc.seg["with"].open /\ arc.seg["without"].open => arc.seg["with"].id # arc.seg["without"].id
  /\ status = "done" => ~arc.open /\ arc.global = <<>> /\ arc.unassigned = Unassigned

\* Whenever the metadata DB of an archive lists a file, after a crash as well, its
\* segment is on disk, its columns lie where the row says, and the dictionaries and
\* the segment index on disk cover every logtype and variable of its messages, so
\* that a search which skips the segments the index excludes misses nothing.
ListedFilesAreIndexed ==
  \A i \in Writes(arc.w, "files") : \A r \in arc.w[i].rows :
    LET w == SubSeq(arc.w, 1, i)
        a == arc.w[i].a
        cells == SegmentCells(w, a, r.seg)
        d == DictsOf(w, a)
        entries == {e \in Range(d.index) : e.seg = r.seg}
        lts == Range(Column(cells, r.ltPos, r.num))
        vars == Range(Column(cells, r.varPos, r.numVars))
    IN  /\ Len(cells) >= r.varPos + r.numVars
        /\ \A n \in 1 .. r.num : cells[r.tsPos + n].c = "ts" /\ cells[r.ltPos + n].c = "lt"
        /\ \A n \in 1 .. r.numVars : cells[r.varPos + n].c = "var"
        /\ \E e \in entries : lts \subseteq e.lts /\ vars \subseteq e.vars
        /\ lts \subseteq DOMAIN d.lts /\ vars \subseteq DOMAIN d.vars

\* The global metadata DB lists the files of an archive only after the archive, and
\* then exactly the files of the archive's own metadata DB; of a file that is split
\* it shows at any time the first messages with no gap: the splits have consecutive
\* numbers and message indexes, and a file in several splits is marked as split.
GlobalMetadataIsPrefix ==
  /\ \A i \in Writes(arc.w, "gfiles") :
       /\ arc.w[i].rows = LocalRows(SubSeq(arc.w, 1, i), arc.w[i].a)
       /\ \E j \in Writes(arc.w, "garchive") : j < i /\ arc.w[j].a = arc.w[i].a
  /\ \A r \in GlobalRows(arc.w) :
       LET splits == {s \in GlobalRows(arc.w) : s.orig = r.orig}
       IN  /\ {s.splitIx : s \in splits} = 0 .. Cardinality(splits) - 1
           /\ \A s, t \in splits : t.splitIx = s.splitIx + 1 => t.begin = s.begin + s.num
           /\ \A s \in splits : s.splitIx = 0 => s.begin = 0
           /\ Cardinality(splits) > 1 => r.isSplit

\* The time range of an archive in the global metadata DB covers every message of
\* its files, so that the archives chosen for a time range miss no message.
TimeRangeCovers ==
  \A i \in Writes(arc.w, "garchive"), r \in GlobalRows(arc.w) :
    LET cells == SegmentCells(arc.w, arc.w[i].a, r.seg)
    IN  r \in LocalRows(arc.w, arc.w[i].a) =>
          \A t \in Range(Column(cells, r.tsPos, r.num)) : arc.w[i].begin <= t /\ t <= arc.w[i].end
=============================================================================
