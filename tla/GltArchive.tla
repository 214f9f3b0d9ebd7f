----------------------------- MODULE GltArchive -----------------------------
(***************************************************************************)
(* GLT archives: glt's compressor (glt/glt/FileCompressor, compression),   *)
(* its archive writer with the logtype tables of streaming_archive/writer  *)
(* (GLTSegment, LogtypeTable), the readers of these tables, and            *)
(* decompression.  GLT stores the messages of a segment by logtype: a      *)
(* table has the timestamps, the file ids and a column per variable of all *)
(* messages of a logtype.  A file keeps only the logtype of each of its    *)
(* messages and, at the first of each logtype, the row it has there.       *)
(* Everything in a table is an eight-byte word; sizes are in words.        *)
(* Compressed data is a sequence of frames, and a position in it counts    *)
(* frames.                                                                 *)
(***************************************************************************)
EXTENDS ClpText

CONSTANT GltJobs  \* the files to compress, the sizes at which files, segments and archives are cut, and the files to restore

VARIABLES gj,  \* the job
          gw,  \* the compressor: the open file, the open archive and the archives it closed
          gd   \* the decompressor

(***************************************************************************)
(* Logtype tables (writer/LogtypeTable, LogtypeSizeTracker)                *)
(***************************************************************************)
EmptyTable(n) == [ts |-> <<>>, ids |-> <<>>, cols |-> [c \in 1 .. n |-> <<>>]]
NumRows(t) == Len(t.ts)
AppendToTable(t, ts, id, vars) ==
  [ts |-> Append(t.ts, ts), ids |-> Append(t.ids, id), cols |-> [c \in DOMAIN t.cols |-> Append(t.cols[c], vars[c])]]
TableSize(t) == NumRows(t) * (Len(t.cols) + 2)

\* The order of LogtypeSizeTracker, the largest first.
BySize(tables) ==
  SetToSortSeq(DOMAIN tables, LAMBDA k, l : \/ TableSize(tables[k]) > TableSize(tables[l])
                                            \/ TableSize(tables[k]) = TableSize(tables[l]) /\ k > l)

(***************************************************************************)
(* GLTSegment: the tables of a segment on disk                             *)
(***************************************************************************)
\* write_single_logtype: a frame for the timestamps, one for the file ids and
\* one for each column; the metadata has where each begins and the last ends.
WriteSingle(d, id, t) ==
  LET frames == <<t.ts, t.ids>> \o t.cols
  IN [d EXCEPT !.data = @ \o frames,
               !.meta = Append(@, [type |-> "single", id |-> id, rows |-> NumRows(t), cols |-> Len(t.cols), table |-> 0,
                                   at |-> [k \in 1 .. Len(frames) + 1 |-> Len(d.data) + k - 1]])]

\* write_combined_logtype: the tables one after the other in one frame; the
\* metadata has where each begins in the decompressed frame.
WriteCombined(d, ids, tables) ==
  LET words(id) == tables[id].ts \o tables[id].ids \o FlattenSeq(tables[id].cols)
      before(k) == Len(FlattenSeq([j \in 1 .. k - 1 |-> words(ids[j])]))
      entry(k) == [type |-> "combined", id |-> ids[k], rows |-> NumRows(tables[ids[k]]), cols |-> Len(tables[ids[k]].cols),
                   table |-> Len(d.infos) + 1, at |-> <<before(k)>>]
  IN [meta |-> d.meta \o [k \in DOMAIN ids |-> entry(k)],
      data |-> Append(d.data, FlattenSeq([k \in DOMAIN ids |-> words(ids[k])])),
      infos |-> Append(d.infos, [begin |-> Len(d.data), size |-> 1])]

\* The tables left over at the end are stored together.
WriteLast(r, tables) == IF r.size > 0 THEN WriteCombined(r.d, r.ids, tables) ELSE r.d

\* compress_logtype_tables_to_disk: a table above the threshold (a percentage
\* of all tables) is stored alone, the others are stored together, a combined
\* table ending with the one that takes it above the threshold.
CompressTables(tables, threshold) ==
  LET total == FoldLeft(LAMBDA n, k : n + TableSize(tables[k]), 0, BySize(tables))
      over(n) == 100 * n > threshold * total
      step(r, k) ==
        LET ids == Append(r.ids, k)
            size == r.size + TableSize(tables[k])
        IN IF over(TableSize(tables[k])) THEN [r EXCEPT !.d = WriteSingle(@, k, tables[k])]
           ELSE IF over(size) THEN [d |-> WriteCombined(r.d, ids, tables), ids |-> <<>>, size |-> 0]
           ELSE [r EXCEPT !.ids = ids, !.size = size]
      none == [d |-> [meta |-> <<>>, data |-> <<>>, infos |-> <<>>], ids |-> <<>>, size |-> 0]
  IN WriteLast(FoldLeft(step, none, BySize(tables)), tables)

(***************************************************************************)
(* The archive writer                                                      *)
(***************************************************************************)
NewArchive ==
  [logtypes |-> <<>>, vars |-> <<>>, names |-> <<>>, fileId |-> 0, tables |-> <<>>, size |-> 0, order |-> <<>>, open |-> FALSE,
   next |-> 0, pending |-> <<>>, segLogtypes |-> {}, segVars |-> {}, segments |-> <<>>, files |-> <<>>]

AddEntry(dict, x) == IF x \in Range(dict) THEN dict ELSE Append(dict, x)
IdOf(dict, x) == CHOOSE i \in DOMAIN dict : dict[i] = x

\* get_data_size_of_dictionaries, in entries.
DictionarySize(a) == Len(a.logtypes) + Len(a.vars)

NewFile(n, split) ==
  [n |-> n, split |-> split, isSplit |-> split > 0, logtypes |-> <<>>, offsets |-> <<>>, numVars |-> 0, patterns |-> <<>>]

\* File::get_encoded_size_in_bytes.
EncodedSize(file) == 2 * Len(file.logtypes) + file.numVars

\* File::write_encoded_msg: the row is kept at the first message of a logtype.
WriteEncodedMsg(file, id, offset, n) ==
  [file EXCEPT !.logtypes = Append(@, id), !.offsets = Append(@, IF id \in Range(file.logtypes) THEN 0 ELSE offset), !.numVars = @ + n]

\* File::change_ts_pattern.
ChangePattern(file, pat) == [file EXCEPT !.patterns = Append(@, <<Len(file.logtypes), pat>>)]

CreateFile(a, n, split) == [a |-> [a EXCEPT !.names = Append(@, gj.files[n].path)], file |-> NewFile(n, split)]

\* Archive::write_msg with GLTSegment::append_to_segment, from the entry of
\* the message and the dictionaries that have its logtype and variables.
AppendRow(w, ts, id, row, vars) ==
  LET table == IF id \in DOMAIN w.a.tables THEN w.a.tables[id] ELSE EmptyTable(Len(row))
  IN [a |-> [w.a EXCEPT !.size = @ + 2 + Len(row), !.tables = (id :> AppendToTable(table, ts, w.a.fileId, row)) @@ @,
                        !.segLogtypes = @ \cup {id}, !.segVars = @ \cup vars],
      file |-> WriteEncodedMsg(w.file, id, NumRows(table), Len(row))]
EncodeRow(e, vars) == [i \in DOMAIN e.vars |-> IF e.vars[i].kind = Dictionary THEN IdOf(vars, e.vars[i].text) ELSE e.vars[i].encoded]
WriteEntry(w, ts, e) ==
  LET add(logtypes, vars) ==
        AppendRow([w EXCEPT !.a.logtypes = logtypes, !.a.vars = vars], ts, IdOf(logtypes, e.logtype), EncodeRow(e, vars),
                  {IdOf(vars, v.text) : v \in {x \in Range(e.vars) : x.kind = Dictionary}})
  IN add(AddEntry(w.a.logtypes, e.logtype),
         FoldLeft(LAMBDA d, v : IF v.kind = Dictionary THEN AddEntry(d, v.text) ELSE d, w.a.vars, e.vars))
WriteMsg(w, m) == WriteEntry(w, m.ts, EntryOfText(m.text))

\* close_segment_and_persist_file_metadata.
CloseSegment(a) ==
  [a EXCEPT !.segments = Append(@, [disk |-> CompressTables(a.tables, gj.threshold), order |-> a.order,
                                    logtypes |-> a.segLogtypes, vars |-> a.segVars]),
            !.tables = <<>>, !.order = <<>>, !.open = FALSE, !.files = @ \o a.pending, !.pending = <<>>,
            !.segLogtypes = {}, !.segVars = {}]

\* close_file and append_file_to_segment.  The tables already have the rows
\* of the file when its segment is opened and its size set to zero.
AppendFile(w) ==
  LET a == IF w.a.open THEN w.a ELSE [w.a EXCEPT !.open = TRUE, !.next = @ + 1, !.size = 0]
      row == [n |-> w.file.n, isSplit |-> w.file.isSplit, seg |-> a.next, num |-> Len(w.file.logtypes), patterns |-> w.file.patterns,
              logtypesPos |-> Len(a.order), offsetsPos |-> Len(a.order) + Len(w.file.logtypes)]
      b == [a EXCEPT !.order = @ \o w.file.logtypes \o w.file.offsets, !.pending = Append(@, row), !.fileId = @ + 1]
  IN IF Len(b.order) + b.size >= gj.segmentTarget THEN CloseSegment(b) ELSE b

CloseArchive(a) == IF a.open THEN CloseSegment(a) ELSE a

(***************************************************************************)
(* The compressor                                                          *)
(***************************************************************************)
GWInit == gw = [pc |-> "file", f |-> 0, i |-> 0, file |-> NewFile(0, 0), a |-> NewArchive, archives |-> <<>>]

\* split_file: the rest of the file goes to a new file of the archive.
NewPart(a, file, pat) ==
  LET patterned(c) == [c EXCEPT !.file = ChangePattern(@, pat)] IN patterned(CreateFile(a, file.n, file.split + 1))
SplitFile(w, pat) == NewPart(AppendFile([w EXCEPT !.file.isSplit = TRUE]), w.file, pat)

\* split_file_and_archive: it goes to a new archive; closed is the old one.
SplitFileAndArchive(w, pat) ==
  [new |-> NewPart(NewArchive, w.file, pat), closed |-> CloseArchive(AppendFile([w EXCEPT !.file.isSplit = TRUE]))]

\* compress and compress_file: the next file, in a new archive if the
\* dictionaries of this one are large.
NextFile ==
  /\ gw.pc = "file" /\ gw.f < Len(gj.files)
  /\ LET full == DictionarySize(gw.a) >= gj.dictionaryTarget
         c == CreateFile(IF full THEN NewArchive ELSE gw.a, gw.f + 1, 0)
     IN gw' = [gw EXCEPT !.pc = "message", !.f = @ + 1, !.i = 0, !.file = c.file, !.a = c.a,
                         !.archives = IF full THEN Append(@, CloseArchive(gw.a)) ELSE @]
  /\ UNCHANGED <<gj, gd>>

\* parse_and_encode_with_heuristic, one message: the limits are tested before
\* it is written.
NextMessage ==
  /\ gw.pc = "message" /\ gw.i < Len(gj.files[gw.f].msgs)
  /\ LET msgs == gj.files[gw.f].msgs
         m == msgs[gw.i + 1]
         w == [a |-> gw.a, file |-> gw.file]
         full == DictionarySize(gw.a) >= gj.dictionaryTarget
         s == SplitFileAndArchive(w, m.pat)
         cut == IF full THEN s.new ELSE IF EncodedSize(gw.file) >= gj.fileTarget THEN SplitFile(w, m.pat) ELSE w
         patterned(c) == IF m.pat # (IF gw.i = 0 THEN 0 ELSE msgs[gw.i].pat) THEN [c EXCEPT !.file = ChangePattern(@, m.pat)] ELSE c
         after(written) == [gw EXCEPT !.i = @ + 1, !.a = written.a, !.file = written.file,
                                      !.archives = IF full THEN Append(@, s.closed) ELSE @]
     IN gw' = after(WriteMsg(patterned(cut), m))
  /\ UNCHANGED <<gj, gd>>

EndOfFile ==
  /\ gw.pc = "message" /\ gw.i = Len(gj.files[gw.f].msgs)
  /\ gw' = [gw EXCEPT !.pc = "file", !.a = AppendFile([a |-> gw.a, file |-> gw.file])]
  /\ UNCHANGED <<gj, gd>>

CloseWriter ==
  /\ gw.pc = "file" /\ gw.f = Len(gj.files)
  /\ gw' = [gw EXCEPT !.pc = "done", !.a = NewArchive, !.archives = Append(@, CloseArchive(gw.a))]
  /\ UNCHANGED <<gj, gd>>

(***************************************************************************)
(* The readers of the tables (LogtypeTableManager::load_metadata,          *)
(* reader/LogtypeTable, reader/CombinedLogtypeTable)                       *)
(***************************************************************************)
EntriesOf(d, type) == {e \in Range(d.meta) : e.type = type}
EntryFor(d, id) == CHOOSE e \in Range(d.meta) : e.id = id
Decompressed(d, begin, size) == FlattenSeq(SubSeq(d.data, begin + 1, begin + size))

\* LogtypeTable::load_all.
LoadSingle(d, e) ==
  LET frame(k) == SubSeq(Decompressed(d, e.at[k], e.at[k + 1] - e.at[k]), 1, e.rows)
  IN [ts |-> frame(1), ids |-> frame(2), cols |-> [c \in 1 .. e.cols |-> frame(c + 2)]]

\* CombinedLogtypeTable::load_logtype_table_data, from the table's offset.
LoadCombined(d, e) ==
  LET words == Decompressed(d, d.infos[e.table].begin, d.infos[e.table].size)
      part(k) == SubSeq(words, e.at[1] + (k - 1) * e.rows + 1, e.at[1] + k * e.rows)
  IN [ts |-> part(1), ids |-> part(2), cols |-> [c \in 1 .. e.cols |-> part(c + 2)]]

LoadTable(d, e) == IF e.type = "single" THEN LoadSingle(d, e) ELSE LoadCombined(d, e)
RowOf(t, r) == [c \in DOMAIN t.cols |-> t.cols[c][r]]

\* What a read of a table of the wrong size would throw for.
Whole(t, e) == \A s \in {t.ts, t.ids} \cup Range(t.cols) : Len(s) = e.rows

\* MultiLogtypeTablesManager::load_variable_columns: the combined tables are
\* loaded together.
TablesLoadedWith(d, id) ==
  LET e == EntryFor(d, id)
  IN IF e.type = "single" THEN {id} ELSE {x.id : x \in {y \in EntriesOf(d, "combined") : y.table = e.table}}

\* The logtype and the variables that a row stands for.
RowEntry(a, id, row) ==
  LET l == a.logtypes[id]
      at == SelectSeq(PlaceholderPositions(l), LAMBDA i : l[i] # Escape)
      var(k) == IF l[at[k]] = Dictionary THEN [kind |-> Dictionary, encoded |-> 0, text |-> a.vars[row[k]]]
                ELSE [kind |-> l[at[k]], encoded |-> row[k], text |-> <<>>]
  IN [logtype |-> l, vars |-> [k \in DOMAIN row |-> var(k)]]

(***************************************************************************)
(* Decompression of all files, or of those requested                       *)
(***************************************************************************)
GDInit == gd = [pc |-> "idle", a |-> 0, rows |-> <<>>, i |-> 0, seg |-> 0, loaded |-> {}, offs |-> <<>>, pat |-> 1, out |-> <<>>]

\* MetadataDB::FileIterator: by segment and position.
FileRows(files) ==
  LET before(k, l) == \/ files[k].seg < files[l].seg
                      \/ files[k].seg = files[l].seg /\ files[k].logtypesPos < files[l].logtypesPos
                      \/ files[k].seg = files[l].seg /\ files[k].logtypesPos = files[l].logtypesPos /\ k < l
      sorted == SetToSortSeq(DOMAIN files, before)
  IN [k \in DOMAIN sorted |-> files[sorted[k]]]

ReadArchive == gw.archives[gd.a]
Requested(n) == gj.request = {} \/ gj.files[n].path \in gj.request

\* The next archive; of its files, the requested ones are decompressed.
OpenArchive ==
  /\ gw.pc = "done" /\ gd.pc \in {"idle", "archive"}
  /\ gd' = IF gd.a = Len(gw.archives) THEN [gd EXCEPT !.pc = "done"]
           ELSE [gd EXCEPT !.pc = "file", !.a = @ + 1, !.seg = 0,
                           !.rows = SelectSeq(FileRows(gw.archives[gd.a + 1].files), LAMBDA row : Requested(row.n)),
                           !.out = IF gd.pc = "idle" THEN [n \in DOMAIN gj.files |-> <<>>] ELSE @]
  /\ UNCHANGED <<gj, gw>>

\* Archive::open_file and File::open_me; the tables loaded for a segment are
\* dropped when a file of another one is opened.
OpenFile ==
  /\ gd.pc = "file"
  /\ gd' = IF gd.rows = <<>> THEN [gd EXCEPT !.pc = "archive"]
           ELSE [gd EXCEPT !.pc = "message", !.i = 0, !.pat = 1, !.offs = <<>>, !.seg = Head(gd.rows).seg,
                           !.loaded = IF Head(gd.rows).seg = gd.seg THEN @ ELSE {}]
  /\ UNCHANGED <<gj, gw>>

\* File::get_msg_offset.
MsgOffset(offs, id, kept) == IF id \in DOMAIN offs THEN offs[id] ELSE kept

\* The timestamp pattern of a message (Archive::decompress_message).
PatternAt(patterns, ix, n) ==
  IF patterns = <<>> THEN 0
  ELSE IF n < patterns[ix][1] THEN 0
  ELSE Max({k \in ix .. Len(patterns) : patterns[k][1] <= n})

\* get_next_message, decompress_message and the write of the text.
ReadMessage ==
  /\ gd.pc = "message"
  /\ LET file == Head(gd.rows)
         segment == ReadArchive.segments[file.seg]
         id == segment.order[file.logtypesPos + gd.i + 1]
         offset == MsgOffset(gd.offs, id, segment.order[file.offsetsPos + gd.i + 1])
         entry == EntryFor(segment.disk, id)
         at == PatternAt(file.patterns, gd.pat, gd.i)
         pat == IF at = 0 THEN 0 ELSE file.patterns[at][2]
         msg(t) == [text |-> DecodeEntry(RowEntry(ReadArchive, id, RowOf(t, offset + 1))).text,
                    ts |-> IF pat = 0 THEN 0 ELSE t.ts[offset + 1], pat |-> pat]
         after(t) ==
           IF ~Whole(t, entry) \/ offset >= entry.rows THEN [gd EXCEPT !.pc = "failed"]
           ELSE [gd EXCEPT !.i = @ + 1, !.offs = (id :> offset + 1) @@ @, !.pat = IF at = 0 THEN @ ELSE at,
                           !.loaded = IF id \in @ THEN @ ELSE @ \cup TablesLoadedWith(segment.disk, id),
                           !.out[file.n] = Append(@, msg(t))]
     IN gd' = IF gd.i = file.num THEN [gd EXCEPT !.pc = "file", !.rows = Tail(@)]
              ELSE after(LoadTable(segment.disk, entry))
  /\ UNCHANGED <<gj, gw>>

GAInit == gj \in GltJobs /\ GWInit /\ GDInit
GANext == NextFile \/ NextMessage \/ EndOfFile \/ CloseWriter \/ OpenArchive \/ OpenFile \/ ReadMessage
GASpec == GAInit /\ [][GANext]_<<gj, gw, gd>>

(***************************************************************************)
(* Properties                                                              *)
(***************************************************************************)
\* The tables that are loaded for a segment are tables it has, a file id of a
\* row names a file of the archive, and no read of a table falls short.
GATypeOK ==
  /\ gw.pc \in {"file", "message", "done"} /\ gd.pc \in {"idle", "archive", "file", "message", "done"}
  /\ gd.pc = "message" => gd.loaded \subseteq {e.id : e \in Range(ReadArchive.segments[gd.seg].disk.meta)}
  /\ \A n \in DOMAIN gw.archives : \A s \in DOMAIN gw.archives[n].segments :
       LET d == gw.archives[n].segments[s].disk
       IN \A e \in Range(d.meta) : \A x \in Range(LoadTable(d, e).ids) : x \in 0 .. Len(gw.archives[n].names) - 1

\* Every requested file is restored message by message, timestamps and their patterns
\* included, although its messages are kept by logtype among those of the
\* other files, whatever tables are combined and wherever the file was split
\* into files, segments and archives.
RestoresFiles ==
  /\ \A n \in DOMAIN gd.out : IsPrefix(gd.out[n], gj.files[n].msgs)
  /\ gd.pc = "done" => \A n \in DOMAIN gj.files : gd.out[n] = IF Requested(n) THEN gj.files[n].msgs ELSE <<>>
=============================================================================
