------------------------------ MODULE ClpExtract ------------------------------
(***************************************************************************)
(* clp decompression: after a compression that finished, failed or crashed *)
(* (ClpArchive), decompress restores files from the archives the global    *)
(* metadata DB lists, and decompress_to_ir turns one file split into IR    *)
(* chunks.  A decompression may die and be repeated.                       *)
(***************************************************************************)
EXTENDS ClpArchive

CONSTANTS Requests,      \* [mode, paths, orig, ix, target]; mode is "all", "paths" or "ir"
          GoneArchives,  \* the sets of archives whose directory may have been removed
          MaxAttempts    \* bound on the number of decompressions

VARIABLES ex,    \* the decompression
          fs     \* the output directory: the set of [name, content] and of directories

ceVars == <<job, todo, arc, ok, status, ex, fs>>

\* A decompression of a request: clean if the output directory was empty before.
Decompression(req, gone, attempts, clean, phase, archives) ==
  [req |-> req, gone |-> gone, attempts |-> attempts, clean |-> clean, phase |-> phase,
   archives |-> archives, rows |-> <<>>, a |-> -1, lru |-> <<>>, temps |-> {}, found |-> {},
   result |-> "none", ser |-> [open |-> FALSE, begin |-> 0, prev |-> 0, size |-> 0, events |-> <<>>]]

-----------------------------------------------------------------------------
(* The global metadata DB: archives in the order of their creation.         *)
ArchiveIds(w) == {w[i].a : i \in Writes(w, "garchive")}

ArchivesWith(w, path) ==
  {w[i].a : i \in {i \in Writes(w, "gfiles") : \E r \in w[i].rows : r.path = path}}
InOrder(ids) == SetToSortSeq(ids, <)

\* The split of a file that holds a message: the first that the join yields.
FileSplits(w, orig, ix) ==
  {r \in GlobalRows(w) : r.orig = orig /\ r.begin <= ix /\ ix < r.begin + r.num}
ArchiveOf(w, row) == Min({w[i].a : i \in {i \in Writes(w, "gfiles") : row \in w[i].rows}})

\* The metadata DB of an archive: its files in the order of their place in the segments.
InSegmentOrder(rows) ==
  SetToSortSeq(rows, LAMBDA r, q : r.seg < q.seg \/ (r.seg = q.seg /\ (r.tsPos < q.tsPos \/ (r.tsPos = q.tsPos /\ r.id < q.id))))

EmptyDirs(w, a) == UNION {w[i].dirs : i \in {i \in Writes(w, "empty") : w[i].a = a}}

-----------------------------------------------------------------------------
(* reader::File and reader::Archive: the messages of a file split.          *)
NumVariables(lt) == FoldLeft(LAMBDA n, part : n + part.n, 0, lt)

\* try_read keeps the segment it reads, and closes the one it read before.
OpenSegments(lru, seg) ==
  IF seg \in Range(lru) THEN lru
  ELSE LET l == Append(lru, seg) IN IF Len(l) >= 2 THEN Tail(l) ELSE l

\* get_next_message: the logtype tells how many variables the message takes.
GetNextMessage(row, cells, d, s) ==
  LET n == Len(s.out) + 1
      lt == cells[row.ltPos + n].n
      num == NumVariables(d.lts[lt])
      vars == [i \in 1 .. num |-> cells[row.varPos + s.vix + i].n]
  IN  IF s.end \/ s.vix + num > row.numVars THEN [s EXCEPT !.end = TRUE]
      ELSE [s EXCEPT !.vix = @ + num,
                     !.out = Append(@, [ts |-> cells[row.tsPos + n].n, lt |-> d.lts[lt],
                                        vars |-> [i \in 1 .. num |-> d.vars[vars[i]]]])]

Messages(w, a, row) ==
  FoldLeft(LAMBDA s, n : GetNextMessage(row, SegmentCells(w, a, row.seg), DictsOf(w, a), s),
           [vix |-> 0, out |-> <<>>, end |-> FALSE], [n \in 1 .. row.num |-> n]).out

\* The patterns that start at or before the message are passed.
AdvancePattern(pats, cur, ix) ==
  Max({c \in cur .. Len(pats) : \A k \in cur + 1 .. c : pats[k].from <= ix})

\* decompress_message: the timestamp is put back with the pattern in force.
DecompressMessage(pats, s, m) ==
  LET ix == Len(s.out)
      stamped == pats # <<>> /\ ix >= pats[s.cur].from
      cur == IF stamped THEN AdvancePattern(pats, s.cur, ix) ELSE s.cur
  IN  [cur |-> cur, out |-> Append(s.out, [lt |-> m.lt, vars |-> m.vars,
                                           pat |-> IF stamped THEN pats[cur].pat ELSE NoPattern,
                                           ts |-> IF stamped THEN m.ts ELSE 0])]

Decompressed(w, a, row) ==
  FoldLeft(LAMBDA s, m : DecompressMessage(row.pats, s, m), [cur |-> 1, out |-> <<>>], Messages(w, a, row)).out

-----------------------------------------------------------------------------
(* The output directory.                                                    *)
Final(path, n) == [kind |-> "file", path |-> path, id |-> 0, n |-> n]
Temp(orig) == [kind |-> "temp", path |-> <<>>, id |-> orig, n |-> 0]
Chunk(orig, begin, end) == [kind |-> "chunk", path |-> <<orig, end>>, id |-> orig, n |-> begin]
Directory(path) == [name |-> [kind |-> "dir", path |-> path, id |-> 0, n |-> 0], content |-> <<>>]
Exists(name) == \E f \in fs : f.name = name
Write(name, content) == {f \in fs : f.name # name} \cup {[name |-> name, content |-> content]}

End(result) == ex' = [ex EXCEPT !.phase = "idle", !.result = result]

-----------------------------------------------------------------------------
CEInit ==
  /\ CAInit
  /\ ex = Decompression(CHOOSE r \in Requests : TRUE, {}, 0, TRUE, "idle", <<>>)
  /\ fs = {}

Compressing == CANext /\ UNCHANGED <<ex, fs>>

\* A decompression starts, or is repeated after one that did not succeed.
Start(r, gone) ==
  /\ status # "running" /\ ex.phase = "idle" /\ ex.attempts < MaxAttempts
  /\ ex.attempts > 0 => ex.result = "died" /\ r = ex.req /\ gone = ex.gone

\* decompress: the archives to read, all of them or those of the one path.
StartDecompress ==
  \E r \in {r \in Requests : r.mode # "ir"}, gone \in GoneArchives :
    /\ Start(r, gone)
    /\ LET ids == IF Cardinality(r.paths) = 1 THEN ArchivesWith(arc.w, CHOOSE p \in r.paths : TRUE)
                                              ELSE ArchiveIds(arc.w)
       IN  ex' = Decompression(r, gone, ex.attempts + 1, fs = {}, "archive", InOrder(ids))
    /\ UNCHANGED <<caVars, fs>>

\* An archive directory that is missing is skipped only when everything is asked for.
OpenNextArchive ==
  /\ ex.phase = "archive" /\ ex.archives # <<>>
  /\ LET a == Head(ex.archives)
         rows == {r \in LocalRows(arc.w, a) : ex.req.mode = "all" \/ r.path \in ex.req.paths}
     IN  IF a \in ex.gone
         THEN /\ IF ex.req.mode = "all" THEN ex' = [ex EXCEPT !.archives = Tail(@)] ELSE End("failed")
              /\ UNCHANGED fs
         ELSE /\ ex' = [ex EXCEPT !.archives = Tail(@), !.phase = "rows", !.a = a, !.lru = <<>>,
                                  !.rows = InSegmentOrder(rows)]
              /\ fs' = IF ex.req.mode = "all" THEN fs \cup {Directory(d) : d \in EmptyDirs(arc.w, a)} ELSE fs
  /\ UNCHANGED caVars

\* decompress_file: a split, or a file whose path exists, goes to the file named
\* after the original file's id, to the end of what that file already holds.
DecompressFile ==
  /\ ex.phase = "rows" /\ ex.rows # <<>>
  /\ LET row == Head(ex.rows)
         lines == Decompressed(arc.w, ex.a, row)
         final == Final(row.path, 0)
         temp == Temp(row.orig)
         viaTemp == row.isSplit \/ Exists(final)
         before == {f.content : f \in {f \in fs : f.name = temp}}
     IN  /\ ex' = [ex EXCEPT !.rows = Tail(@), !.found = @ \cup {row.path},
                             !.lru = OpenSegments(@, row.seg),
                             !.temps = IF viaTemp THEN @ \cup {[temp |-> temp, path |-> row.path]} ELSE @]
         /\ fs' = IF ~viaTemp THEN Write(final, lines)
                  ELSE IF before = {} THEN Write(temp, lines)
                  ELSE UNION {Write(temp, b \o lines) : b \in before}
  /\ UNCHANGED caVars

CloseCurrentArchive ==
  /\ ex.phase = "rows" /\ ex.rows = <<>>
  /\ ex' = [ex EXCEPT !.phase = "archive"]
  /\ UNCHANGED <<caVars, fs>>

\* The temporary files get their paths, in the order of a hash map, with a number
\* appended when the path is taken.
RenameTemporary ==
  /\ ex.phase = "archive" /\ ex.archives = <<>>
  /\ \E t \in ex.temps :
       /\ ex' = [ex EXCEPT !.temps = @ \ {t}]
       /\ LET n == Min({n \in 0 .. Cardinality(fs) : ~Exists(Final(t.path, n))})
          IN  fs' = {IF f.name = t.temp THEN [f EXCEPT !.name = Final(t.path, n)] ELSE f : f \in fs}
  /\ UNCHANGED caVars

\* Paths that were not found are only logged.
FinishDecompress ==
  /\ ex.phase = "archive" /\ ex.archives = <<>> /\ ex.temps = {}
  /\ End("ok")
  /\ UNCHANGED <<caVars, fs>>

-----------------------------------------------------------------------------
(* decompress_to_ir and the IR serializer.                                  *)

OpenSerializer(ser, begin) == [open |-> TRUE, begin |-> begin, prev |-> 0, size |-> 0, events |-> <<>>]

SerializeLogEvent(ser, m) ==
  [ser EXCEPT !.events = Append(@, [delta |-> m.ts - ser.prev, lt |-> m.lt, vars |-> m.vars]),
              !.prev = m.ts, !.size = @ + 1 + Len(m.vars)]

ChunkFile(orig, ser) ==
  [name |-> Chunk(orig, ser.begin, ser.begin + Len(ser.events)), content |-> ser.events]

StartIr ==
  \E r \in {r \in Requests : r.mode = "ir"}, gone \in GoneArchives :
    /\ Start(r, gone)
    /\ LET splits == FileSplits(arc.w, r.orig, r.ix)
           fresh == Decompression(r, gone, ex.attempts + 1, fs = {}, "ir", <<>>)
       IN  IF splits = {} THEN ex' = [fresh EXCEPT !.phase = "idle", !.result = "notFound"]
           ELSE LET row == CHOOSE q \in splits : \A p \in splits : ArchiveOf(arc.w, q) <= ArchiveOf(arc.w, p)
                    a == ArchiveOf(arc.w, row)
                IN  IF a \in gone THEN ex' = [fresh EXCEPT !.phase = "idle", !.result = "failed"]
                    ELSE ex' = [fresh EXCEPT !.rows = <<row>>, !.a = a, !.ser = OpenSerializer(@, row.begin)]
    /\ UNCHANGED <<caVars, fs>>

\* A message: the chunk is closed first if it has reached the target size.
IrMessages == Messages(arc.w, ex.a, ex.rows[1])
IrNext == ex.ser.begin + Len(ex.ser.events) - ex.rows[1].begin

DecompressToIr ==
  /\ ex.phase = "ir" /\ IrNext < Len(IrMessages)
  /\ LET full == ex.ser.size >= ex.req.target
         ser == IF full THEN OpenSerializer(ex.ser, ex.ser.begin + Len(ex.ser.events)) ELSE ex.ser
     IN  /\ ex' = [ex EXCEPT !.ser = SerializeLogEvent(ser, IrMessages[IrNext + 1])]
         /\ fs' = IF full THEN fs \cup {ChunkFile(ex.req.orig, ex.ser)} ELSE fs
  /\ UNCHANGED caVars

FinishIr ==
  /\ ex.phase = "ir" /\ IrNext = Len(IrMessages)
  /\ fs' = fs \cup {ChunkFile(ex.req.orig, ex.ser)}
  /\ End("ok")
  /\ UNCHANGED caVars

\* The process is killed; the output directory keeps what was written.
DecompressDies ==
  /\ ex.phase # "idle"
  /\ End("died")
  /\ UNCHANGED <<caVars, fs>>

CENext == \/ Compressing \/ StartDecompress \/ OpenNextArchive \/ DecompressFile \/ CloseCurrentArchive
          \/ RenameTemporary \/ FinishDecompress \/ StartIr \/ DecompressToIr \/ FinishIr \/ DecompressDies

CESpec == CEInit /\ [][CENext]_ceVars

-----------------------------------------------------------------------------
(* What the compression was given.                                          *)
Kept(m) == [lt |-> m.lt, vars |-> m.vars, pat |-> m.pat, ts |-> IF m.pat = NoPattern THEN 0 ELSE m.ts]
Contents(stream) == [i \in DOMAIN stream |-> Kept(stream[i].m)]
Given == LET streams(items) ==
               [t \in {t \in Range(items) : t.k = "open"} |->
                  Contents(SelectSeq(items, LAMBDA u : u.g = t.g /\ u.k \in {"parsed", "schema", "ir"}))]
         IN  streams(Compress(job.inputs))

\* The first split of a file was written without a timestamp and a later one with.
Mixed(path) == \E a \in ArchiveIds(arc.w) : \E r, q \in LocalRows(arc.w, a) :
                 r.path = path /\ r.orig = q.orig /\ r.pats = <<>> /\ q.pats # <<>>

Succeeded(modes) == ex.result = "ok" /\ ex.req.mode \in modes /\ ex.clean /\ ex.gone = {}

Restored(path) == {f \in fs : f.name.kind = "file" /\ f.name.path = path}

\* The types of the state; at most one segment stays open between two files, and
\* temporary files are left only by a decompression that died.
CETypeOK ==
  /\ ex.phase \in {"idle", "archive", "rows", "ir"}
  /\ ex.result \in {"none", "ok", "failed", "notFound", "died"}
  /\ Len(ex.lru) <= 1
  /\ \A f, g \in fs : f.name = g.name => f = g
  /\ Succeeded({"all", "paths"}) => \A f \in fs : f.name.kind # "temp"

\* Decompression of everything restores, for each path, one file for each stream that
\* was compressed under it, message by message with its timestamp and pattern. If the
\* compression did not finish, each file restored is the beginning of such a stream.
RestoresFile ==
  LET same(given, path) == {u \in DOMAIN given : u.path = path}
      restored(given) ==
        \A t \in DOMAIN given : ~Mixed(t.path) =>
          IF status = "done"
          THEN Cardinality({f \in Restored(t.path) : f.content = given[t]})
                 = Cardinality({u \in same(given, t.path) : given[u] = given[t]})
          ELSE \A f \in Restored(t.path) : \E u \in same(given, t.path) : IsPrefix(f.content, given[u])
  IN  Succeeded({"all"}) => restored(Given)

\* Asking for paths restores the same files as asking for everything, and nothing else.
RestoresRequested ==
  LET restored(given) ==
        \A t \in DOMAIN given :
          t.path \in ex.req.paths /\ ~Mixed(t.path) => \E f \in Restored(t.path) : f.content = given[t]
  IN  Succeeded({"paths"}) /\ status = "done" =>
        (\A f \in fs : f.name.path \in ex.req.paths) /\ restored(Given)

\* The IR chunks of a file split cover its messages once each and in order, the
\* message that was asked for among them, with the timestamps of the messages.
ChunksCoverSplit ==
  Succeeded({"ir"}) =>
    LET row == ex.rows[1]
        chunks == {f \in fs : f.name.kind = "chunk"}
        At(ix) == {f \in chunks : f.name.n <= ix /\ ix < f.name.path[2]}
        Ts(f, k) == FoldLeft(LAMBDA n, e : n + e.delta, 0, SubSeq(f.content, 1, k))
    IN  /\ row.begin <= ex.req.ix /\ ex.req.ix < row.begin + row.num
        /\ \A ix \in row.begin .. row.begin + row.num - 1 :
             /\ Cardinality(At(ix)) = 1
             /\ \A f \in At(ix) :
                  LET m == IrMessages[ix - row.begin + 1]
                      e == f.content[ix - f.name.n + 1]
                  IN  m.lt = e.lt /\ m.vars = e.vars /\ m.ts = Ts(f, ix - f.name.n + 1)
=============================================================================
