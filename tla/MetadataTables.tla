-------------------------- MODULE MetadataTables --------------------------
(***************************************************************************)
(* clp's metadata tables: the files table of each archive                  *)
(* (streaming_archive::MetadataDB) and the global tables of archives and   *)
(* files, in SQLite or in MySQL, written by a compressor with prepared     *)
(* statements whose parameters are bound by position, and read at the same *)
(* time by iterators of another process.  A value of a field is a number.  *)
(***************************************************************************)
EXTENDS Integers, FiniteSets, SequencesExt

CONSTANTS Scripts,    \* the calls of a compressor, in order
          Lookups,    \* the questions of a reader
          MaxRows     \* bound: the rows a reader fetches before it stops

VARIABLES db,   \* the back end and the committed tables
          wr,   \* the compressor: its script and its open transaction
          rd    \* the reader: its question and its cursor
mtVars == <<db, wr, rd>>

TsMin == -1
TsMax == 99
Null == -2

(***************************************************************************)
(* Statements.  A statement has one parameter per placeholder, known by    *)
(* the field it is for; rows are functions from fields to values.          *)
(***************************************************************************)
ArchiveFields == <<"id", "begin_timestamp", "end_timestamp", "uncompressed_size", "size", "creator_id", "creation_ix">>
UpdateFields == <<"begin_timestamp", "end_timestamp", "uncompressed_size", "size">>
FileFields == <<"id", "orig_file_id", "path", "begin_timestamp", "end_timestamp", "num_uncompressed_bytes",
                "begin_message_ix", "num_messages", "archive_id">>
LocalFields == <<"id", "orig_file_id", "path", "begin_timestamp", "end_timestamp", "timestamp_patterns",
                 "num_uncompressed_bytes", "begin_message_ix", "num_messages", "num_variables", "is_split", "split_ix",
                 "segment_id", "segment_timestamps_position", "segment_logtypes_position", "segment_variables_position">>

UpsertParams(numbered, fields) == IF numbered THEN fields ELSE fields \o Tail(fields)
UpdateParams == Append(UpdateFields, "id")

Bind(fields, row) == [i \in DOMAIN fields |-> row[fields[i]]]

\* The second half of a MySQL upsert starts after the values.
Offset(fields) == Len(fields) - 1

BindUpsert(numbered, fields, row) ==
  LET second == {i + Offset(fields) : i \in 2 .. Len(fields)}
  IN IF numbered THEN Bind(fields, row)
     ELSE [p \in DOMAIN fields \cup second |-> IF p \in DOMAIN fields THEN row[fields[p]] ELSE row[fields[p - Offset(fields)]]]

BindUpdate(id, meta) == Append(Bind(UpdateFields, meta), id)

\* Every parameter must exist; one that is not bound is NULL.
Bindable(params, b) == DOMAIN b \subseteq DOMAIN params
At(b, p) == IF p \in DOMAIN b THEN b[p] ELSE Null

\* What the data base does with a statement and its parameters.
FieldIx(fields, f) == CHOOSE i \in DOMAIN fields : fields[i] = f
RowOf(fields, b) == [f \in Range(fields) |-> At(b, FieldIx(fields, f))]
ExecInsert(table, fields, b) == table \cup {RowOf(fields, b)}
ExecUpsert(table, numbered, fields, b) ==
  LET new == RowOf(fields, b)
      second(f) == IF numbered THEN new[f] ELSE At(b, FieldIx(fields, f) + Len(fields) - 1)
      old == {x \in table : x["id"] = new["id"]}
  IN IF old = {} THEN table \cup {new}
     ELSE (table \ old) \cup {[f \in Range(fields) |-> IF f = "id" THEN new[f] ELSE second(f)]}
ExecUpdate(table, b) ==
  {IF x["id"] = b[Len(UpdateParams)]
   THEN [f \in DOMAIN x |-> IF f \in Range(UpdateFields) THEN b[FieldIx(UpdateFields, f)] ELSE x[f]] ELSE x : x \in table}

(***************************************************************************)
(* Selects                                                                 *)
(***************************************************************************)
Sorted(rows, before(_, _)) == SetToSortSeq(rows, before)

ByCreation(x, y) == IF x["creator_id"] # y["creator_id"] THEN x["creator_id"] < y["creator_id"] ELSE x["creation_ix"] < y["creation_ix"]

\* The global tables: archives, archives in a time window, archives of a path.
SelectArchives(q) ==
  LET holds(a) == CASE q.kind = "all" -> TRUE
                    [] q.kind = "window" -> a["begin_timestamp"] <= q.end /\ a["end_timestamp"] >= q.begin
                    [] q.kind = "path" -> \E f \in db.files : f["archive_id"] = a["id"] /\ f["path"] = q.path
      rows == Sorted({a \in db.archives : holds(a)}, ByCreation)
  IN [i \in DOMAIN rows |-> <<rows[i]["id"]>>]

\* get_file_split: the first split that holds the message.
SelectSplit(q) ==
  LET pairs == {<<a, f>> \in db.archives \X db.files :
                  /\ f["archive_id"] = a["id"] /\ f["orig_file_id"] = q.orig
                  /\ q.message >= f["begin_message_ix"] /\ q.message < f["begin_message_ix"] + f["num_messages"]}
      rows == Sorted(pairs, LAMBDA x, y : ByCreation(x[1], y[1]))
  IN IF rows = <<>> THEN <<>> ELSE <<<<rows[1][1]["id"], rows[1][2]["id"]>>>>

\* Mutant: only files that begin inside the window.
BeginsInside(f, q) ==
  /\ q.begin # TsMin => f["begin_timestamp"] >= q.begin
  /\ q.end # TsMax => f["begin_timestamp"] <= q.end
  /\ q.path # Null => f["path"] = q.path
  /\ q.id # Null => f["id"] = q.id
  /\ q.seg # Null => f["segment_id"] = q.seg

\* get_files_select_statement.
FileHolds(f, q) ==
  /\ q.begin # TsMin => f["end_timestamp"] >= q.begin
  /\ q.end # TsMax => f["begin_timestamp"] <= q.end
  /\ q.path # Null => f["path"] = q.path
  /\ q.id # Null => f["id"] = q.id
  /\ q.seg # Null => f["segment_id"] = q.seg

SelectFiles(q) ==
  LET rows == {f \in db.loc : FileHolds(f, q)}
      last(f) == CHOOSE t \in {g["end_timestamp"] : g \in rows} :
                   /\ \E g \in rows : g["segment_id"] = f["segment_id"] /\ g["end_timestamp"] = t
                   /\ \A g \in rows : g["segment_id"] = f["segment_id"] => g["end_timestamp"] <= t
      at(f) == f["segment_timestamps_position"]
      before(f, g) ==
        IF q.byEnd THEN last(f) > last(g) \/ (last(f) = last(g) /\ at(f) < at(g))
        ELSE f["segment_id"] < g["segment_id"] \/ (f["segment_id"] = g["segment_id"] /\ at(f) < at(g))
      sorted == Sorted(rows, LAMBDA f, g : before(f, g))
  IN [i \in DOMAIN sorted |-> <<sorted[i]["id"]>>]

Select(q) == CASE q.kind \in {"all", "window", "path"} -> SelectArchives(q)
               [] q.kind = "split" -> SelectSplit(q)
               [] q.kind = "files" -> SelectFiles(q)
               [] q.kind = "dirs" -> [i \in 1 .. Cardinality(db.dirs) |-> <<SetToSeq(db.dirs)[i]>>]

(***************************************************************************)
(* The compressor                                                          *)
(***************************************************************************)
Numbered == db.backend = "sqlite"

MTInit ==
  /\ db \in [backend : {"sqlite", "mysql"}, archives : {{}}, files : {{}}, loc : {{}}, dirs : {{}}]
  /\ wr \in [script : Scripts, k : {1}, pc : {"closed"}, work : {{}}, j : {1},
             said : {[archives |-> <<>>, files |-> <<>>, loc |-> <<>>, dirs |-> {}]}]
  /\ rd = [pc |-> "idle", q |-> [kind |-> "none"], cursor |-> <<>>, got |-> <<>>, said |-> wr.said]

Call == wr.script[wr.k]
NextCall(w) == [w EXCEPT !.k = @ + 1, !.j = 1, !.work = {}, !.pc = "open"]
Calling(op) == wr.pc = "open" /\ wr.k <= Len(wr.script) /\ Call.op = op
Says(table, rows) == [id \in DOMAIN table \cup {r["id"] : r \in rows} |->
                        IF \E r \in rows : r["id"] = id THEN CHOOSE r \in rows : r["id"] = id ELSE table[id]]

\* A row of a SELECT that has not been fetched keeps SQLite from committing:
\* step() throws, and the compressor dies with its transaction.
Busy == db.backend = "sqlite" /\ rd.pc = "rows" /\ rd.q.kind \in {"all", "window", "path"}
Throws == wr' = [wr EXCEPT !.pc = "failed", !.work = {}] /\ UNCHANGED db

OpenTables == wr.pc = "closed" /\ wr' = [wr EXCEPT !.pc = "open"] /\ UNCHANGED <<db, rd>>

AddArchive ==
  /\ Calling("archive")
  /\ LET b == Bind(ArchiveFields, Call.row)
     IN IF Busy \/ (\E a \in db.archives : a["id"] = Call.row["id"]) THEN Throws
        ELSE /\ db' = [db EXCEPT !.archives = ExecInsert(@, ArchiveFields, b)]
             /\ wr' = [NextCall(wr) EXCEPT !.said.archives = Says(@, {Call.row})]
  /\ UNCHANGED rd

UpdateArchiveMetadata ==
  /\ Calling("update")
  /\ LET b == BindUpdate(Call.row["id"], Call.row)
         id == Call.row["id"]
     IN IF Busy \/ ~Bindable(UpdateParams, b) THEN Throws
        ELSE /\ db' = [db EXCEPT !.archives = ExecUpdate(@, b)]
             /\ wr' = [NextCall(wr) EXCEPT !.said.archives =
                         IF id \in DOMAIN @ THEN [@ EXCEPT ![id] = [f \in DOMAIN @ |-> IF f \in Range(UpdateFields) THEN Call.row[f] ELSE @[f]]]
                         ELSE @]
  /\ UNCHANGED rd

\* update_metadata_for_files and MetadataDB::update_files: a transaction.
BeginFiles ==
  /\ Calling("files") \/ Calling("local")
  /\ wr' = [wr EXCEPT !.pc = "txn", !.work = IF Call.op = "files" THEN db.files ELSE db.loc]
  /\ UNCHANGED <<db, rd>>

UpsertFile ==
  /\ wr.pc = "txn" /\ wr.j <= Len(Call.rows)
  /\ LET numbered == Call.op = "local" \/ Numbered
         fields == IF Call.op = "files" THEN FileFields ELSE LocalFields
         b == BindUpsert(numbered, fields, Call.rows[wr.j])
     IN IF ~Bindable(UpsertParams(numbered, fields), b) THEN Throws
        ELSE wr' = [wr EXCEPT !.work = ExecUpsert(@, numbered, fields, b), !.j = @ + 1] /\ UNCHANGED db
  /\ UNCHANGED rd

EndFiles ==
  /\ wr.pc = "txn" /\ wr.j > Len(Call.rows)
  /\ IF Call.op = "files" /\ Busy THEN Throws
     ELSE IF Call.op = "files"
     THEN db' = [db EXCEPT !.files = wr.work] /\ wr' = [NextCall(wr) EXCEPT !.said.files = Says(@, Range(Call.rows))]
     ELSE db' = [db EXCEPT !.loc = wr.work] /\ wr' = [NextCall(wr) EXCEPT !.said.loc = Says(@, Range(Call.rows))]
  /\ UNCHANGED rd

\* add_empty_directories: one INSERT ... ON CONFLICT DO NOTHING each.
AddEmptyDirectory ==
  /\ Calling("dirs")
  /\ LET d == Call.dirs[wr.j]
     IN /\ db' = [db EXCEPT !.dirs = @ \cup {d}]
        /\ wr' = IF wr.j = Len(Call.dirs) THEN [NextCall(wr) EXCEPT !.said.dirs = @ \cup {d}]
                 ELSE [wr EXCEPT !.j = @ + 1, !.said.dirs = @ \cup {d}]
  /\ UNCHANGED rd

CloseTables == wr.pc = "open" /\ wr.k > Len(wr.script) /\ wr' = [wr EXCEPT !.pc = "done"] /\ UNCHANGED <<db, rd>>

\* The process dies; the data base rolls an open transaction back.
CompressorDies == wr.pc \in {"open", "txn"} /\ wr' = [wr EXCEPT !.pc = "failed", !.work = {}] /\ UNCHANGED <<db, rd>>

(***************************************************************************)
(* The reader.  A constructor of an iterator fetches the first row.        *)
(***************************************************************************)
Ask ==
  /\ rd.pc = "idle"
  /\ \E q \in Lookups :
       LET rows == Select(q)
       IN rd' = IF q.kind = "split" THEN [pc |-> "end", q |-> q, cursor |-> <<>>, got |-> rows, said |-> wr.said]
                ELSE [pc |-> IF rows = <<>> THEN "end" ELSE "rows", q |-> q, cursor |-> rows, got |-> <<>>, said |-> wr.said]
  /\ UNCHANGED <<db, wr>>

Fetch ==
  /\ rd.pc = "rows" /\ Len(rd.got) < MaxRows
  /\ rd' = [rd EXCEPT !.got = Append(@, Head(rd.cursor)), !.cursor = Tail(@), !.pc = IF Tail(rd.cursor) = <<>> THEN "end" ELSE "rows"]
  /\ UNCHANGED <<db, wr>>

\* FileIterator::set_segment_id: the same statement for another segment.
SetSegmentId ==
  /\ rd.pc \in {"rows", "end"} /\ rd.q.kind = "files"
  /\ rd.q.seg # Null
  /\ \E s \in {x.seg : x \in {y \in Lookups : y.kind = "files"}} \ {Null, rd.q.seg} :
       LET q == [rd.q EXCEPT !.seg = s]
           rows == Select(q)
       IN rd' = [pc |-> IF rows = <<>> THEN "end" ELSE "rows", q |-> q, cursor |-> rows, got |-> <<>>, said |-> wr.said]
  /\ UNCHANGED <<db, wr>>

FinishReading == rd.pc \in {"rows", "end"} /\ rd' = [rd EXCEPT !.pc = "idle", !.q = [kind |-> "none"], !.cursor = <<>>, !.got = <<>>] /\ UNCHANGED <<db, wr>>

MTNext ==
  \/ OpenTables \/ AddArchive \/ UpdateArchiveMetadata \/ BeginFiles \/ UpsertFile \/ EndFiles \/ AddEmptyDirectory \/ CloseTables
  \/ CompressorDies \/ Ask \/ Fetch \/ SetSegmentId \/ FinishReading
MTSpec == MTInit /\ [][MTNext]_mtVars

(***************************************************************************)
(* Properties                                                              *)
(***************************************************************************)
\* State of the tables, of the compressor and of the reader.
MTTypeOK ==
  /\ \A a \in db.archives : DOMAIN a = Range(ArchiveFields)
  /\ \A f \in db.files : DOMAIN f = Range(FileFields)
  /\ \A f \in db.loc : DOMAIN f = Range(LocalFields)
  /\ wr.pc \in {"closed", "open", "txn", "done", "failed"} /\ wr.k \in 1 .. Len(wr.script) + 1
  /\ rd.pc \in {"idle", "rows", "end"} /\ (rd.pc = "rows" => rd.cursor # <<>>)

\* Whatever back end holds them, the committed rows are those of the calls that
\* returned, each as it was last given: no value in another's column, and
\* nothing of a call that failed or was cut short.
RowsAsGiven ==
  /\ db.archives = Range(wr.said.archives)
  /\ db.files = Range(wr.said.files)
  /\ db.loc = Range(wr.said.loc)
  /\ db.dirs = wr.said.dirs

Answer == Range(rd.got) \cup Range(rd.cursor)

\* A reader is led to all messages it asks for: an archive with a file of the
\* path, an archive or a file with messages in the time window, the split with
\* the message, every empty directory.
NothingOverlooked ==
  rd.pc # "idle" =>
    LET q == rd.q
        files == Range(rd.said.files)
        listed(f) == f["archive_id"] \in DOMAIN rd.said.archives
        overlaps(f) == \E t \in f["begin_timestamp"] .. f["end_timestamp"] : q.begin <= t /\ t <= q.end
    IN CASE q.kind = "path" -> \A f \in files : f["path"] = q.path /\ listed(f) => <<f["archive_id"]>> \in Answer
         [] q.kind = "window" -> \A f \in files : overlaps(f) /\ listed(f) => <<f["archive_id"]>> \in Answer
         [] q.kind = "split" -> \A f \in files : /\ f["orig_file_id"] = q.orig /\ listed(f)
                                                 /\ q.message \in f["begin_message_ix"] .. f["begin_message_ix"] + f["num_messages"] - 1
                                                 => Answer = {<<f["archive_id"], f["id"]>>}
         [] q.kind = "files" -> \A f \in Range(rd.said.loc) : /\ overlaps(f)
                                                              /\ q.path \in {Null, f["path"]} /\ q.id \in {Null, f["id"]} /\ q.seg \in {Null, f["segment_id"]}
                                                              => <<f["id"]>> \in Answer
         [] q.kind = "dirs" -> Answer = {<<d>> : d \in rd.said.dirs}
         [] OTHER -> Answer = {<<id>> : id \in DOMAIN rd.said.archives}

\* Archives of one compressor come in the order in which it made them, each
\* once, and the files of a segment come together and in their order.
PartsInOrder ==
  LET all == rd.got \o rd.cursor
      arch(i) == rd.said.archives[all[i][1]]
      file(i) == rd.said.loc[all[i][1]]
  IN /\ rd.q.kind \in {"all", "window", "path"} =>
          \A i, j \in DOMAIN all : i < j /\ arch(i)["creator_id"] = arch(j)["creator_id"] => arch(i)["creation_ix"] < arch(j)["creation_ix"]
     /\ rd.q.kind = "files" =>
          \A i, j \in DOMAIN all : i < j /\ file(i)["segment_id"] = file(j)["segment_id"] =>
            /\ file(i)["segment_timestamps_position"] < file(j)["segment_timestamps_position"]
            /\ ~rd.q.byEnd => \A k \in i .. j : file(k)["segment_id"] = file(i)["segment_id"]
=============================================================================
