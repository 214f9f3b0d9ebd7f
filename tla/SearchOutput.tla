---------------------------- MODULE SearchOutput ----------------------------
(***************************************************************************)
(* How search results leave the searching process: the output handlers of  *)
(* clp-s (stdout, file, network, results cache, reducer), its aggregators  *)
(* and their sinks, the handlers of clo, and clo's IR extraction.  A       *)
(* search runs over its inputs one record at a time; the calls that leave  *)
(* the process (inserting into the MongoDB results cache, sending, opening *)
(* or renaming a file) may fail, the process may die between two steps,    *)
(* and whoever started it may start it again on the same collection.       *)
(* What a record matches is the subject of ClpsSearch and ClpGrep: here a  *)
(* record either is a hit or is not.                                       *)
(***************************************************************************)
EXTENDS Integers, Sequences, FiniteSets, SequencesExt, FiniteSetsExt

CONSTANTS
    Searches,      \* command lines with their inputs, see SOTypeOK
    MaxFaults,     \* bound: failing calls and crashes in a behaviour
    MaxAttempts    \* bound: times the same search is started

VARIABLES
    job,           \* the search, one of Searches
    so,            \* the process: where it is and what it holds in memory
    dest           \* what outlives it: keyed documents, rows, output, files

soVars == <<job, so, dest>>

-----------------------------------------------------------------------------
(* The command lines: which handlers take which aggregation.  max = 0 is   *)
(* "max-num-results not given".                                            *)
AcceptedByClps(j) ==
    /\ j.out \in {"network", "file"} => j.agg = "none"
    /\ j.out = "reducer" => j.agg \in {"count", "count-by-time"}
    /\ j.agg = "count-by-time" => j.bucket > 0
    /\ j.batch > 0

AcceptedByClo(j) ==
    /\ j.out \in {"network", "reducer", "results-cache"}
    /\ j.out = "reducer" <=> j.agg \in {"count", "count-by-time"}
    /\ j.agg = "count-by-time" => j.bucket > 0
    /\ j.batch > 0

Accepted(j) == IF j.tool = "clp-s" THEN AcceptedByClps(j) ELSE AcceptedByClo(j)

(* Records of a table the query matches, from position k on.               *)
HitsFrom(t, k) == {p \in k..Len(t.recs) : t.recs[p].hit}

(* The index of a log event; 0 when the archive did not record the order.  *)
LogEventIdx(i, r) == IF i.order THEN r.idx ELSE 0

(* _id of a result: clp-s takes archive and index, clo file and index.     *)
ArchiveResultId(i, r) == <<i.id, LogEventIdx(i, r)>>
FileResultId(t, r) == <<t.file, r.idx>>

(* QueryResult as a document.                                              *)
Doc(j, i, t, r) ==
    [id   |-> IF j.tool = "clo" THEN FileResultId(t, r) ELSE ArchiveResultId(i, r),
     ts   |-> r.ts,
     body |-> <<i.id, t.file, r.idx>>]

-----------------------------------------------------------------------------
(* Aggregators.  A value has a kind and a numeric magnitude; the numbers   *)
(* of different kinds compare by magnitude, as std::visit(is_less) does.   *)
NoAggregate == [count |-> 0, buckets |-> <<>>, extreme |-> <<>>, values |-> {}]

(* C++ division truncates towards zero.                                    *)
Bucket(ts, size) ==
    IF ts >= 0 THEN (ts \div size) * size ELSE -(((-ts) \div size) * size)

IsNumber(v) == v.kind \in {"int", "float"}

BeatsExtreme(agg, v, cur) == IF agg = "max" THEN cur.n < v.n ELSE v.n < cur.n

AddRecord(j, a, r) ==
    CASE j.agg = "count" -> [a EXCEPT !.count = @ + 1]
      [] j.agg = "count-by-time" ->
            LET b == Bucket(r.ts, j.bucket)
            IN [a EXCEPT !.buckets = (b :> (IF b \in DOMAIN @ THEN @[b] + 1 ELSE 1)) @@ @]
      [] j.agg \in {"min", "max"} ->
            IF IsNumber(r.val) /\ (a.extreme = <<>> \/ BeatsExtreme(j.agg, r.val, Head(a.extreme)))
            THEN [a EXCEPT !.extreme = <<r.val>>] ELSE a
      [] j.agg = "unique" ->
            IF r.val.kind \in {"int", "float", "str", "bool"}
            THEN [a EXCEPT !.values = @ \cup {r.val}] ELSE a

(* get_results: documents with the key that identifies them, <<>> if none. *)
CountResults(a) == IF a.count = 0 THEN <<>> ELSE <<[key |-> <<>>, val |-> a.count]>>
CountByTimeResults(a) ==
    LET bs == SetToSortSeq(DOMAIN a.buckets, <)
    IN [p \in DOMAIN bs |-> [key |-> <<bs[p]>>, val |-> a.buckets[bs[p]]]]
MinMaxResults(a) == [p \in DOMAIN a.extreme |-> [key |-> <<>>, val |-> a.extreme[p]]]
UniqueResults(a) ==
    LET vs == SetToSeq(a.values) IN [p \in DOMAIN vs |-> [key |-> <<>>, val |-> vs[p]]]
Results(agg, a) ==
    CASE agg = "count" -> CountResults(a)
      [] agg = "count-by-time" -> CountByTimeResults(a)
      [] agg \in {"min", "max"} -> MinMaxResults(a)
      [] agg = "unique" -> UniqueResults(a)
      [] OTHER -> <<>>

-----------------------------------------------------------------------------
(* MongoDB.  An unordered insert_many applies some set S of the documents; *)
(* a document whose _id exists already is a duplicate-key error.           *)
FirstWith(docs, S) == {p \in S : \A q \in S : q < p => docs[q].id # docs[p].id}
NewOnes(coll, docs, S) ==
    {p \in FirstWith(docs, S) : \A d \in coll : d.id # docs[p].id}

(* The reply: S was tried; the rest met another write error ("write"), a   *)
(* command error ("command"), or was not tried at all ("silent").          *)
Replies(coll, docs) ==
    {[inserted |-> NewOnes(coll, docs, S), dup |-> Cardinality(S) - Cardinality(NewOnes(coll, docs, S)),
      tried |-> Cardinality(S), error |-> e] :
        S \in SUBSET DOMAIN docs, e \in {"none", "write", "command", "concern", "silent"}}
Possible(r, n) ==
    /\ r.error \in {"none", "concern"} => r.tried = n
    /\ r.error \in {"write", "silent"} => r.tried < n

\* Mutant: duplicates excuse the documents that were not tried.
IgnoresMissing(r, n) == /\ r.error \notin {"command", "concern", "write"}
                        /\ r.dup > 0

(* contains_only_duplicate_key_write_errors.                               *)
OnlyDuplicateKeys(r, n) ==
    /\ r.error \notin {"command", "concern"}
    /\ r.dup > 0
    /\ r.error # "write"
    /\ Cardinality(r.inserted) + r.dup = n

(* insert_results: no exception, or one that only reports duplicates.      *)
InsertSucceeds(r, n) == (r.error = "none" /\ r.dup = 0) \/ OnlyDuplicateKeys(r, n)

(* An ordered write applies a prefix of length k: a replacement with       *)
(* upsert for a keyed result, an insertion for an unkeyed one.             *)
Replaced(coll, ws, k) ==
    {d \in coll : \A p \in 1..k : ws[p].id # d.id}
        \cup {ws[p] : p \in {q \in 1..k : ws[q].id # <<>>}}
InsertedRows(ws, k) == SelectSeq(SubSeq(ws, 1, k), LAMBDA w : w.id = <<>>)

-----------------------------------------------------------------------------
Start(n, faults) ==
    [pc |-> "start", in |-> 1, tab |-> 1, rec |-> 1, heap |-> <<>>, pending |-> <<>>,
     acc |-> NoAggregate, lost |-> FALSE, attempt |-> n, faults |-> faults]

SOInit ==
    /\ job \in {j \in Searches : Accepted(j)}
    /\ so = Start(1, 0)
    /\ dest = [docs |-> {}, rows |-> <<>>, out |-> <<>>, files |-> {}]

Input == job.inputs[so.in]
Table == Input.tables[so.tab]
Fault(s) == [s EXCEPT !.faults = @ + 1]
CanFail == so.faults < MaxFaults

(* A call that fails is logged, and the process reports failure.           *)
Fails == CanFail /\ so' = [Fault(so) EXCEPT !.pc = "failed"]

(* clp-s dials the reducer once, before any input.                         *)
ConnectReducer ==
    /\ so.pc = "start" /\ job.tool = "clp-s"
    /\ \/ so' = [so EXCEPT !.pc = "open"]
       \/ job.out = "reducer" /\ Fails
    /\ UNCHANGED <<job, dest>>

(* clo creates its output handler before it opens the archive.             *)
CreateCloHandler ==
    /\ so.pc = "start" /\ job.tool # "clp-s"
    /\ \/ so' = [so EXCEPT !.pc = "open"]
       \/ job.out \in {"network", "reducer"} /\ Fails
    /\ UNCHANGED <<job, dest>>

IrSearchSupported == job.out = "stdout" /\ job.agg = "none"

(* A search of a kv-ir stream prints to stdout; anything else it was asked *)
(* for makes clp-s open the stream as an archive, which it is not.         *)
OpenIrStream ==
    /\ so.pc = "open" /\ so.in <= Len(job.inputs) /\ Input.kind = "ir"
    /\ so' = [so EXCEPT !.pc = IF IrSearchSupported THEN "ir" ELSE "failed",
                        !.tab = 1, !.rec = 1]
    /\ UNCHANGED <<job, dest>>

(* Events up to the end of the stream, or to where it is cut short: a      *)
(* truncated stream is searched as far as it goes.                         *)
SearchIrEvent ==
    /\ so.pc = "ir"
    /\ LET hs == HitsFrom(Table, so.rec)
       IN IF hs = {}
          THEN so' = [so EXCEPT !.pc = "open", !.in = @ + 1] /\ UNCHANGED dest
          ELSE /\ so' = [so EXCEPT !.rec = Min(hs) + 1]
               /\ dest' = [dest EXCEPT !.out = Append(@, Doc(job, Input, Table, Table.recs[Min(hs)]).body)]
    /\ UNCHANGED job

(* The handler of the command line; a file handler creates its file anew.  *)
CreateHandler == dest' = [dest EXCEPT !.out = IF job.out = "file" THEN <<>> ELSE @]

(* search_archive up to the scan.  "refused": the time range has no column *)
(* to apply to, or the query is logically false; "pruned": the indexes or  *)
(* the schemas rule the archive out before an output handler exists;       *)
(* "late": Output::filter rules it out, and returns without finish().      *)
OpenArchive ==
    /\ so.pc = "open" /\ so.in <= Len(job.inputs) /\ Input.kind = "archive"
    /\ \/ Fails /\ UNCHANGED dest
       \/ Input.stage = "refused" /\ so' = [so EXCEPT !.pc = "failed"] /\ UNCHANGED dest
       \/ Input.stage = "pruned" /\ so' = [so EXCEPT !.in = @ + 1] /\ UNCHANGED dest
       \/ /\ Input.stage \in {"late", "scan"}
          /\ CreateHandler
          /\ so' = IF Input.stage = "late" THEN [so EXCEPT !.in = @ + 1]
                   ELSE [so EXCEPT !.pc = "table", !.tab = 1, !.rec = 1, !.heap = <<>>,
                                   !.pending = <<>>, !.acc = NoAggregate]
    /\ UNCHANGED job

AllSearched ==
    /\ so.pc = "open" /\ so.in > Len(job.inputs)
    /\ so' = [so EXCEPT !.pc = "done"]
    /\ UNCHANGED <<job, dest>>

-----------------------------------------------------------------------------
(* clo skips a file all of whose messages are older than the results kept. *)
EndTs(t) == Max({r.ts : r \in Range(t.recs)})
Smallest(heap) == Min({d.ts : d \in Range(heap)})
LatestFull(heap) == job.max > 0 /\ Len(heap) >= job.max

CanSkipFile(t) ==
    job.tool = "clo" /\ LatestFull(so.heap) /\ Smallest(so.heap) > EndTs(t)

(* clp-s: the tables of the schemas that matched and that the query runner *)
(* does not rule out (live).                                               *)
NextSchema ==
    /\ so.pc = "table" /\ job.tool # "clo" /\ so.tab <= Len(Input.tables)
    /\ so' = IF Table.live THEN [so EXCEPT !.pc = "scan", !.rec = 1] ELSE [so EXCEPT !.tab = @ + 1]
    /\ UNCHANGED <<job, dest>>

(* clo: the files of the segments the dictionaries point to (live); a file *)
(* that does not open is passed over.                                      *)
NextFile ==
    /\ so.pc = "table" /\ job.tool = "clo" /\ so.tab <= Len(Input.tables)
    /\ so' = IF ~Table.live \/ CanSkipFile(Table) THEN [so EXCEPT !.tab = @ + 1]
             ELSE IF Table.opens THEN [so EXCEPT !.pc = "scan", !.rec = 1]
             ELSE [so EXCEPT !.tab = @ + 1, !.lost = TRUE]
    /\ UNCHANGED <<job, dest>>

EndTables ==
    /\ so.pc = "table" /\ so.tab > Len(Input.tables)
    /\ so' = [so EXCEPT !.pc = "finish",
                        !.heap = IF job.agg = "none" THEN @ ELSE Results(job.agg, so.acc)]
    /\ UNCHANGED <<job, dest>>

EndTable ==
    /\ so.pc = "scan" /\ HitsFrom(Table, so.rec) = {}
    /\ so' = [so EXCEPT !.pc = "table", !.tab = @ + 1]
    /\ UNCHANGED <<job, dest>>

(* ResultSendFailure: a result clo could not add ends its loop over files. *)
StopSearch(s) == [s EXCEPT !.pc = "finish", !.lost = TRUE]

(* Any other failed write or flush ends the search.                        *)
AfterFailure(s) ==
    IF s.pc = "scan" /\ job.tool = "clo" THEN StopSearch(s) ELSE [s EXCEPT !.pc = "failed"]

(* insert_results on the pending documents; s is the process afterwards.   *)
InsertPending(s) ==
    \E r \in Replies(dest.docs, s.pending) :
        /\ Possible(r, Len(s.pending))
        /\ r.error # "none" => CanFail
        /\ dest' = [dest EXCEPT !.docs = @ \cup {s.pending[p] : p \in r.inserted}]
        /\ LET f == IF r.error = "none" THEN s ELSE Fault(s)
           IN so' = IF InsertSucceeds(r, Len(s.pending)) THEN [f EXCEPT !.pending = <<>>]
                    ELSE AfterFailure(f)

(* flush_buffer of the aggregation sink, and insert_many of extract_ir.    *)
WritePending(s) ==
    \E k \in 0..Len(s.pending) :
        /\ dest' = [dest EXCEPT !.docs = Replaced(@, s.pending, k),
                                !.rows = @ \o InsertedRows(s.pending, k)]
        /\ \/ k = Len(s.pending) /\ so' = [s EXCEPT !.pending = <<>>]
           \/ CanFail /\ so' = [Fault(s) EXCEPT !.pc = "failed"]

FlushPending(s) ==
    IF job.agg = "none" /\ job.tool # "extract" THEN InsertPending(s) ELSE WritePending(s)

(* append_result, and the sink's write.                                    *)
AppendResult(s, d) ==
    LET t == [s EXCEPT !.pending = Append(@, d)]
    IN IF Len(t.pending) >= job.batch THEN FlushPending(t) ELSE so' = t /\ UNCHANGED dest

(* The earliest of the results kept; of equals, the one kept longest.      *)
TopAt(heap) == CHOOSE p \in DOMAIN heap :
    \A q \in DOMAIN heap : heap[p].ts < heap[q].ts \/ (heap[p].ts = heap[q].ts /\ p <= q)

KeepLatest(heap, d) ==
    IF Len(heap) < job.max THEN Append(heap, d)
    ELSE IF heap[TopAt(heap)].ts < d.ts THEN Append(RemoveAt(heap, TopAt(heap)), d)
    ELSE heap

(* ir_output_handler: the chunk is moved into place, then noted.           *)
OutputChunk(s, d) ==
    \/ /\ dest' = [dest EXCEPT !.files = @ \cup {d.body}]
       /\ so' = [s EXCEPT !.pending = Append(@, [id |-> <<>>, body |-> d.body])]
    \/ Fails /\ UNCHANGED dest

(* Results for the results cache: sent in batches, or the latest kept.     *)
AddToCache(s, d) ==
    IF job.max = 0 THEN AppendResult(s, d)
    ELSE so' = [s EXCEPT !.heap = KeepLatest(@, d)] /\ UNCHANGED dest

(* stdout, file and network take each result as it comes.                  *)
SendFailure(s) == job.out = "network" /\ CanFail /\ so' = AfterFailure(Fault(s)) /\ UNCHANGED dest
Emit(s, d) ==
    \/ so' = s /\ dest' = [dest EXCEPT !.out = Append(@, d.body)]
    \/ SendFailure(s)

(* The next match goes to the handler the command line chose.              *)
WriteResult ==
    /\ so.pc = "scan" /\ HitsFrom(Table, so.rec) # {}
    /\ LET p == Min(HitsFrom(Table, so.rec))
           d == Doc(job, Input, Table, Table.recs[p])
           s == [so EXCEPT !.rec = p + 1]
       IN CASE job.tool = "extract" -> OutputChunk(s, d)
            [] job.agg # "none" ->
                    so' = [s EXCEPT !.acc = AddRecord(job, @, Table.recs[p])] /\ UNCHANGED dest
            [] job.out = "results-cache" -> AddToCache(s, d)
            [] OTHER -> Emit(s, d)
    /\ UNCHANGED job

-----------------------------------------------------------------------------
(* A result of an aggregation as the sink stores it.                       *)
Stored(a) ==
    [id |-> IF a.key = <<>> THEN <<>> ELSE <<Input.id>> \o a.key, body |-> <<Input.id, a.val>>]

(* finish, or clo's flush: one result of the heap (for an aggregation, of  *)
(* its results) at a time into the pending documents.                      *)
FinishOne ==
    /\ so.pc = "finish" /\ job.out = "results-cache" /\ so.heap # <<>>
    /\ IF job.agg = "none"
       THEN AppendResult([so EXCEPT !.heap = RemoveAt(@, TopAt(@))], so.heap[TopAt(so.heap)])
       ELSE AppendResult([so EXCEPT !.heap = Tail(@)], Stored(Head(so.heap)))
    /\ UNCHANGED job

FinishPending ==
    /\ so.pc = "finish" /\ job.out = "results-cache" /\ so.heap = <<>> /\ so.pending # <<>>
    /\ FlushPending(so)
    /\ UNCHANGED job

(* send_pipeline_results may fail after some of the groups.                *)
SendResults ==
    /\ so.pc = "finish" /\ job.out \in {"reducer", "stdout"} /\ so.heap # <<>>
    /\ \/ /\ dest' = [dest EXCEPT !.out = @ \o [p \in DOMAIN so.heap |-> <<Input.id, so.heap[p]>>]]
          /\ so' = [so EXCEPT !.heap = <<>>]
       \/ /\ job.out = "reducer" /\ CanFail
          /\ \E k \in 0..Len(so.heap) :
                dest' = [dest EXCEPT !.out = @ \o [p \in 1..k |-> <<Input.id, so.heap[p]>>]]
          /\ so' = [Fault(so) EXCEPT !.pc = "failed"]
    /\ UNCHANGED job

NextInput ==
    /\ so.pc = "finish" /\ so.heap = <<>> /\ so.pending = <<>>
    /\ so' = [so EXCEPT !.pc = "open", !.in = @ + 1]
    /\ UNCHANGED <<job, dest>>

(* The process is killed; whoever asked for the search asks again.  Only   *)
(* the results cache and the extracted files are shared between attempts.  *)
Crash ==
    /\ so.pc \notin {"done", "failed", "dead"} /\ CanFail
    /\ so' = [Fault(so) EXCEPT !.pc = "dead"]
    /\ UNCHANGED <<job, dest>>

Retry ==
    /\ so.pc \in {"failed", "dead"} /\ job.out = "results-cache" /\ so.attempt < MaxAttempts
    /\ so' = Start(so.attempt + 1, so.faults)
    /\ UNCHANGED <<job, dest>>

SONext ==
    \/ ConnectReducer \/ CreateCloHandler \/ OpenIrStream \/ SearchIrEvent \/ OpenArchive \/ AllSearched
    \/ NextSchema \/ NextFile \/ EndTables \/ EndTable \/ WriteResult
    \/ FinishOne \/ FinishPending \/ SendResults \/ NextInput
    \/ Crash \/ Retry

SOSpec == SOInit /\ [][SONext]_soVars

-----------------------------------------------------------------------------
HitsOf(t) == {r \in Range(t.recs) : r.hit}
AllHits(i) == UNION {HitsOf(t) : t \in Range(i.tables)}
AllDocs(i) == UNION {{Doc(job, i, t, r) : r \in HitsOf(t)} : t \in Range(i.tables)}
Kept(i) == {d \in dest.docs : d.body[1] = i.id}
SearchedInputs == Range(job.inputs)
ToCache == job.out = "results-cache" /\ job.agg = "none" /\ job.tool # "extract"

(* The process is at a table and record of its input, holds no more than   *)
(* a batch of documents and no more than max-num-results results.          *)
SOTypeOK ==
    /\ so.pc \in {"start", "open", "ir", "table", "scan", "finish", "done", "failed", "dead"}
    /\ so.in \in 1..(Len(job.inputs) + 1)
    /\ so.pc \in {"table", "scan", "finish"} => so.tab \in 1..(Len(Input.tables) + 1)
    /\ so.pc = "scan" => so.rec \in 1..(Len(Table.recs) + 1)
    /\ job.tool # "extract" => Len(so.pending) <= job.batch
    /\ so.pc = "scan" /\ job.max > 0 => Len(so.heap) <= job.max
    /\ so.faults \in 0..MaxFaults /\ so.attempt \in 1..MaxAttempts

(* A search that reports success has put every match, and nothing else,    *)
(* into the results cache, whatever earlier attempts at the same search    *)
(* left there (archives that recorded the log order; clo's lost results    *)
(* aside, which it does not report).                                       *)
CompleteOnSuccess ==
    /\ ToCache => dest.docs \subseteq UNION {AllDocs(i) : i \in SearchedInputs}
    /\ ToCache /\ job.max = 0 /\ so.pc = "done" /\ ~so.lost /\ (\A i \in SearchedInputs : i.order)
         => dest.docs = UNION {AllDocs(i) : i \in SearchedInputs}

(* With max-num-results, an archive never has more results in the cache    *)
(* than that, over all attempts, and after a success it has its latest.    *)
LatestKept ==
    ToCache /\ job.max > 0 /\ (\A i \in SearchedInputs : i.order) => \A i \in SearchedInputs :
        /\ Cardinality(Kept(i)) <= job.max
        /\ so.pc = "done" /\ ~so.lost =>
              /\ Cardinality(Kept(i)) = Min({job.max, Cardinality(AllDocs(i))})
              /\ \A d \in AllDocs(i) \ Kept(i), k \in Kept(i) : d.ts <= k.ts

(* What goes to stdout, to the network or to a file is a prefix of the     *)
(* matches in the order of the inputs, and all of them on success (a file: *)
(* of the input searched last, the only one whose results it holds).       *)
MatchesInOrder ==
    LET hits(t) == SelectSeq(t.recs, LAMBDA r : r.hit)
        bodies(i, t) == [p \in DOMAIN hits(t) |-> Doc(job, i, t, hits(t)[p]).body]
        ofInput(i) == FlattenSeq([q \in DOMAIN i.tables |-> bodies(i, i.tables[q])])
        from == IF job.out = "file" THEN Len(job.inputs) ELSE 1
        all == FlattenSeq([q \in DOMAIN job.inputs |-> IF q < from THEN <<>> ELSE ofInput(job.inputs[q])])
    IN job.agg = "none" /\ job.out \in {"stdout", "network", "file"} =>
        /\ job.out # "file" /\ ~so.lost => IsPrefix(dest.out, all)
        /\ so.pc = "done" /\ ~so.lost => dest.out = all

(* Reference: the aggregate of an archive, by what it means.               *)
Numbers(i) == {v \in {r.val : r \in AllHits(i)} : IsNumber(v)}
MeansAggregate(i, S) ==
    CASE job.agg = "count" ->
            S = IF AllHits(i) = {} THEN {} ELSE {[key |-> <<>>, val |-> Cardinality(AllHits(i))]}
      [] job.agg = "count-by-time" ->
            LET within(b) == {r \in AllHits(i) : b <= r.ts /\ r.ts < b + job.bucket}
            IN S = {[key |-> <<b>>, val |-> Cardinality(within(b))] :
                        b \in {x \in 0..Max({0} \cup {r.ts : r \in AllHits(i)}) :
                                    x % job.bucket = 0 /\ within(x) # {}}}
      [] job.agg = "unique" ->
            S = {[key |-> <<>>, val |-> r.val] : r \in {x \in AllHits(i) : x.val.kind # "other"}}
      [] job.agg = "min" ->
            /\ S = {} <=> Numbers(i) = {}
            /\ \A x \in S : x.val \in Numbers(i) /\ \A v \in Numbers(i) : x.val.n <= v.n
      [] job.agg = "max" ->
            /\ S = {} <=> Numbers(i) = {}
            /\ \A x \in S : x.val \in Numbers(i) /\ \A v \in Numbers(i) : x.val.n >= v.n

(* What the destination holds of the aggregate of an archive.              *)
Reported(i) ==
    IF job.out = "results-cache"
    THEN {[key |-> Tail(d.id), val |-> d.body[2]] : d \in Kept(i)}
            \cup {[key |-> <<>>, val |-> w.body[2]] : w \in {x \in Range(dest.rows) : x.body[1] = i.id}}
    ELSE {o[2] : o \in {x \in Range(dest.out) : x[1] = i.id}}

(* A search that reports success has delivered, for each archive, exactly  *)
(* the aggregate of its matches: count, count per time bucket, extreme or  *)
(* distinct values.  Retries replace the buckets written before.           *)
AggregatesExact ==
    job.agg # "none" /\ so.pc = "done" /\ ~so.lost =>
        /\ \A i \in SearchedInputs : MeansAggregate(i, Reported(i))
        /\ so.attempt = 1 => Len(dest.rows) = Cardinality(Range(dest.rows))

(* IR extraction: a chunk is listed in the results cache only once its     *)
(* file is in place, and a success lists every chunk.                      *)
ChunksOnDisk ==
    job.tool = "extract" =>
        /\ \A w \in Range(dest.rows) : w.body \in dest.files
        /\ so.pc = "done" => \A i \in SearchedInputs : \A d \in AllDocs(i) :
                                \E w \in Range(dest.rows) : w.body = d.body

=============================================================================
