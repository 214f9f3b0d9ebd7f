----------------------------- MODULE LogIngestor -----------------------------
(***************************************************************************)
(* The log ingestor (components/log-ingestor): its ingestion jobs, the     *)
(* scanner and SQS tasks that record S3 objects as rows of                 *)
(* `ingested_s3_object_metadata`, the listener that buffers those rows and *)
(* the detached coroutines that submit them as compression jobs and wait   *)
(* for the result.                                                         *)
(*                                                                         *)
(* One process runs everything.  It may die at any point and be restarted; *)
(* the database, S3, the SQS queues and the compression cluster survive.   *)
(***************************************************************************)
EXTENDS Naturals, FiniteSets

CONSTANTS
    Jobs,             \* IDs of ingestion jobs
    Kind,             \* Kind[j]: "scanner" or "sqs"
    Conflicts,        \* pairs of jobs whose prefixes are not mutually prefix-free
    Workers,          \* the tasks of ingestion job instances
    JobOf,            \* JobOf[w]: the job that task w belongs to
    MaxKey,           \* bound: number of S3 objects, in key order
    Relevant,         \* keys that pass is_relevant_object
    MaxCopies,        \* bound: how often one job records one key, above MaxFaults
    CompressionIds,   \* bound: compression jobs in a behaviour
    Requests,         \* slots for concurrent shutdown requests
    ChannelCapacity,  \* `channel_capacity`
    NoJob, NoCompression,  \* NULL
    FaultKinds,       \* faults that may occur: "crash", "db", "aws"
    MaxFaults         \* bound on the number of faults in a behaviour

Keys == 1..MaxKey
Copies == 1..MaxCopies
\* A row: the job that recorded it, its key, and which copy of the key it is.
Rows == Jobs \X Keys \X Copies

ASSUME KindAssumption == Kind \in [Jobs -> {"scanner", "sqs"}]
ASSUME ConflictsAssumption ==
    /\ Conflicts \subseteq Jobs \X Jobs
    /\ \A p \in Conflicts : <<p[2], p[1]>> \in Conflicts
\* S3Scanner::spawn starts one task; num_concurrent_listener_tasks is positive.
ASSUME WorkersAssumption ==
    /\ JobOf \in [Workers -> Jobs]
    /\ \A j \in Jobs : \E w \in Workers : JobOf[w] = j
    /\ \A v, w \in Workers : JobOf[v] = JobOf[w] /\ Kind[JobOf[v]] = "scanner" => v = w
ASSUME BoundsAssumption ==
    /\ MaxKey \in Nat /\ MaxFaults \in Nat
    /\ MaxCopies \in Nat /\ MaxCopies > MaxFaults
    /\ ChannelCapacity \in Nat \ {0}
    /\ Relevant \subseteq Keys
\* Jobs are rows of a table, and each starts a configured number of tasks.
ASSUME FinitenessAssumption == IsFiniteSet(Jobs) /\ IsFiniteSet(Workers)
ASSUME NullAssumption == NoJob \notin Jobs /\ NoCompression \notin CompressionIds

VARIABLES
    \* CLP DB.
    jstatus,     \* `ingestion_job.status`, "absent" before the row is inserted
    last_key,    \* `last_ingested_key` of a scanner, 0 for NULL
    num_compressed,  \* `num_files_compressed`
    rstatus,     \* `status` of an object metadata row, "absent" before it is inserted
    rcjob,       \* its `compression_job_id`
    \* Outside the process.
    objects,     \* number of S3 objects so far: keys 1..objects exist
    queue,       \* SQS messages of a job's queue, named by the key they announce
    cstatus,     \* state of a compression job
    \* The job manager.
    up,          \* whether the process runs
    rec,         \* what from_config still has to do for a loaded job
    reg,         \* jobs inside register_and_create_s3_ingestion_job
    table,       \* keys of job_table
    rpc, rjob,   \* shutdown requests: next await point, job
    asked,       \* jobs that some request asked to shut down (history)
    \* Ingestion job instances.
    wpc,         \* a task's next await point
    wkeys,       \* the page or messages it is processing
    wrows,       \* the rows it recorded and has not sent
    cursor,      \* start_after of a scanner
    cancel,      \* whether the instance's tokens are cancelled
    \* Compression listeners.
    lst,         \* "run", "cancel" (token cancelled), "closing" (context dropped)
    chan,        \* messages in the channel: sets of rows
    buf,         \* the buffer
    timer,       \* timer_active
    subs,        \* coroutines about to submit: the rows of each
    waiters,     \* coroutines waiting: <<compression job, num_objects_submitted>>
    faults

db == <<jstatus, last_key, num_compressed, rstatus, rcjob>>
ext == <<objects, queue, cstatus>>
reqs == <<rpc, rjob, asked>>
mgr == <<up, rec, reg, table>>
tasks == <<wpc, wkeys, wrows, cursor, cancel>>
listeners == <<lst, chan, buf, timer>>
coroutines == <<subs, waiters>>
vars == <<db, ext, reqs, mgr, tasks, listeners, coroutines, faults>>

JobStatuses == {"absent", "requested", "running", "failed", "finished"}
RowStatuses == {"absent", "buffered", "submitted", "compressed", "failed"}

TypeOK ==
    /\ jstatus \in [Jobs -> JobStatuses]
    /\ last_key \in [Jobs -> Keys \cup {0}]
    /\ num_compressed \in [Jobs -> Nat]
    /\ rstatus \in [Rows -> RowStatuses]
    /\ rcjob \in [Rows -> CompressionIds \cup {NoCompression}]
    /\ objects \in Keys \cup {0}
    /\ queue \in [Jobs -> SUBSET Keys]
    /\ cstatus \in [CompressionIds -> {"absent", "pending", "succeeded", "failed"}]
    /\ up \in BOOLEAN
    /\ rec \in [Jobs -> {"none", "requested", "running", "inactive", "create"}]
    /\ reg \in [Jobs -> {"none", "create", "fail"}]
    /\ table \subseteq Jobs
    /\ rpc \in [Requests -> {"free", "join", "listener", "status", "end", "lookup", "fail"}]
    /\ rjob \in [Requests -> Jobs \cup {NoJob}]
    /\ asked \subseteq Jobs
    /\ wpc \in [Workers -> {"none", "fetch", "ingest", "send", "delete", "fail"}]
    /\ wkeys \in [Workers -> SUBSET Keys]
    /\ wrows \in [Workers -> SUBSET Rows]
    /\ cursor \in [Jobs -> Keys \cup {0}]
    /\ cancel \in [Jobs -> BOOLEAN]
    /\ lst \in [Jobs -> {"none", "run", "cancel", "closing"}]
    /\ chan \in [Jobs -> SUBSET SUBSET Rows]
    /\ buf \in [Jobs -> SUBSET Rows]
    /\ timer \in [Jobs -> BOOLEAN]
    /\ subs \subseteq SUBSET Rows
    /\ waiters \subseteq CompressionIds \X Nat
    /\ faults \in Nat

Init ==
    /\ jstatus = [j \in Jobs |-> "absent"]
    /\ last_key = [j \in Jobs |-> 0]
    /\ num_compressed = [j \in Jobs |-> 0]
    /\ rstatus = [r \in Rows |-> "absent"]
    /\ rcjob = [r \in Rows |-> NoCompression]
    /\ objects = 0
    /\ queue = [j \in Jobs |-> {}]
    /\ cstatus = [c \in CompressionIds |-> "absent"]
    /\ up = TRUE
    /\ rec = [j \in Jobs |-> "none"]
    /\ reg = [j \in Jobs |-> "none"]
    /\ table = {}
    /\ rpc = [q \in Requests |-> "free"]
    /\ rjob = [q \in Requests |-> NoJob]
    /\ asked = {}
    /\ wpc = [w \in Workers |-> "none"]
    /\ wkeys = [w \in Workers |-> {}]
    /\ wrows = [w \in Workers |-> {}]
    /\ cursor = [j \in Jobs |-> 0]
    /\ cancel = [j \in Jobs |-> FALSE]
    /\ lst = [j \in Jobs |-> "none"]
    /\ chan = [j \in Jobs |-> {}]
    /\ buf = [j \in Jobs |-> {}]
    /\ timer = [j \in Jobs |-> FALSE]
    /\ subs = {}
    /\ waiters = {}
    /\ faults = 0

Fault(k) ==
    /\ k \in FaultKinds
    /\ faults < MaxFaults
    /\ faults' = faults + 1

NoFault == faults' = faults

RowsOf(j) == {r \in Rows : r[1] = j /\ rstatus[r] # "absent"}
RowsWith(j, s) == {r \in RowsOf(j) : rstatus[r] = s}
WorkersOf(j) == {w \in Workers : JobOf[w] = j}

-----------------------------------------------------------------------------
(***************************************************************************)
(* S3, SQS and the compression cluster                                     *)
(***************************************************************************)

\* An object with the next key appears; its event reaches every queue.
PutObject ==
    /\ objects < MaxKey
    /\ objects' = objects + 1
    /\ queue' = [j \in Jobs |-> IF Kind[j] = "sqs" THEN queue[j] \cup {objects + 1}
                                                   ELSE queue[j]]
    /\ NoFault
    /\ UNCHANGED <<cstatus, db, reqs, mgr, tasks, listeners, coroutines>>

\* The cluster ends a compression job; KILLED is treated as FAILED.
CompressionEnds(c) ==
    /\ cstatus[c] = "pending"
    /\ \E s \in {"succeeded", "failed"} : cstatus' = [cstatus EXCEPT ![c] = s]
    /\ NoFault
    /\ UNCHANGED <<objects, queue, db, reqs, mgr, tasks, listeners, coroutines>>

-----------------------------------------------------------------------------
(***************************************************************************)
(* Ingestion job status                                                    *)
(***************************************************************************)

IsValidTransition(from, to) ==
    CASE to = "failed" -> TRUE
      [] to = "running" -> from = "requested"
      [] to = "finished" -> from = "running"

\* update_job_status: row-locked, idempotent; an invalid transition changes nothing.
UpdateJobStatus(j, to) ==
    jstatus' = IF IsValidTransition(jstatus[j], to)
               THEN [jstatus EXCEPT ![j] = to] ELSE jstatus

\* What update_job_status returns for that transition.
TransitionOk(j, to) == jstatus[j] = to \/ IsValidTransition(jstatus[j], to)

-----------------------------------------------------------------------------
(***************************************************************************)
(* Creating job instances, on request and on recovery                      *)
(***************************************************************************)

\* Requests are accepted once from_config has returned.
Serving == up /\ \A j \in Jobs : rec[j] = "none"

\* create_s3_ingestion_job_instance passes its checks and start() succeeds.
CanCreate(j) ==
    /\ j \notin table
    /\ \A k \in table : <<j, k>> \notin Conflicts
    /\ TransitionOk(j, "running")

\* The instance is spawned and entered in job_table, under the table's lock.
SpawnInstance(j, start_after) ==
    /\ UpdateJobStatus(j, "running")
    /\ table' = table \cup {j}
    /\ wpc' = [w \in Workers |-> IF JobOf[w] = j THEN "fetch" ELSE wpc[w]]
    /\ cursor' = [cursor EXCEPT ![j] = start_after]
    /\ cancel' = [cancel EXCEPT ![j] = FALSE]
    /\ UNCHANGED <<wkeys, wrows>>

\* The job's context is dropped: the listener ends once no sender is left.
DropContext(j) == lst' = [lst EXCEPT ![j] = IF @ = "run" THEN "closing" ELSE @]

\* create_ingestion_job.
RegisterJob(j) ==
    /\ Serving
    /\ jstatus[j] = "absent"
    /\ jstatus' = [jstatus EXCEPT ![j] = "requested"]
    /\ reg' = [reg EXCEPT ![j] = "create"]
    /\ lst' = [lst EXCEPT ![j] = "run"]
    /\ NoFault
    /\ UNCHANGED <<last_key, num_compressed, rstatus, rcjob, ext, reqs, up, rec, table,
                   tasks, chan, buf, timer, coroutines>>

CreateInstance(j) ==
    /\ reg[j] = "create"
    /\ \/ /\ CanCreate(j)
          /\ SpawnInstance(j, 0)
          /\ reg' = [reg EXCEPT ![j] = "none"]
          /\ NoFault
       \/ /\ ~CanCreate(j)
          /\ reg' = [reg EXCEPT ![j] = "fail"]
          /\ NoFault
          /\ UNCHANGED <<jstatus, table, tasks>>
       \/ /\ Fault("db")  \* start() reports an error
          /\ UpdateJobStatus(j, "running") \/ UNCHANGED jstatus
          /\ reg' = [reg EXCEPT ![j] = "fail"]
          /\ UNCHANGED <<table, tasks>>
    /\ UNCHANGED <<last_key, num_compressed, rstatus, rcjob, ext, reqs, up, rec,
                   listeners, coroutines>>

\* The registration failed: fail() is called, the request returns the error.
RegisterFails(j) ==
    /\ reg[j] = "fail"
    /\ \/ UpdateJobStatus(j, "failed") /\ NoFault
       \/ Fault("db") /\ UNCHANGED jstatus
    /\ reg' = [reg EXCEPT ![j] = "none"]
    /\ DropContext(j)
    /\ UNCHANGED <<last_key, num_compressed, rstatus, rcjob, ext, reqs, up, rec, table,
                   tasks, chan, buf, timer, coroutines>>

Crash ==
    /\ up
    /\ Fault("crash")
    /\ up' = FALSE
    /\ rec' = [j \in Jobs |-> "none"]
    /\ reg' = [j \in Jobs |-> "none"]
    /\ table' = {}
    /\ rpc' = [q \in Requests |-> "free"]
    /\ rjob' = [q \in Requests |-> NoJob]
    /\ wpc' = [w \in Workers |-> "none"]
    /\ wkeys' = [w \in Workers |-> {}]
    /\ wrows' = [w \in Workers |-> {}]
    /\ cursor' = [j \in Jobs |-> 0]
    /\ cancel' = [j \in Jobs |-> FALSE]
    /\ lst' = [j \in Jobs |-> "none"]
    /\ chan' = [j \in Jobs |-> {}]
    /\ buf' = [j \in Jobs |-> {}]
    /\ timer' = [j \in Jobs |-> FALSE]
    /\ subs' = {}
    /\ waiters' = {}
    /\ UNCHANGED <<db, ext, asked>>

\* Rows that were submitted with compression job c and have no result yet.
SubmittedWith(c) == {r \in Rows : rcjob[r] = c /\ rstatus[r] = "submitted"}

NoUnfinishedCompressionJobs == {}

AllCompressionJobs ==
    LET R(c) == {r \in Rows : rcjob[r] = c}
    IN  {<<c, Cardinality(R(c))>> : c \in {x \in CompressionIds : R(x) # {}}}

\* get_unfinished_compression_jobs.
UnfinishedCompressionJobs ==
    {<<c, Cardinality(SubmittedWith(c))>> : c \in {x \in CompressionIds : SubmittedWith(x) # {}}}

LoadedAsInactive(status) ==
    CASE status = "absent" -> "none"
      [] status = "requested" -> "requested"
      [] OTHER -> "inactive"

\* The list that connect puts a loaded job in.
LoadedAs(status) ==
    CASE status = "absent" -> "none"
      [] status \in {"requested", "running"} -> status
      [] OTHER -> "inactive"

\* connect: jobs and unfinished compression jobs are loaded; every loaded job
\* gets a listener; a running scanner resumes after its last ingested key.
Boot ==
    /\ ~up
    /\ up' = TRUE
    /\ rec' = [j \in Jobs |-> LoadedAs(jstatus[j])]
    /\ lst' = [j \in Jobs |-> IF jstatus[j] = "absent" THEN "none" ELSE "run"]
    /\ cursor' = [j \in Jobs |-> IF jstatus[j] = "running" THEN last_key[j] ELSE 0]
    /\ waiters' = UnfinishedCompressionJobs
    /\ NoFault
    /\ UNCHANGED <<db, ext, reqs, reg, table, wpc, wkeys, wrows, cancel, chan, buf, timer, subs>>

\* update_start_after fails for a running scanner, before any job is recovered: the
\* job is failed, and so loaded as an inactive one, or it is skipped if that fails.
LoadFails(j) ==
    /\ rec[j] = "running"
    /\ Kind[j] = "scanner"
    /\ table = {} /\ \A k \in Jobs : rec[k] # "create"
    /\ Fault("db")
    /\ \/ /\ UpdateJobStatus(j, "failed")
          /\ rec' = [rec EXCEPT ![j] = "inactive"]
          /\ UNCHANGED lst
       \/ /\ rec' = [rec EXCEPT ![j] = "none"]
          /\ lst' = [lst EXCEPT ![j] = "none"]
          /\ UNCHANGED jstatus
    /\ UNCHANGED <<last_key, num_compressed, rstatus, rcjob, ext, reqs, up, reg, table,
                   tasks, chan, buf, timer, coroutines>>

\* Jobs are recovered one after the other: requested, running, inactive ones.
IsNextToRecover(j) ==
    /\ rec[j] \in {"requested", "running", "inactive"}
    /\ \A k \in Jobs : /\ rec[k] # "create"
                       /\ rec[j] = "running" => rec[k] # "requested"
                       /\ rec[j] = "inactive" => rec[k] \notin {"requested", "running"}

\* try_refill_ingestion_buffer; the context of an inactive job is then dropped.
RefillBuffer(j) ==
    /\ IsNextToRecover(j)
    /\ \/ /\ chan' = [chan EXCEPT ![j] = @ \cup ({RowsWith(j, "buffered")} \ {{}})]
          /\ NoFault
       \/ Fault("db") /\ UNCHANGED chan
    /\ rec' = [rec EXCEPT ![j] = IF @ = "inactive" THEN "none" ELSE "create"]
    /\ IF rec[j] = "inactive" THEN DropContext(j) ELSE UNCHANGED lst
    /\ UNCHANGED <<db, ext, reqs, up, reg, table, tasks, buf, timer, coroutines>>

\* The instance is created again; on an error recovery of the job is skipped.
RecoverInstance(j) ==
    /\ rec[j] = "create"
    /\ rec' = [rec EXCEPT ![j] = "none"]
    /\ \/ /\ CanCreate(j)
          /\ SpawnInstance(j, cursor[j])
          /\ NoFault
          /\ UNCHANGED lst
       \/ /\ ~CanCreate(j)
          /\ DropContext(j)
          /\ NoFault
          /\ UNCHANGED <<jstatus, table, tasks>>
       \/ /\ Fault("db")
          /\ UpdateJobStatus(j, "running") \/ UNCHANGED jstatus
          /\ DropContext(j)
          /\ UNCHANGED <<table, tasks>>
    /\ UNCHANGED <<last_key, num_compressed, rstatus, rcjob, ext, reqs, up, reg,
                   chan, buf, timer, coroutines>>

-----------------------------------------------------------------------------
(***************************************************************************)
(* shutdown_and_remove_job_instance                                        *)
(***************************************************************************)

Advance(q, pc) == rpc' = [rpc EXCEPT ![q] = pc]

\* The entry leaves job_table and its tokens are cancelled, or there is none.
ShutdownRequest(q, j) ==
    /\ Serving
    /\ rpc[q] = "free"
    /\ jstatus[j] # "absent"  \* otherwise JobNotFound
    /\ rjob' = [rjob EXCEPT ![q] = j]
    /\ asked' = asked \cup {j}
    /\ IF j \in table
       THEN /\ table' = table \ {j}
            /\ cancel' = [cancel EXCEPT ![j] = TRUE]
            /\ Advance(q, "join")
       ELSE Advance(q, "lookup") /\ UNCHANGED <<table, cancel>>
    /\ NoFault
    /\ UNCHANGED <<db, ext, up, rec, reg, wpc, wkeys, wrows, cursor, listeners, coroutines>>

JoinInstanceWithoutTasks(q) ==
    /\ rpc[q] = "join"
    /\ lst' = [lst EXCEPT ![rjob[q]] = "cancel"]
    /\ Advance(q, "listener")
    /\ NoFault
    /\ UNCHANGED <<db, ext, rjob, asked, mgr, tasks, chan, buf, timer, coroutines>>

\* ingestion_job_instance.shutdown_and_join returns; the listener is cancelled.
JoinInstance(q) ==
    /\ rpc[q] = "join"
    /\ \A w \in WorkersOf(rjob[q]) : wpc[w] = "none"
    /\ lst' = [lst EXCEPT ![rjob[q]] = "cancel"]
    /\ Advance(q, "listener")
    /\ NoFault
    /\ UNCHANGED <<db, ext, rjob, asked, mgr, tasks, chan, buf, timer, coroutines>>

JoinListener(q) ==
    /\ rpc[q] = "listener"
    /\ lst[rjob[q]] = "none"
    /\ Advance(q, "status")
    /\ NoFault
    /\ UNCHANGED <<db, ext, rjob, asked, mgr, tasks, listeners, coroutines>>

\* ClpIngestionJobContext::shutdown reads the status before it calls end().
CheckBeforeEnd(q) ==
    /\ rpc[q] = "status"
    /\ Advance(q, IF jstatus[rjob[q]] = "failed" THEN "free" ELSE "end")
    /\ NoFault
    /\ UNCHANGED <<db, ext, rjob, asked, mgr, tasks, listeners, coroutines>>

EndJob(q) ==
    /\ rpc[q] = "end"
    /\ UpdateJobStatus(rjob[q], "finished")
    /\ Advance(q, "free")
    /\ NoFault
    /\ UNCHANGED <<last_key, num_compressed, rstatus, rcjob, ext, rjob, asked, mgr, tasks,
                   listeners, coroutines>>

\* No entry in job_table: get_job_status decides whether try_fail is called.
LookUpStatus(q) ==
    /\ rpc[q] = "lookup"
    /\ Advance(q, IF jstatus[rjob[q]] = "finished" THEN "free" ELSE "fail")
    /\ NoFault
    /\ UNCHANGED <<db, ext, rjob, asked, mgr, tasks, listeners, coroutines>>

TryFail(q) ==
    /\ rpc[q] = "fail"
    /\ UpdateJobStatus(rjob[q], "failed")
    /\ Advance(q, "free")
    /\ NoFault
    /\ UNCHANGED <<last_key, num_compressed, rstatus, rcjob, ext, rjob, asked, mgr, tasks,
                   listeners, coroutines>>

\* A query of the request reports an error, which is returned to the client.
RequestFails(q) ==
    /\ rpc[q] \in {"status", "end", "lookup", "fail"}
    /\ Fault("db")
    /\ \/ UNCHANGED jstatus
       \/ rpc[q] = "end" /\ UpdateJobStatus(rjob[q], "finished")
       \/ rpc[q] = "fail" /\ UpdateJobStatus(rjob[q], "failed")
    /\ Advance(q, "free")
    /\ UNCHANGED <<last_key, num_compressed, rstatus, rcjob, ext, rjob, asked, mgr, tasks,
                   listeners, coroutines>>

-----------------------------------------------------------------------------
(***************************************************************************)
(* Ingestion tasks                                                         *)
(***************************************************************************)

Last(K) == CHOOSE k \in K : \A l \in K : l <= k
Goto(w, pc) == wpc' = [wpc EXCEPT ![w] = pc]

\* A task that waits for S3 or SQS and whose token is not cancelled.  A response
\* that a cancelled task prefers over its cancellation arrived before that.
Fetching(w) == wpc[w] = "fetch" /\ ~cancel[JobOf[w]]

\* scan_prefix lists the next page after start_after that has a relevant object.
ScanPage(w) ==
    /\ Fetching(w)
    /\ Kind[JobOf[w]] = "scanner"
    /\ \E k \in (cursor[JobOf[w]] + 1)..objects :
          LET page == ((cursor[JobOf[w]] + 1)..k) \cap Relevant
          IN  page # {} /\ wkeys' = [wkeys EXCEPT ![w] = page]
    /\ Goto(w, "ingest")
    /\ NoFault
    /\ UNCHANGED <<db, ext, reqs, mgr, wrows, cursor, cancel, listeners, coroutines>>

\* Messages that a task of the job is processing: SQS does not deliver them
\* again unless their visibility timeout expires.
InFlight(j) == UNION {wkeys[w] : w \in WorkersOf(j)}

DeleteIfAnyIrrelevant(K) == IF K \subseteq Relevant THEN "ingest" ELSE "delete"

\* Messages are ingested before they are deleted; irrelevant ones are only deleted.
AfterReceive(K) == IF K \cap Relevant = {} THEN "delete" ELSE "ingest"

\* receive_message returns some messages.
ReceiveMessages(w) ==
    /\ Fetching(w)
    /\ Kind[JobOf[w]] = "sqs"
    /\ \E K \in SUBSET queue[JobOf[w]] :
          /\ K # {}
          /\ IF K \cap InFlight(JobOf[w]) = {} THEN NoFault ELSE Fault("aws")
          /\ wkeys' = [wkeys EXCEPT ![w] = K]
          /\ Goto(w, AfterReceive(K))
    /\ UNCHANGED <<db, ext, reqs, mgr, wrows, cursor, cancel, listeners, coroutines>>

FetchFails(w) ==
    /\ Fetching(w)
    /\ Fault("aws")
    /\ Goto(w, "fail")
    /\ UNCHANGED <<db, ext, reqs, mgr, wkeys, wrows, cursor, cancel, listeners, coroutines>>

\* The rows that recording keys K for job j inserts.
FreshRows(j, K) ==
    {r \in Rows : /\ r[1] = j /\ r[2] \in K
                  /\ rstatus[r] = "absent"
                  /\ \A n \in 1..(r[3] - 1) : rstatus[<<j, r[2], n>>] # "absent"}

RecordRowsOnly(j, K) ==
    /\ rstatus' = [r \in Rows |-> IF r \in FreshRows(j, K) THEN "buffered" ELSE rstatus[r]]
    /\ last_key' = last_key

\* The transaction of ingest: the rows and a scanner's last ingested key.
RecordObjects(j, K) ==
    /\ rstatus' = [r \in Rows |-> IF r \in FreshRows(j, K) THEN "buffered" ELSE rstatus[r]]
    /\ last_key' = IF Kind[j] = "scanner" THEN [last_key EXCEPT ![j] = Last(K)] ELSE last_key

\* check_job_status_and_commit: commit only while the job is running.
Ingest(w) ==
    LET j == JobOf[w]
        K == wkeys[w] \cap Relevant
    IN  /\ wpc[w] = "ingest"
        /\ \/ /\ jstatus[j] = "running"
              /\ RecordObjects(j, K)
              /\ wrows' = [wrows EXCEPT ![w] = FreshRows(j, K)]
              /\ Goto(w, "send")
           \/ /\ jstatus[j] # "running"
              /\ Goto(w, "fail")
              /\ UNCHANGED <<rstatus, last_key, wrows>>
        /\ NoFault
        /\ UNCHANGED <<jstatus, num_compressed, rcjob, ext, reqs, mgr, wkeys, cursor, cancel,
                       listeners, coroutines>>

\* The transaction reports an error; a lost commit reply may hide a commit.
IngestFails(w) ==
    /\ wpc[w] = "ingest"
    /\ Fault("db")
    /\ \/ /\ jstatus[JobOf[w]] = "running"
          /\ RecordObjects(JobOf[w], wkeys[w] \cap Relevant)
       \/ UNCHANGED <<rstatus, last_key>>
    /\ Goto(w, "fail")
    /\ UNCHANGED <<jstatus, num_compressed, rcjob, ext, reqs, mgr, wkeys, wrows, cursor, cancel,
                   listeners, coroutines>>

\* The committed rows are sent; the send waits while the channel is full.
SendRows(w) ==
    LET j == JobOf[w]
    IN  /\ wpc[w] = "send"
        /\ Cardinality(chan[j]) < ChannelCapacity
        /\ chan' = [chan EXCEPT ![j] = @ \cup {wrows[w]}]
        /\ wrows' = [wrows EXCEPT ![w] = {}]
        /\ IF Kind[j] = "scanner"
           THEN /\ cursor' = [cursor EXCEPT ![j] = Last(wkeys[w])]
                /\ wkeys' = [wkeys EXCEPT ![w] = {}]
                /\ Goto(w, "fetch")
           ELSE Goto(w, "delete") /\ UNCHANGED <<cursor, wkeys>>
        /\ NoFault
        /\ UNCHANGED <<db, ext, reqs, mgr, cancel, lst, buf, timer, coroutines>>

DeleteMessages(w) ==
    /\ wpc[w] = "delete"
    /\ queue' = [queue EXCEPT ![JobOf[w]] = @ \ wkeys[w]]
    /\ wkeys' = [wkeys EXCEPT ![w] = {}]
    /\ Goto(w, "fetch")
    /\ NoFault
    /\ UNCHANGED <<db, objects, cstatus, reqs, mgr, wrows, cursor, cancel, listeners, coroutines>>

\* Some messages are not deleted, which is only logged, or the call fails.
DeleteFails(w) ==
    /\ wpc[w] = "delete"
    /\ Fault("aws")
    /\ \E D \in SUBSET wkeys[w] : queue' = [queue EXCEPT ![JobOf[w]] = @ \ D]
    /\ wkeys' = [wkeys EXCEPT ![w] = {}]
    /\ Goto(w, "fetch") \/ Goto(w, "fail")
    /\ UNCHANGED <<db, objects, cstatus, reqs, mgr, wrows, cursor, cancel, listeners, coroutines>>

\* Where the select! of a cancelled task's run may drop its current work: a
\* scan anywhere, an SQS listener only while it waits for messages.
CancellationPoints(j) == IF Kind[j] = "scanner" THEN {"fetch", "ingest", "send"} ELSE {"fetch"}

EndTask(w) ==
    /\ Goto(w, "none")
    /\ wkeys' = [wkeys EXCEPT ![w] = {}]
    /\ wrows' = [wrows EXCEPT ![w] = {}]
    /\ UNCHANGED <<cursor, cancel>>

CancelTask(w) ==
    /\ cancel[JobOf[w]]
    /\ wpc[w] \in CancellationPoints(JobOf[w])
    /\ EndTask(w)
    /\ NoFault
    /\ UNCHANGED <<db, ext, reqs, mgr, listeners, coroutines>>

\* The task failed: fail() marks the job; an error of fail() is only logged.
FailTask(w) ==
    /\ wpc[w] = "fail"
    /\ \/ UpdateJobStatus(JobOf[w], "failed") /\ NoFault
       \/ Fault("db") /\ UNCHANGED jstatus
    /\ EndTask(w)
    /\ UNCHANGED <<last_key, num_compressed, rstatus, rcjob, ext, reqs, mgr, listeners,
                   coroutines>>

-----------------------------------------------------------------------------
(***************************************************************************)
(* The compression listener and its buffer                                 *)
(***************************************************************************)

\* Buffer::submit hands the buffered rows to a new coroutine and clears the
\* buffer; an empty buffer is not submitted.
Submission(b) == {b} \ {{}}

\* What Buffer::add may submit when the entries `new` follow a buffer `old`.  It
\* submits whenever an entry brings the total size to the threshold; sizes are
\* abstracted, so that may be after any entry.
Flushes(old, new) ==
    {F \in SUBSET SUBSET (old \cup new) :
        /\ \A f \in F : f \cap new # {}
        /\ \A f, g \in F : f # g => f \cap g = {}
        /\ F # {} => \E f \in F : old \subseteq f}

\* Whether the timer is armed once a message left `rest` in the buffer.
Armed(old, rest, F, armed) == rest # {} /\ (armed \/ old = {} \/ F # {})

ReceiveEntries(j) ==
    /\ lst[j] # "none"
    /\ \E m \in chan[j] : \E F \in Flushes(buf[j], m) :
          LET rest == (buf[j] \cup m) \ UNION F
          IN  /\ chan' = [chan EXCEPT ![j] = @ \ {m}]
              /\ subs' = subs \cup F
              /\ buf' = [buf EXCEPT ![j] = rest]
              /\ timer' = [timer EXCEPT ![j] = Armed(buf[j], rest, F, @)]
    /\ NoFault
    /\ UNCHANGED <<db, ext, reqs, mgr, tasks, lst, waiters>>

TimerKeepsBuffer(j) ==
    /\ lst[j] # "none"
    /\ timer[j]
    /\ subs' = subs \cup Submission(buf[j])
    /\ timer' = [timer EXCEPT ![j] = FALSE]
    /\ NoFault
    /\ UNCHANGED <<db, ext, reqs, mgr, tasks, lst, chan, buf, waiters>>

TimerFires(j) ==
    /\ lst[j] # "none"
    /\ timer[j]
    /\ subs' = subs \cup Submission(buf[j])
    /\ buf' = [buf EXCEPT ![j] = {}]
    /\ timer' = [timer EXCEPT ![j] = FALSE]
    /\ NoFault
    /\ UNCHANGED <<db, ext, reqs, mgr, tasks, lst, chan, waiters>>

\* The listener ends: it submits its buffer and drops the receiver.
EndListener(j) ==
    /\ subs' = subs \cup Submission(buf[j])
    /\ lst' = [lst EXCEPT ![j] = "none"]
    /\ chan' = [chan EXCEPT ![j] = {}]
    /\ buf' = [buf EXCEPT ![j] = {}]
    /\ timer' = [timer EXCEPT ![j] = FALSE]
    /\ NoFault
    /\ UNCHANGED <<db, ext, reqs, mgr, tasks, waiters>>

ListenerCancelled(j) == lst[j] = "cancel" /\ EndListener(j)

\* recv returns None: every sender is dropped and the channel is drained.
ListenerClosed(j) ==
    /\ lst[j] = "closing"
    /\ chan[j] = {}
    /\ \A w \in WorkersOf(j) : wpc[w] = "none"
    /\ EndListener(j)

-----------------------------------------------------------------------------
(***************************************************************************)
(* Submitting compression jobs and waiting for them                        *)
(***************************************************************************)

\* The transaction of submit_for_compression: a new compression job with rows R.
InsertCompressionJob(R, c) ==
    /\ cstatus[c] = "absent"
    /\ cstatus' = [cstatus EXCEPT ![c] = "pending"]
    /\ rstatus' = [r \in Rows |-> IF r \in R THEN "submitted" ELSE rstatus[r]]
    /\ rcjob' = [r \in Rows |-> IF r \in R THEN c ELSE rcjob[r]]

\* It is rolled back, and the error logged, if some row is no longer buffered.
SubmitForCompression(R, c) ==
    /\ R \in subs
    /\ subs' = subs \ {R}
    /\ IF \A r \in R : rstatus[r] = "buffered"
       THEN /\ InsertCompressionJob(R, c)
            /\ waiters' = waiters \cup {<<c, Cardinality(R)>>}
       ELSE UNCHANGED <<cstatus, rstatus, rcjob, waiters>>
    /\ NoFault
    /\ UNCHANGED <<jstatus, last_key, num_compressed, objects, queue, reqs, mgr, tasks, listeners>>

\* The transaction reports an error, which is only logged.
SubmitFails(R, c) ==
    /\ R \in subs
    /\ Fault("db")
    /\ subs' = subs \ {R}
    /\ \/ UNCHANGED <<cstatus, rstatus, rcjob>>
       \/ (\A r \in R : rstatus[r] = "buffered") /\ InsertCompressionJob(R, c)
    /\ UNCHANGED <<jstatus, last_key, num_compressed, objects, queue, reqs, mgr, tasks, listeners,
                   waiters>>

\* The transaction of wait_for_compression_and_update_submitted_metadata,
\* rolled back unless it updates as many rows as were submitted.
RecordCompressionResult(c, n) ==
    LET R == {r \in Rows : rcjob[r] = c}
        j == CHOOSE i \in Jobs : \E r \in R : r[1] = i
    IN  IF Cardinality(R) = n
        THEN /\ rstatus' = [r \in Rows |->
                               IF r \notin R THEN rstatus[r]
                               ELSE IF cstatus[c] = "succeeded" THEN "compressed" ELSE "failed"]
             /\ num_compressed' = IF cstatus[c] = "succeeded"
                                  THEN [num_compressed EXCEPT ![j] = @ + n]
                                  ELSE num_compressed
        ELSE UNCHANGED <<rstatus, num_compressed>>

WaitForCompression(c, n) ==
    /\ <<c, n>> \in waiters
    /\ cstatus[c] \in {"succeeded", "failed"}
    /\ RecordCompressionResult(c, n)
    /\ waiters' = waiters \ {<<c, n>>}
    /\ NoFault
    /\ UNCHANGED <<jstatus, last_key, rcjob, ext, reqs, mgr, tasks, listeners, subs>>

\* A poll or the transaction reports an error; the coroutine only logs it.
WaitFails(c, n) ==
    /\ <<c, n>> \in waiters
    /\ Fault("db")
    /\ \/ UNCHANGED <<rstatus, num_compressed>>
       \/ cstatus[c] \in {"succeeded", "failed"} /\ RecordCompressionResult(c, n)
    /\ waiters' = waiters \ {<<c, n>>}
    /\ UNCHANGED <<jstatus, last_key, rcjob, ext, reqs, mgr, tasks, listeners, subs>>

-----------------------------------------------------------------------------
RecoveryStep(j) == RefillBuffer(j) \/ RecoverInstance(j) \/ LoadFails(j)
RegisterStep(j) == CreateInstance(j) \/ RegisterFails(j)
RequestStep(q) ==
    \/ JoinInstance(q) \/ JoinListener(q) \/ CheckBeforeEnd(q) \/ EndJob(q)
    \/ LookUpStatus(q) \/ TryFail(q) \/ RequestFails(q)
TaskStep(w) ==
    \/ ScanPage(w) \/ ReceiveMessages(w) \/ Ingest(w) \/ SendRows(w) \/ DeleteMessages(w)
    \/ CancelTask(w) \/ FailTask(w)
TaskFault(w) == FetchFails(w) \/ IngestFails(w) \/ DeleteFails(w)
ListenerStep(j) ==
    ReceiveEntries(j) \/ TimerFires(j) \/ ListenerCancelled(j) \/ ListenerClosed(j)
SubmitStep == \E R \in subs, c \in CompressionIds : SubmitForCompression(R, c)
WaitStep == \E p \in waiters : WaitForCompression(p[1], p[2])

Next ==
    \/ PutObject
    \/ \E c \in CompressionIds : CompressionEnds(c)
    \/ Crash \/ Boot
    \/ \E j \in Jobs : RegisterJob(j) \/ RegisterStep(j) \/ RecoveryStep(j) \/ ListenerStep(j)
    \/ \E q \in Requests : RequestStep(q) \/ \E j \in Jobs : ShutdownRequest(q, j)
    \/ \E w \in Workers : TaskStep(w) \/ TaskFault(w)
    \/ SubmitStep \/ \E R \in subs, c \in CompressionIds : SubmitFails(R, c)
    \/ WaitStep \/ \E p \in waiters : WaitFails(p[1], p[2])

Spec == Init /\ [][Next]_vars

\* Every coroutine of a running process is polled, a dead process is restarted
\* (docker-compose's restart policy) and the cluster ends every compression job.
Fairness ==
    /\ WF_vars(Boot) /\ WF_vars(SubmitStep) /\ WF_vars(WaitStep)
    /\ \A c \in CompressionIds : WF_vars(CompressionEnds(c))
    /\ \A j \in Jobs : WF_vars(RegisterStep(j)) /\ WF_vars(RecoveryStep(j))
                       /\ WF_vars(ListenerStep(j))
    /\ \A q \in Requests : WF_vars(RequestStep(q))
    /\ \A w \in Workers : WF_vars(TaskStep(w))

FairSpec == Spec /\ Fairness

-----------------------------------------------------------------------------
(***************************************************************************)
(* Properties                                                              *)
(***************************************************************************)

Holdings ==
    {<<"task", w, wrows[w]>> : w \in Workers}
    \cup (UNION {{<<"chan", j, m>> : m \in chan[j]} : j \in Jobs})
    \cup {<<"buf", j, buf[j]>> : j \in Jobs}
    \cup {<<"sub", NoJob, R>> : R \in subs}

\* A row waits for its compression in one place only (a task, a channel, a buffer
\* or a submitting coroutine) and is still `buffered` there.  So the row count
\* check of submit_for_compression never rejects a batch, and no row is sent to
\* two compression jobs, across crashes and refills.
HeldOnce ==
    /\ \A a \in Holdings : \A r \in a[3] : rstatus[r] = "buffered"
    /\ \A a, b \in Holdings : a # b => a[3] \cap b[3] = {}

\* A scanner has recorded exactly the relevant objects up to its persisted
\* last_ingested_key, each once, whatever crashes, cancellations and lost
\* replies happened: rows and key are committed together.
ScannedExactlyOnce ==
    \A j \in Jobs : Kind[j] = "scanner" =>
        RowsOf(j) = {<<j, k, 1>> : k \in (1..last_key[j]) \cap Relevant}

\* No message is deleted from an SQS queue before its relevant object has a row.
DeletedIsIngested ==
    \A j \in Jobs : Kind[j] = "sqs" =>
        \A k \in ((1..objects) \cap Relevant) \ queue[j] : \E r \in RowsOf(j) : r[2] = k

\* An SQS listener records an object again only because of a fault: concurrent
\* tasks and shutdowns alone never ingest a message twice.
DuplicatesNeedFaults ==
    \A j \in Jobs, k \in Keys : Kind[j] = "sqs" =>
        Cardinality({r \in RowsOf(j) : r[2] = k}) <= 1 + faults

\* An SQS message is deleted only after its object has a row, and the object has
\* more rows only if that many faults made SQS deliver the message again.
SqsIngestsOnce == DeletedIsIngested /\ DuplicatesNeedFaults

\* `num_files_compressed` counts each compressed row once, although recovery
\* may wait again for compression jobs an earlier process waited for, and a
\* row's result is its compression job's.
CompressedCount ==
    /\ \A j \in Jobs : num_compressed[j] = Cardinality(RowsWith(j, "compressed"))
    /\ \A r \in Rows : /\ rstatus[r] = "compressed" => cstatus[rcjob[r]] = "succeeded"
                       /\ rstatus[r] = "failed" => cstatus[rcjob[r]] = "failed"

\* A listener with buffered rows has its timer armed, after every combination of
\* received entries, flushes and timeouts.
TimerArmed == \A j \in Jobs : buf[j] # {} => timer[j]

\* A job whose status is `finished` has no instance left that could ingest.
FinishedIsQuiet ==
    \A j \in Jobs : jstatus[j] = "finished" =>
        j \notin table /\ \A w \in WorkersOf(j) : wpc[w] = "none"

\* What a job's instance and listener do agrees with its status and its buffer,
\* whatever request, failure or timeout came between: nothing ingests for a
\* finished job, and rows never stay in a buffer that no timer will submit.
InstancesMatchStatus == FinishedIsQuiet /\ TimerArmed

\* Once requests are served, also after a crash, every running job that nobody
\* asked to shut down has its instance.
RunsContinuously ==
    Serving => \A j \in Jobs : jstatus[j] = "running" /\ j \notin asked => j \in table

\* Every recorded object eventually gets its compression result.
RowsSettle ==
    \A r \in Rows : rstatus[r] = "buffered" ~> rstatus[r] \in {"compressed", "failed"}
=============================================================================
