----------------------- MODULE CompressionCoordinator -----------------------
(***************************************************************************)
(* The Rust compression coordinator (components/compression-coordinator), *)
(* the rows of the `compression_jobs` table it drives, the Spider jobs it *)
(* submits and the commit task those jobs end with                         *)
(* (components/clp-tdl-package/src/task/compression/commit.rs).            *)
(*                                                                         *)
(* One coordinator process runs a poll loop and one detached handle per    *)
(* dispatched job.  The process may die at any point and be restarted; the *)
(* table and Spider survive.  Every await point of the code is a step.     *)
(***************************************************************************)
EXTENDS Naturals, FiniteSets

CONSTANTS
    Jobs,               \* IDs of compression jobs; rows are fetched by ascending ID
    SpiderIds,          \* IDs that Spider may issue (bound: submissions in a behaviour)
    HandleIds,          \* slots for spawned job handles (bound: handles alive at once)
    NoJob, NoSpider,    \* NULL
    MaxConcurrentJobs,  \* `max_concurrent_jobs`: permits of job_handler_sem
    FaultKinds,         \* faults that may occur: "crash", "db", "spider"
    MaxFaults           \* bound on the number of faults in a behaviour

ASSUME JobsAssumption == Jobs \subseteq Nat
ASSUME NullAssumption == NoJob \notin Jobs /\ NoSpider \notin SpiderIds
ASSUME PermitsAssumption == MaxConcurrentJobs \in Nat \ {0}
ASSUME FaultsAssumption == MaxFaults \in Nat

VARIABLES
    \* The `compression_jobs` table.
    status,      \* `status`, or "ABSENT" before the row is inserted
    kind,        \* what the row's `clp_config` decodes to
    spider_id,   \* `spider_id`
    dispatched,  \* `dispatch_time` IS NOT NULL
    \* Spider.
    sjob,        \* the compression job whose task graph a Spider job holds
    sstate,      \* the Spider job's state
    commit,      \* the Spider job's commit task
    inserted,    \* how many times the Spider job's archives were inserted
    \* The coordinator process.
    loop,        \* where the coordinator is, "down" when no process runs
    first,       \* is_first_fetch
    recovering,  \* submitted jobs that `new` has fetched and not yet spawned
    batch,       \* fetched rows that schedule_new_jobs has not yet handled
    toMark,      \* dispatched_job_ids of the current iteration
    \* The spawned S3CompressionJobHandles.
    hpc,         \* the handle's next await point, "free" when the slot is unused
    hjob,        \* its compression_job_id
    hsid,        \* the spider_job_id it got from Spider or from the table
    hperm,       \* whether it owns a permit
    hout,        \* the status it is about to write in to_completion
    faults       \* number of faults so far

table == <<status, kind, spider_id, dispatched>>
spider == <<sjob, sstate, commit, inserted>>
coord == <<loop, first, recovering, batch, toMark>>
handles == <<hpc, hjob, hsid, hperm, hout>>
vars == <<table, spider, coord, handles, faults>>

Statuses == {"PENDING", "RUNNING", "SUCCEEDED", "FAILED", "KILLED"}
Terminal == {"SUCCEEDED", "FAILED", "KILLED"}
Kinds == {"s3_object_metadata", "other_input", "invalid"}
SpiderStates == {"UNREGISTERED", "READY", "RUNNING", "SUCCEEDED", "FAILED", "CANCELLED"}
CommitStates == {"idle", "started", "ok", "err"}
LoopStates == {"down", "recover", "schedule", "dispatch", "sleep"}
HandleStates == {"free", "prepare", "submit", "persist", "start", "poll",
                 "check", "write", "report"}

TypeOK ==
    /\ status \in [Jobs -> Statuses \cup {"ABSENT"}]
    /\ kind \in [Jobs -> Kinds]
    /\ spider_id \in [Jobs -> SpiderIds \cup {NoSpider}]
    /\ dispatched \in [Jobs -> BOOLEAN]
    /\ sjob \in [SpiderIds -> Jobs \cup {NoJob}]
    /\ sstate \in [SpiderIds -> SpiderStates]
    /\ commit \in [SpiderIds -> CommitStates]
    /\ inserted \in [SpiderIds -> Nat]
    /\ loop \in LoopStates
    /\ first \in BOOLEAN
    /\ recovering \subseteq Jobs \X SpiderIds
    /\ batch \subseteq Jobs
    /\ toMark \subseteq Jobs
    /\ hpc \in [HandleIds -> HandleStates]
    /\ hjob \in [HandleIds -> Jobs \cup {NoJob}]
    /\ hsid \in [HandleIds -> SpiderIds \cup {NoSpider}]
    /\ hperm \in [HandleIds -> BOOLEAN]
    /\ hout \in [HandleIds -> {"FAILED", "KILLED"}]
    /\ faults \in Nat

Init ==
    /\ status = [j \in Jobs |-> "ABSENT"]
    /\ kind \in [Jobs -> Kinds]
    /\ spider_id = [j \in Jobs |-> NoSpider]
    /\ dispatched = [j \in Jobs |-> FALSE]
    /\ sjob = [s \in SpiderIds |-> NoJob]
    /\ sstate = [s \in SpiderIds |-> "UNREGISTERED"]
    /\ commit = [s \in SpiderIds |-> "idle"]
    /\ inserted = [s \in SpiderIds |-> 0]
    /\ loop = "down"
    /\ first = TRUE
    /\ recovering = {}
    /\ batch = {}
    /\ toMark = {}
    /\ hpc = [h \in HandleIds |-> "free"]
    /\ hjob = [h \in HandleIds |-> NoJob]
    /\ hsid = [h \in HandleIds |-> NoSpider]
    /\ hperm = [h \in HandleIds |-> FALSE]
    /\ hout = [h \in HandleIds |-> "FAILED"]
    /\ faults = 0

\* A fault of kind k happens in this step.
Fault(k) ==
    /\ k \in FaultKinds
    /\ faults < MaxFaults
    /\ faults' = faults + 1

NoFault == faults' = faults

-----------------------------------------------------------------------------
(***************************************************************************)
(* Clients and the legacy Celery-based scheduler                           *)
(***************************************************************************)

\* A client inserts a row; `status` defaults to PENDING, the rest to NULL.
InsertJob(j) ==
    /\ status[j] = "ABSENT"
    /\ status' = [status EXCEPT ![j] = "PENDING"]
    /\ NoFault
    /\ UNCHANGED <<kind, spider_id, dispatched, spider, coord, handles>>

\* The legacy scheduler takes the pending jobs the coordinator does not support.
LegacyScheduleJob(j) ==
    /\ status[j] = "PENDING"
    /\ kind[j] = "other_input"
    /\ status' = [status EXCEPT ![j] = "RUNNING"]
    /\ NoFault
    /\ UNCHANGED <<kind, spider_id, dispatched, spider, coord, handles>>

LegacyFinishJob(j) ==
    /\ status[j] = "RUNNING"
    /\ kind[j] = "other_input"
    /\ \E st \in {"SUCCEEDED", "FAILED"} : status' = [status EXCEPT ![j] = st]
    /\ NoFault
    /\ UNCHANGED <<kind, spider_id, dispatched, spider, coord, handles>>

\* kill_hanging_jobs: on start the legacy scheduler kills the running jobs that
\* have no Spider job.
LegacyKillHangingJobs ==
    /\ \E j \in Jobs : status[j] = "RUNNING" /\ spider_id[j] = NoSpider
    /\ status' = [j \in Jobs |->
                    IF status[j] = "RUNNING" /\ spider_id[j] = NoSpider
                    THEN "KILLED" ELSE status[j]]
    /\ NoFault
    /\ UNCHANGED <<kind, spider_id, dispatched, spider, coord, handles>>

-----------------------------------------------------------------------------
(***************************************************************************)
(* The coordinator's poll loop                                             *)
(***************************************************************************)

\* fetch_submitted_running_jobs
SubmittedRunningJobs ==
    {r \in Jobs \X SpiderIds : status[r[1]] = "RUNNING" /\ spider_id[r[1]] = r[2]}

\* Coordinator::new up to the fetch of the submitted jobs.
Boot ==
    /\ loop = "down"
    /\ loop' = "recover"
    /\ first' = TRUE
    /\ recovering' = SubmittedRunningJobs
    /\ NoFault
    /\ UNCHANGED <<batch, toMark, table, spider, handles>>

\* tokio::spawn of a handle for job j in slot h.
SpawnHandle(h, j, s, pc, owned) ==
    /\ hpc[h] = "free"
    /\ hpc' = [hpc EXCEPT ![h] = pc]
    /\ hjob' = [hjob EXCEPT ![h] = j]
    /\ hsid' = [hsid EXCEPT ![h] = s]
    /\ hperm' = [hperm EXCEPT ![h] = owned]
    /\ hout' = hout

\* Coordinator::new spawns `recover` for a fetched job, without a permit.
RecoverJob(h, r) ==
    /\ loop = "recover"
    /\ r \in recovering
    /\ recovering' = recovering \ {r}
    /\ SpawnHandle(h, r[1], r[2], "start", FALSE)
    /\ NoFault
    /\ UNCHANGED <<loop, first, batch, toMark, table, spider>>

RecoveryDone ==
    /\ loop = "recover"
    /\ recovering = {}
    /\ loop' = "schedule"
    /\ NoFault
    /\ UNCHANGED <<first, recovering, batch, toMark, table, spider, handles>>

\* job_handler_sem.available_permits()
AvailablePermits ==
    MaxConcurrentJobs - Cardinality({h \in HandleIds : hpc[h] # "free" /\ hperm[h]})

\* Mutant: a first fetch with the condition of the later ones.
RecoverySetOfNewJobs == {j \in Jobs : status[j] = "PENDING" /\ ~dispatched[j]}

RecoverySet == {j \in Jobs : status[j] = "PENDING" /\ dispatched[j]}

\* Mutant: without `dispatch_time IS NULL`.
AllPendingJobs == {j \in Jobs : status[j] = "PENDING"}

NewJobs == {j \in Jobs : status[j] = "PENDING" /\ ~dispatched[j]}

\* rows is the result of `... ORDER BY id ASC LIMIT n` over the set from.
IsLimited(rows, from, n) ==
    /\ rows \subseteq from
    /\ \A j \in rows, k \in from \ rows : j < k
    /\ Cardinality(rows) <= n
    /\ rows # from => Cardinality(rows) = n

\* fetch_new_job_rows
IsFetchResult(rows) ==
    IF first THEN rows = RecoverySet
             ELSE IsLimited(rows, NewJobs, AvailablePermits)

\* schedule_new_jobs up to the end of the fetch.
FetchNewJobRows ==
    /\ loop = "schedule"
    /\ IF AvailablePermits = 0
       THEN /\ loop' = "sleep"
            /\ UNCHANGED <<first, batch, toMark>>
       ELSE /\ loop' = "dispatch"
            /\ \E rows \in SUBSET Jobs :
                 /\ IsFetchResult(rows)
                 /\ batch' = rows
                 /\ toMark' = rows
            /\ first' = FALSE
    /\ NoFault
    /\ UNCHANGED <<recovering, table, spider, handles>>

IsNextInBatch(j) ==
    /\ loop = "dispatch"
    /\ j \in batch
    /\ \A k \in batch : j <= k

\* A row whose config cannot be decoded or whose dataset name is invalid:
\* mark_job_failed, best effort.
DispatchInvalidJob(j) ==
    /\ IsNextInBatch(j)
    /\ kind[j] = "invalid"
    /\ batch' = batch \ {j}
    /\ \/ status' = [status EXCEPT ![j] = "FAILED"] /\ NoFault
       \/ status' = status /\ Fault("db")
    /\ UNCHANGED <<kind, spider_id, dispatched, loop, first, recovering, toMark,
                   spider, handles>>

\* An unsupported input config: left to the legacy scheduler.
DispatchUnsupportedJob(j) ==
    /\ IsNextInBatch(j)
    /\ kind[j] = "other_input"
    /\ batch' = batch \ {j}
    /\ NoFault
    /\ UNCHANGED <<loop, first, recovering, toMark, table, spider, handles>>

\* acquire_owned, then spawn `run`.
DispatchJob(h, j) ==
    /\ IsNextInBatch(j)
    /\ kind[j] = "s3_object_metadata"
    /\ AvailablePermits > 0
    /\ batch' = batch \ {j}
    /\ SpawnHandle(h, j, NoSpider, "prepare", TRUE)
    /\ NoFault
    /\ UNCHANGED <<loop, first, recovering, toMark, table, spider>>

DispatchDone ==
    /\ loop = "dispatch"
    /\ batch = {}
    /\ loop' = "sleep"
    /\ NoFault
    /\ UNCHANGED <<first, recovering, batch, toMark, table, spider, handles>>

\* The poll interval elapses; mark_jobs_dispatched.
MarkJobsDispatched ==
    /\ loop = "sleep"
    /\ dispatched' = [j \in Jobs |-> dispatched[j] \/ j \in toMark]
    /\ toMark' = {}
    /\ loop' = "schedule"
    /\ NoFault
    /\ UNCHANGED <<status, kind, spider_id, first, recovering, batch, spider, handles>>

\* The process ends: killed, SIGTERM, or `run`/`new` returned an error (a failed
\* fetch or a failed mark_jobs_dispatched).  The detached handles end with it.
Crash ==
    /\ loop # "down"
    /\ Fault("crash")
    /\ loop' = "down"
    /\ first' = TRUE
    /\ recovering' = {}
    /\ batch' = {}
    /\ toMark' = {}
    /\ hpc' = [h \in HandleIds |-> "free"]
    /\ hjob' = [h \in HandleIds |-> NoJob]
    /\ hsid' = [h \in HandleIds |-> NoSpider]
    /\ hperm' = [h \in HandleIds |-> FALSE]
    /\ hout' = [h \in HandleIds |-> "FAILED"]
    /\ UNCHANGED <<table, spider>>

-----------------------------------------------------------------------------
(***************************************************************************)
(* S3CompressionJobHandle: run, recover, submit_and_wait, to_completion    *)
(***************************************************************************)

Goto(h, pc) ==
    /\ hpc' = [hpc EXCEPT ![h] = pc]
    /\ UNCHANGED <<hjob, hsid, hperm, hout>>

\* The spawned future returns and drops its permit.
EndHandle(h) ==
    /\ hpc' = [hpc EXCEPT ![h] = "free"]
    /\ hjob' = [hjob EXCEPT ![h] = NoJob]
    /\ hsid' = [hsid EXCEPT ![h] = NoSpider]
    /\ hperm' = [hperm EXCEPT ![h] = FALSE]
    /\ hout' = [hout EXCEPT ![h] = "FAILED"]

\* prepare_task_inputs and upsert_metadata_tables: they fail on bad object
\* metadata or on a database error.
PrepareTaskInputs(h) ==
    /\ hpc[h] = "prepare"
    /\ \/ Goto(h, "submit")
       \/ Goto(h, "report")
    /\ NoFault
    /\ UNCHANGED <<table, spider, coord>>

\* Spider registers the task graph of job j under the fresh ID s.
Register(s, j) ==
    /\ sstate[s] = "UNREGISTERED"
    /\ sstate' = [sstate EXCEPT ![s] = "READY"]
    /\ sjob' = [sjob EXCEPT ![s] = j]
    /\ UNCHANGED <<commit, inserted>>

\* Mutant: starts the Spider job before its ID is persisted.
SubmitAndStart(h, s) ==
    /\ hpc[h] = "submit"
    /\ Register(s, hjob[h])
    /\ hsid' = [hsid EXCEPT ![h] = s]
    /\ hpc' = [hpc EXCEPT ![h] = "start"]
    /\ NoFault
    /\ UNCHANGED <<table, coord, hjob, hperm, hout>>

\* submit_s3_compression_job: registers the job without starting it.
SubmitToSpider(h, s) ==
    /\ hpc[h] = "submit"
    /\ Register(s, hjob[h])
    /\ hsid' = [hsid EXCEPT ![h] = s]
    /\ hpc' = [hpc EXCEPT ![h] = "persist"]
    /\ NoFault
    /\ UNCHANGED <<table, coord, hjob, hperm, hout>>

\* The call fails; the job may have been registered all the same.
SubmitFails(h) ==
    /\ hpc[h] = "submit"
    /\ Fault("spider")
    /\ \/ \E s \in SpiderIds : Register(s, hjob[h])
       \/ UNCHANGED spider
    /\ Goto(h, "report")
    /\ UNCHANGED <<table, coord>>

\* persist_spider_job_id's UPDATE.
WriteSpiderId(j, s) ==
    /\ spider_id' = [spider_id EXCEPT ![j] = s]
    /\ status' = [status EXCEPT ![j] = "RUNNING"]
    /\ dispatched' = [dispatched EXCEPT ![j] = TRUE]
    /\ kind' = kind

\* persist_spider_job_id
PersistSpiderJobId(h) ==
    /\ hpc[h] = "persist"
    /\ WriteSpiderId(hjob[h], hsid[h])
    /\ Goto(h, "start")
    /\ NoFault
    /\ UNCHANGED <<spider, coord>>

\* The UPDATE fails, or is applied and its acknowledgement is lost.
PersistFails(h) ==
    /\ hpc[h] = "persist"
    /\ Fault("db")
    /\ \/ WriteSpiderId(hjob[h], hsid[h])
       \/ UNCHANGED table
    /\ Goto(h, "report")
    /\ UNCHANGED <<spider, coord>>

\* Spider's start_job; a job that is not READY answers InvalidJobState.
StartSpiderJob(s) ==
    /\ sstate' = [sstate EXCEPT ![s] = IF @ = "READY" THEN "RUNNING" ELSE @]
    /\ UNCHANGED <<sjob, commit, inserted>>

\* run_s3_compression_job_to_completion: start_job, InvalidJobState accepted.
StartJob(h) ==
    /\ hpc[h] = "start"
    /\ StartSpiderJob(hsid[h])
    /\ Goto(h, "poll")
    /\ NoFault
    /\ UNCHANGED <<table, coord>>

StartFails(h) ==
    /\ hpc[h] = "start"
    /\ Fault("spider")
    /\ \/ StartSpiderJob(hsid[h])
       \/ UNCHANGED spider
    /\ Goto(h, "report")
    /\ UNCHANGED <<table, coord>>

\* get_job_state returns a terminal state; to_completion matches on it.
PollTerminalState(h) ==
    /\ hpc[h] = "poll"
    /\ \/ /\ sstate[hsid[h]] = "SUCCEEDED"
          /\ EndHandle(h)
       \/ \E out \in {<<"FAILED", "FAILED">>, <<"CANCELLED", "KILLED">>} :
            /\ sstate[hsid[h]] = out[1]
            /\ hpc' = [hpc EXCEPT ![h] = "check"]
            /\ hout' = [hout EXCEPT ![h] = out[2]]
            /\ UNCHANGED <<hjob, hsid, hperm>>
    /\ NoFault
    /\ UNCHANGED <<table, spider, coord>>

PollFails(h) ==
    /\ hpc[h] = "poll"
    /\ Fault("spider")
    /\ Goto(h, "report")
    /\ UNCHANGED <<table, spider, coord>>

\* get_job_status: a job that the commit task has marked SUCCEEDED is left alone.
CheckJobStatus(h) ==
    /\ hpc[h] = "check"
    /\ IF status[hjob[h]] = "SUCCEEDED" THEN EndHandle(h) ELSE Goto(h, "write")
    /\ NoFault
    /\ UNCHANGED <<table, spider, coord>>

CheckFails(h) ==
    /\ hpc[h] = "check"
    /\ Fault("db")
    /\ Goto(h, "report")
    /\ UNCHANGED <<table, spider, coord>>

\* update_job_status: UPDATE ... WHERE id, whatever the status is by now.
UpdateJobStatus(j, st) ==
    /\ status' = [status EXCEPT ![j] = st]
    /\ UNCHANGED <<kind, spider_id, dispatched>>

WriteOutcome(h) ==
    /\ hpc[h] = "write"
    /\ UpdateJobStatus(hjob[h], hout[h])
    /\ EndHandle(h)
    /\ NoFault
    /\ UNCHANGED <<spider, coord>>

WriteFails(h) ==
    /\ hpc[h] = "write"
    /\ Fault("db")
    /\ \/ UpdateJobStatus(hjob[h], hout[h])
       \/ UNCHANGED table
    /\ Goto(h, "report")
    /\ UNCHANGED <<spider, coord>>

\* report_failure: a failing UPDATE is logged and ignored.
ReportFailure(h) ==
    /\ hpc[h] = "report"
    /\ \/ UpdateJobStatus(hjob[h], "FAILED") /\ NoFault
       \/ UNCHANGED table /\ Fault("db")
    /\ EndHandle(h)
    /\ UNCHANGED <<spider, coord>>

-----------------------------------------------------------------------------
(***************************************************************************)
(* Spider (external) and the commit task it runs                           *)
(***************************************************************************)

\* All compression tasks are done: Spider runs the commit task, and runs it again
\* when it failed or when its report was lost.
SpiderRunsCommit(s) ==
    /\ sstate[s] = "RUNNING"
    /\ commit[s] \in {"idle", "ok", "err"}
    /\ commit' = [commit EXCEPT ![s] = "started"]
    /\ NoFault
    /\ UNCHANGED <<sjob, sstate, inserted, table, coord, handles>>

\* Mutant: no check of the job's status under the row lock.
CommitAnyStatus(s, j) ==
    /\ spider_id[j] = s
    /\ inserted' = [inserted EXCEPT ![s] = @ + 1]
    /\ status' = [status EXCEPT ![j] = "SUCCEEDED"]
    /\ UNCHANGED <<kind, spider_id, dispatched>>

\* Mutant: marks the job in a transaction of its own, before the archives.
CommitStatusFirst(s, j) ==
    /\ spider_id[j] = s
    /\ status[j] = "RUNNING"
    /\ inserted' = inserted
    /\ status' = [status EXCEPT ![j] = "SUCCEEDED"]
    /\ UNCHANGED <<kind, spider_id, dispatched>>

\* commit: one transaction that looks the job up by Spider ID, inserts the
\* archives and moves the job from RUNNING to SUCCEEDED.
CommitTransaction(s, j) ==
    /\ spider_id[j] = s
    /\ status[j] = "RUNNING"
    /\ inserted' = [inserted EXCEPT ![s] = @ + 1]
    /\ status' = [status EXCEPT ![j] = "SUCCEEDED"]
    /\ UNCHANGED <<kind, spider_id, dispatched>>

CommitPublishes(s) ==
    /\ commit[s] = "started"
    /\ \E j \in Jobs : CommitTransaction(s, j)
    /\ commit' = [commit EXCEPT ![s] = "ok"]
    /\ NoFault
    /\ UNCHANGED <<sjob, sstate, coord, handles>>

\* The job is already SUCCEEDED: nothing to do.
CommitAlreadyDone(s) ==
    /\ commit[s] = "started"
    /\ \E j \in Jobs : spider_id[j] = s /\ status[j] = "SUCCEEDED"
    /\ commit' = [commit EXCEPT ![s] = "ok"]
    /\ NoFault
    /\ UNCHANGED <<sjob, sstate, inserted, table, coord, handles>>

\* No row has the Spider ID, or its job is no longer running: refuse.
CommitRefuses(s) ==
    /\ commit[s] = "started"
    /\ ~ \E j \in Jobs : spider_id[j] = s /\ status[j] \in {"RUNNING", "SUCCEEDED"}
    /\ commit' = [commit EXCEPT ![s] = "err"]
    /\ NoFault
    /\ UNCHANGED <<sjob, sstate, inserted, table, coord, handles>>

\* A database error: rolled back, or committed with the acknowledgement lost.
CommitFails(s) ==
    /\ commit[s] = "started"
    /\ Fault("db")
    /\ \/ \E j \in Jobs : CommitTransaction(s, j)
       \/ UNCHANGED <<inserted, table>>
    /\ commit' = [commit EXCEPT ![s] = "err"]
    /\ UNCHANGED <<sjob, sstate, coord, handles>>

\* Spider learns that the commit task succeeded.
SpiderJobSucceeds(s) ==
    /\ sstate[s] = "RUNNING"
    /\ commit[s] = "ok"
    /\ sstate' = [sstate EXCEPT ![s] = "SUCCEEDED"]
    /\ NoFault
    /\ UNCHANGED <<sjob, commit, inserted, table, coord, handles>>

\* A task exhausts its retries or its timeout, or the job is cancelled.  A commit
\* task that was started may still be running.
SpiderJobEnds(s) ==
    /\ sstate[s] = "RUNNING"
    /\ \E st \in {"FAILED", "CANCELLED"} : sstate' = [sstate EXCEPT ![s] = st]
    /\ NoFault
    /\ UNCHANGED <<sjob, commit, inserted, table, coord, handles>>

-----------------------------------------------------------------------------
Client(j) ==
    InsertJob(j) \/ LegacyScheduleJob(j) \/ LegacyFinishJob(j)

LoopStep ==
    \/ Boot \/ RecoveryDone \/ FetchNewJobRows \/ DispatchDone \/ MarkJobsDispatched
    \/ \E j \in Jobs : DispatchInvalidJob(j) \/ DispatchUnsupportedJob(j)
    \/ \E h \in HandleIds : \/ \E r \in Jobs \X SpiderIds : RecoverJob(h, r)
                            \/ \E j \in Jobs : DispatchJob(h, j)

HandleStep(h) ==
    \/ PrepareTaskInputs(h) \/ PersistSpiderJobId(h) \/ StartJob(h)
    \/ PollTerminalState(h) \/ CheckJobStatus(h) \/ WriteOutcome(h) \/ ReportFailure(h)
    \/ \E s \in SpiderIds : SubmitToSpider(h, s)

HandleFault(h) ==
    \/ SubmitFails(h) \/ PersistFails(h) \/ StartFails(h) \/ PollFails(h)
    \/ CheckFails(h) \/ WriteFails(h)

SpiderStep(s) ==
    \/ SpiderRunsCommit(s) \/ CommitPublishes(s) \/ CommitAlreadyDone(s)
    \/ CommitRefuses(s) \/ CommitFails(s) \/ SpiderJobSucceeds(s) \/ SpiderJobEnds(s)

Next ==
    \/ \E j \in Jobs : Client(j)
    \/ LegacyKillHangingJobs
    \/ LoopStep
    \/ Crash
    \/ \E h \in HandleIds : HandleStep(h) \/ HandleFault(h)
    \/ \E s \in SpiderIds : SpiderStep(s)

Spec == Init /\ [][Next]_vars

-----------------------------------------------------------------------------
(***************************************************************************)
(* Properties                                                              *)
(***************************************************************************)

Live(h) == hpc[h] # "free"

\* At most one handle drives a job, across polls, restarts and the recovery of
\* submitted jobs: the fetch conditions on status and dispatch_time, and marking
\* rows only after the sleep, never hand a job to two handles.
SingleDriver ==
    \A g, h \in HandleIds : Live(g) /\ Live(h) /\ hjob[g] = hjob[h] => g = h

\* However often a job is submitted, retried or recovered, its archives are
\* inserted in the archives table at most once.
PublishedAtMostOnce ==
    /\ \A s \in SpiderIds : inserted[s] <= 1
    /\ \A s, t \in SpiderIds :
         inserted[s] > 0 /\ inserted[t] > 0 /\ sjob[s] = sjob[t] => s = t

\* A coordinator job that is SUCCEEDED has its archives published, by the Spider
\* job that its row names.
SucceededIsPublished ==
    \A j \in Jobs :
        status[j] = "SUCCEEDED" /\ kind[j] = "s3_object_metadata" =>
            /\ spider_id[j] # NoSpider
            /\ sjob[spider_id[j]] = j
            /\ inserted[spider_id[j]] = 1

\* The table of legal states in coordination.rs: a coordinator job that has not
\* terminated is PENDING without a Spider ID, or RUNNING with a Spider ID and a
\* dispatch time.
LegalStates ==
    \A j \in Jobs : kind[j] = "s3_object_metadata" =>
        /\ status[j] = "PENDING" => spider_id[j] = NoSpider
        /\ status[j] = "RUNNING" => spider_id[j] # NoSpider /\ dispatched[j]

\* Spider never runs a job that the table does not know: a Spider job left over
\* from a lost answer or a crash before persist_spider_job_id stays unstarted.
StartedIsPersisted ==
    \A s \in SpiderIds :
        sstate[s] \notin {"UNREGISTERED", "READY"} =>
            sjob[s] # NoJob /\ spider_id[sjob[s]] = s

FinalStep ==
    \A j \in Jobs :
        /\ status[j] = "FAILED" => status'[j] = "FAILED"
        /\ status[j] \in Terminal => status'[j] \in Terminal
        /\ spider_id[j] # NoSpider => spider_id'[j] = spider_id[j]

\* FAILED is final, no terminal job becomes active again, and a row never changes
\* its Spider ID: no retry, late commit or legacy scheduler revives a job.
FailedIsFinal == [][FinalStep]_vars

\* A coordinator job is KILLED only when its Spider job was cancelled: the legacy
\* scheduler's kill_hanging_jobs leaves the jobs of the coordinator alone.
KilledWasCancelled ==
    \A j \in Jobs :
        status[j] = "KILLED" /\ kind[j] = "s3_object_metadata" =>
            /\ spider_id[j] # NoSpider
            /\ sstate[spider_id[j]] = "CANCELLED"

\* The rows of coordinator jobs follow Spider at every point where a process may
\* die: SUCCEEDED means published, KILLED means cancelled, and no Spider job is
\* started that no row names.
RowsFollowSpider ==
    SucceededIsPublished /\ LegalStates /\ StartedIsPersisted /\ KilledWasCancelled

\* A job whose archives are in the table is SUCCEEDED: "the compression outcome
\* has already committed to CLP DB, and thus the job should be considered
\* `Succeeded`" (job_handle.rs, to_completion).
PublishedIsSucceeded ==
    \A s \in SpiderIds : inserted[s] > 0 => status[sjob[s]] = "SUCCEEDED"

\* The poll loop and the spawned handles are scheduled by tokio, a process that
\* failed is restarted (the deployment's on-failure restart policy), and Spider
\* ends every job it runs (its tasks have timeouts and bounded retries).
Fairness ==
    /\ WF_vars(LoopStep)
    /\ \A h \in HandleIds : WF_vars(HandleStep(h))
    /\ \A s \in SpiderIds : WF_vars(SpiderJobSucceeds(s) \/ SpiderJobEnds(s))

FairSpec == Spec /\ Fairness

\* Every job of the coordinator that is inserted terminates, whenever the process
\* dies between the submission, the persisted Spider ID, the start and the polls,
\* and whenever a call to Spider fails.
JobTerminates ==
    \A j \in Jobs :
        status[j] = "PENDING" /\ kind[j] = "s3_object_metadata"
            ~> status[j] \in Terminal

=============================================================================
