------------------------ MODULE CompressionScheduler ------------------------
(***************************************************************************)
(* The Python compression scheduler, the Celery compression worker and the *)
(* rows of the metadata database they share (clp-json, archives on S3).    *)
(*                                                                         *)
(* The scheduler is one thread: each of its steps ends at a commit or at a *)
(* message it publishes, because those are the points another process sees *)
(* and the points a crash can fall between.  A worker runs one task; tasks *)
(* run concurrently with one another and with the scheduler, and outlive   *)
(* it.  Celery acknowledges a message before it runs the task, so a task   *)
(* runs at most once.                                                      *)
(***************************************************************************)
EXTENDS Naturals, Sequences, FiniteSets, Functions

CONSTANTS
  Jobs,                     \* compression jobs that clients submit
  NoJob,                    \* a value outside Jobs
  Kind,                     \* the input type of each job
  Dataset,                  \* the dataset of each job
  CoordinatorConfigured,    \* clp_config.compression_coordinator is not None
  MaxConcurrentTasksPerJob, \* the option of that name; 0 disables the limit
  MaxParts,                 \* bound: partitions the input of each job splits into
  MaxArchives,              \* bound: archives one task outputs
  MaxFaults                 \* bound: crashes, exceptions and lost workers

Kinds == {"fs", "s3", "meta", "bad"}

ASSUME SchedulerConstants ==
  /\ NoJob \notin Jobs
  /\ Kind \in [Jobs -> Kinds]
  /\ DOMAIN Dataset = Jobs
  /\ CoordinatorConfigured \in BOOLEAN
  /\ MaxParts \in [Jobs -> Nat]
  /\ {MaxConcurrentTasksPerJob, MaxArchives, MaxFaults} \subseteq Nat

VARIABLES
  job,        \* rows of compression_jobs ("NONE": not submitted yet)
  task,       \* rows of compression_tasks, by AUTO_INCREMENT id
  worker,     \* the Celery message, worker and result of each task
  datasets,   \* rows of the datasets table
  tables,     \* datasets whose metadata tables have all been created
  pc,         \* where the scheduler is
  sigterm,    \* received_sigterm
  fetched,    \* jobs of this sweep that are not scheduled yet
  cur,        \* the batch being inserted and submitted
  scheduled,  \* scheduled_jobs
  toPoll,     \* jobs this sweep has still to poll
  faults      \* faults so far

db == <<job, task, datasets, tables>>
memory == <<sigterm, fetched, cur, scheduled, toPoll>>
vars == <<job, task, worker, datasets, tables, pc, memory, faults>>

Final == {"SUCCEEDED", "FAILED", "KILLED"}
TaskStatus == {"PENDING", "RUNNING", "SUCCEEDED", "FAILED", "KILLED"}
Ids == DOMAIN task
TasksOf(j) == {t \in Ids : task[t].job = j}

\* What GroupResult.ready and GroupResult.get see of a task: it has a result, or
\* it raised.  A task whose worker host died has neither, for ever.
Results == {"SUCCEEDED", "FAILED", "exception"}
Working == {"running", "commit"}
Recorded == {"okRecorded", "failRecorded"}
WorkerPhases == {"unsent", "queued", "lost"} \cup Working \cup Recorded \cup Results

Unsent == [ph |-> "unsent", made |-> 0, uploaded |-> 0, listed |-> 0, s3err |-> FALSE]
Idle == [job |-> NoJob, todo |-> <<>>, ids |-> <<>>, rest |-> <<>>, first |-> TRUE]
NoEntries == [j \in {} |-> [rest |-> <<>>, batch |-> <<>>]]

Running == pc \notin {"down", "exited"}
CoordinatorOwns(j) == Kind[j] = "meta" /\ CoordinatorConfigured
SetStatus(j, s) == job' = [job EXCEPT ![j].status = s]

Init ==
  /\ job = [j \in Jobs |-> [status |-> "NONE", numTasks |-> 0, completed |-> 0,
                            spider |-> FALSE]]
  /\ task = <<>>
  /\ worker = <<>>
  /\ datasets = {}
  /\ tables = {}
  /\ pc = "down"
  /\ sigterm = FALSE
  /\ fetched = {}
  /\ cur = Idle
  /\ scheduled = NoEntries
  /\ toPoll = {}
  /\ faults = 0

-----------------------------------------------------------------------------
(* Clients, and the compression-coordinator as the jobs table shows it. *)

\* A client inserts a row; its status defaults to PENDING.
SubmitJob(j) ==
  /\ job[j].status = "NONE"
  /\ SetStatus(j, "PENDING")
  /\ UNCHANGED <<task, worker, datasets, tables, pc, memory, faults>>

\* persist_spider_job_id: one UPDATE sets spider_id, the status and num_tasks.
CoordinatorClaims(j) ==
  /\ CoordinatorOwns(j)
  /\ job[j].status = "PENDING"
  /\ job' = [job EXCEPT ![j].status = "RUNNING", ![j].spider = TRUE]
  /\ UNCHANGED <<task, worker, datasets, tables, pc, memory, faults>>

\* The coordinator ends a job: FAILED before it could claim it, else any outcome.
CoordinatorFinishes(j) ==
  /\ CoordinatorOwns(j)
  /\ \/ job[j].status = "PENDING" /\ SetStatus(j, "FAILED")
     \/ job[j].status = "RUNNING" /\ \E s \in Final : SetStatus(j, s)
  /\ UNCHANGED <<task, worker, datasets, tables, pc, memory, faults>>

-----------------------------------------------------------------------------
(* Process start, signals and crashes. *)

\* Mutant: the predicate on spider_id is dropped.
HangingAnyOwner == {j \in Jobs : job[j].status = "RUNNING"}

\* kill_hanging_jobs: the RUNNING jobs that no coordinator drives.
HangingJobs == {j \in Jobs : job[j].status = "RUNNING" /\ ~job[j].spider}

\* Mutant: the jobs are killed and their tasks are not.
KillJobsOnly ==
  /\ job' = [j \in Jobs |-> IF j \in HangingJobs
                            THEN [job[j] EXCEPT !.status = "KILLED"]
                            ELSE job[j]]
  /\ UNCHANGED task

\* kill_hanging_jobs, one transaction: the RUNNING tasks of the hanging jobs,
\* then the jobs themselves.
KillHanging ==
  /\ task' = [t \in Ids |-> IF task[t].job \in HangingJobs /\ task[t].status = "RUNNING"
                            THEN [task[t] EXCEPT !.status = "KILLED"]
                            ELSE task[t]]
  /\ job' = [j \in Jobs |-> IF j \in HangingJobs
                            THEN [job[j] EXCEPT !.status = "KILLED"]
                            ELSE job[j]]

\* main up to its loop.
Boot ==
  /\ ~Running
  /\ KillHanging
  /\ pc' = "search"
  /\ sigterm' = FALSE
  /\ UNCHANGED <<worker, datasets, tables, fetched, cur, scheduled, toPoll, faults>>

\* The signal only sets a flag; the loop looks at it between sweeps.
Sigterm ==
  /\ Running
  /\ ~sigterm
  /\ sigterm' = TRUE
  /\ UNCHANGED <<db, worker, pc, fetched, cur, scheduled, toPoll, faults>>

\* What ends the process loses its memory: scheduled_jobs is not persisted.
Ends(how) ==
  /\ pc' = how
  /\ sigterm' = FALSE
  /\ fetched' = {}
  /\ cur' = Idle
  /\ scheduled' = NoEntries
  /\ toPoll' = {}

\* main returns -1: the process is killed, or any step raised (a database or
\* broker error, or a failure log that could not be written: _schedule_job
\* lines 432-434 and _handle_failed_compression_job lines 870-872 raise before
\* they write the job's status).
Crash ==
  /\ Running
  /\ faults < MaxFaults
  /\ faults' = faults + 1
  /\ Ends("down")
  /\ UNCHANGED <<db, worker>>

-----------------------------------------------------------------------------
(* search_and_schedule_new_tasks *)

\* fetch_new_jobs
NewJobs == {j \in Jobs : job[j].status = "PENDING"}

\* The head of the loop: after SIGTERM no new job is fetched.
Search ==
  /\ pc = "search"
  /\ pc' = "schedule"
  /\ fetched' = IF sigterm THEN {} ELSE NewJobs
  /\ UNCHANGED <<db, worker, sigterm, cur, scheduled, toPoll, faults>>

\* A job the scheduler cannot start is marked FAILED: undecodable config or
\* unsupported input type, invalid paths, S3 or object-metadata failure.
RejectJob(j) ==
  /\ pc = "schedule"
  /\ j \in fetched
  /\ ~CoordinatorOwns(j)
  /\ SetStatus(j, "FAILED")
  /\ fetched' = fetched \ {j}
  /\ UNCHANGED <<task, worker, datasets, tables, pc, sigterm, cur, scheduled, toPoll, faults>>

\* A log-ingestor job is left PENDING for the coordinator.
SkipJob(j) ==
  /\ pc = "schedule"
  /\ j \in fetched
  /\ CoordinatorOwns(j)
  /\ fetched' = fetched \ {j}
  /\ UNCHANGED <<db, worker, pc, sigterm, cur, scheduled, toPoll, faults>>

\* _schedule_job goes on to process the input of these jobs.
Startable(j) == Kind[j] # "bad" /\ ~CoordinatorOwns(j)

\* How many partitions an input may split into: S3 and object-metadata inputs
\* raise when they are empty, a list of paths may hold no file at all.
PartCounts(j) == IF Kind[j] = "fs" THEN 0..MaxParts[j] ELSE 1..MaxParts[j]

\* Mutant: the first task of the remainder is skipped.
BatchSkipsOne(tasks) ==
  IF MaxConcurrentTasksPerJob > 0 /\ Len(tasks) > MaxConcurrentTasksPerJob
  THEN <<SubSeq(tasks, 1, MaxConcurrentTasksPerJob),
         SubSeq(tasks, MaxConcurrentTasksPerJob + 2, Len(tasks))>>
  ELSE <<tasks, <<>>>>

\* _batch_tasks: the tasks to submit now and the remaining ones.
BatchTasks(tasks) ==
  IF MaxConcurrentTasksPerJob > 0 /\ Len(tasks) > MaxConcurrentTasksPerJob
  THEN <<SubSeq(tasks, 1, MaxConcurrentTasksPerJob),
         SubSeq(tasks, MaxConcurrentTasksPerJob + 1, Len(tasks))>>
  ELSE <<tasks, <<>>>>

\* The input is processed and the paths buffer flushed into n tasks.  The
\* scheduler is the only writer of the datasets table, so the existing_datasets
\* it read for this sweep, with what it added since, is that table.
AcceptJob(j) ==
  /\ pc = "schedule"
  /\ j \in fetched
  /\ Startable(j)
  /\ \E n \in PartCounts(j) :
       cur' = [job |-> j, todo |-> [i \in 1..n |-> i], ids |-> <<>>, rest |-> <<>>, first |-> TRUE]
  /\ fetched' = fetched \ {j}
  /\ pc' = IF Dataset[j] \in datasets THEN "start" ELSE "dataset"
  /\ UNCHANGED <<db, worker, sigterm, scheduled, toPoll, faults>>

\* add_dataset: the INSERT, which the first CREATE TABLE commits (a MySQL DDL
\* statement commits the open transaction before it runs).
AddDataset ==
  /\ pc = "dataset"
  /\ datasets' = datasets \cup {Dataset[cur.job]}
  /\ pc' = "tables"
  /\ UNCHANGED <<job, task, worker, tables, memory, faults>>

\* create_metadata_db_tables
CreateTables ==
  /\ pc = "tables"
  /\ tables' = tables \cup {Dataset[cur.job]}
  /\ pc' = "start"
  /\ UNCHANGED <<job, task, worker, datasets, memory, faults>>

\* _batch_and_submit_tasks marks the job RUNNING, with the number of all its
\* tasks, before it computes the first batch and inserts any task.
StartJob ==
  /\ pc = "start"
  /\ job' = [job EXCEPT ![cur.job].status = "RUNNING",
                        ![cur.job].numTasks = Len(cur.todo)]
  /\ LET split == BatchTasks(cur.todo) IN
     cur' = [cur EXCEPT !.todo = split[1], !.rest = split[2]]
  /\ pc' = "insert"
  /\ UNCHANGED <<task, worker, datasets, tables, sigterm, fetched, scheduled, toPoll, faults>>

\* _insert_tasks_to_db: one committed row per task.
InsertTask ==
  /\ pc = "insert"
  /\ cur.todo # <<>>
  /\ task' = Append(task, [job |-> cur.job, part |-> Head(cur.todo), status |-> "PENDING"])
  /\ worker' = Append(worker, Unsent)
  /\ cur' = [cur EXCEPT !.todo = Tail(@), !.ids = Append(@, Len(task) + 1)]
  /\ UNCHANGED <<job, datasets, tables, pc, sigterm, fetched, scheduled, toPoll, faults>>

\* task_manager.submit publishes the messages of the group one by one.
PublishTask ==
  /\ pc = "insert"
  /\ cur.todo = <<>>
  /\ \E i \in DOMAIN cur.ids :
       /\ worker[cur.ids[i]].ph = "unsent"
       /\ \A k \in 1..(i - 1) : worker[cur.ids[k]].ph # "unsent"
       /\ worker' = [worker EXCEPT ![cur.ids[i]].ph = "queued"]
  /\ UNCHANGED <<db, pc, memory, faults>>

\* The group is out: the job enters scheduled_jobs, or gets its new handle.
Submitted ==
  /\ pc = "insert"
  /\ cur.todo = <<>>
  /\ \A i \in DOMAIN cur.ids : worker[cur.ids[i]].ph # "unsent"
  /\ scheduled' = [j \in DOMAIN scheduled \cup {cur.job} |->
                     IF j = cur.job THEN [rest |-> cur.rest, batch |-> cur.ids]
                                    ELSE scheduled[j]]
  /\ pc' = "mark"
  /\ UNCHANGED <<db, worker, sigterm, fetched, cur, toPoll, faults>>

\* _update_tasks_status_to_running: whatever a fast worker has already written.
MarkRunning ==
  /\ pc = "mark"
  /\ task' = [t \in Ids |-> IF t \in Range(cur.ids)
                            THEN [task[t] EXCEPT !.status = "RUNNING"]
                            ELSE task[t]]
  /\ pc' = IF cur.first THEN "schedule" ELSE "poll"
  /\ cur' = Idle
  /\ UNCHANGED <<job, worker, datasets, tables, sigterm, fetched, scheduled, toPoll, faults>>

-----------------------------------------------------------------------------
(* poll_running_jobs *)

BeginPoll ==
  /\ pc = "schedule"
  /\ fetched = {}
  /\ pc' = "poll"
  /\ toPoll' = DOMAIN scheduled
  /\ UNCHANGED <<db, worker, sigterm, fetched, cur, scheduled, faults>>

Outcome(j) == {worker[t].ph : t \in Range(scheduled[j].batch)}

\* Mutant: the group counts as ready only once it succeeded.
ReadyIfSucceeded(j) == Outcome(j) \subseteq {"SUCCEEDED"}

\* GroupResult.ready
Ready(j) == Outcome(j) \subseteq Results

\* No task raised and every one reported SUCCEEDED.
AllSucceeded(j) == Outcome(j) \subseteq {"SUCCEEDED"}

\* get_result returned None.
PollNotReady(j) ==
  /\ pc = "poll"
  /\ j \in toPoll
  /\ ~Ready(j)
  /\ toPoll' = toPoll \ {j}
  /\ UNCHANGED <<db, worker, pc, sigterm, fetched, cur, scheduled, faults>>

\* _handle_failed_compression_job, once the failure log is written, and the
\* deletion from scheduled_jobs.
HandleFailed(j) ==
  /\ SetStatus(j, "FAILED")
  /\ scheduled' = Restrict(scheduled, DOMAIN scheduled \ {j})
  /\ toPoll' = toPoll \ {j}
  /\ UNCHANGED <<task, worker, datasets, tables, pc, sigterm, fetched, cur>>

PollFailed(j) ==
  /\ pc = "poll"
  /\ j \in toPoll
  /\ Ready(j)
  /\ ~AllSucceeded(j)
  /\ HandleFailed(j)
  /\ UNCHANGED faults

\* get_result raised although no task did (the result backend is unreachable):
\* the job fails while its tasks may still be running.
PollRaises(j) ==
  /\ pc = "poll"
  /\ j \in toPoll
  /\ faults < MaxFaults
  /\ faults' = faults + 1
  /\ HandleFailed(j)

\* _dispatch_next_task_batch
PollNextBatch(j) ==
  /\ pc = "poll"
  /\ j \in toPoll
  /\ Ready(j)
  /\ AllSucceeded(j)
  /\ scheduled[j].rest # <<>>
  /\ LET split == BatchTasks(scheduled[j].rest) IN
     cur' = [job |-> j, todo |-> split[1], ids |-> <<>>, rest |-> split[2], first |-> FALSE]
  /\ toPoll' = toPoll \ {j}
  /\ pc' = "insert"
  /\ UNCHANGED <<db, worker, sigterm, fetched, scheduled, faults>>

\* _complete_compression_job and the deletion from scheduled_jobs.
PollCompleted(j) ==
  /\ pc = "poll"
  /\ j \in toPoll
  /\ Ready(j)
  /\ AllSucceeded(j)
  /\ scheduled[j].rest = <<>>
  /\ SetStatus(j, "SUCCEEDED")
  /\ scheduled' = Restrict(scheduled, DOMAIN scheduled \ {j})
  /\ toPoll' = toPoll \ {j}
  /\ UNCHANGED <<task, worker, datasets, tables, pc, sigterm, fetched, cur, faults>>

\* Mutant: SIGTERM ends the process at once.
ExitOnSigterm == sigterm

\* The end of poll_running_jobs.
MayExit == sigterm /\ DOMAIN scheduled = {}

EndPoll ==
  /\ pc = "poll"
  /\ toPoll = {}
  /\ IF MayExit THEN Ends("exited")
     ELSE pc' = "search" /\ UNCHANGED memory
  /\ UNCHANGED <<db, worker, faults>>

-----------------------------------------------------------------------------
(* compression_entry_point and run_clp, in a Celery worker *)

At(t, phases) == worker[t].ph \in phases
MoveTo(t, ph) == worker' = [worker EXCEPT ![t].ph = ph]
WorkerFrame == UNCHANGED <<datasets, tables, pc, memory>>

ReceiveTask(t) ==
  /\ At(t, {"queued"})
  /\ MoveTo(t, "running")
  /\ UNCHANGED <<job, task, faults>>
  /\ WorkerFrame

\* The worker config cannot be loaded: a FAILED result and no row is touched.
WorkerConfigFails(t) ==
  /\ At(t, {"running"})
  /\ worker[t].made = 0
  /\ MoveTo(t, "FAILED")
  /\ UNCHANGED <<job, task, faults>>
  /\ WorkerFrame

\* clp-s has closed an archive and it is uploaded; when that fails the process
\* is told to terminate and the archive is not listed.
UploadArchive(t) ==
  /\ At(t, {"running"})
  /\ worker[t].made < MaxArchives
  /\ ~worker[t].s3err
  /\ \/ worker' = [worker EXCEPT ![t].made = @ + 1, ![t].uploaded = @ + 1, ![t].ph = "commit"]
     \/ worker' = [worker EXCEPT ![t].made = @ + 1, ![t].s3err = TRUE]
  /\ UNCHANGED <<job, task, faults>>
  /\ WorkerFrame

\* An archive clp-s still closes after a failed upload is neither uploaded nor
\* listed.
DropArchive(t) ==
  /\ At(t, {"running"})
  /\ worker[t].made < MaxArchives
  /\ worker[t].s3err
  /\ worker' = [worker EXCEPT ![t].made = @ + 1]
  /\ UNCHANGED <<job, task, faults>>
  /\ WorkerFrame

\* update_archive_metadata and update_job_metadata in one transaction.  Without
\* the dataset's archives table the INSERT raises and so does the task.
ListArchive(t) ==
  /\ At(t, {"commit"})
  /\ worker' = IF Dataset[task[t].job] \in tables
               THEN [worker EXCEPT ![t].listed = @ + 1, ![t].ph = "running"]
               ELSE [worker EXCEPT ![t].ph = "exception"]
  /\ UNCHANGED <<job, task, faults>>
  /\ WorkerFrame

\* Mutant: only clp-s's return code decides, not the failed upload.
StatusOfExitCode(t, ok) == IF ok THEN "SUCCEEDED" ELSE "FAILED"

\* The status run_clp returns, given whether clp-s returned 0.
StatusOf(t, ok) == IF ok /\ ~worker[t].s3err THEN "SUCCEEDED" ELSE "FAILED"

\* clp-s has ended: the task's row and the job's num_tasks_completed are
\* written in one transaction, whatever the job's status is by now.
RecordTask(t) ==
  /\ At(t, {"running"})
  /\ \E ok \in BOOLEAN :
       LET s == StatusOf(t, ok) IN
       /\ task' = [task EXCEPT ![t].status = s]
       /\ job' = IF s = "SUCCEEDED" THEN [job EXCEPT ![task[t].job].completed = @ + 1] ELSE job
       /\ MoveTo(t, IF s = "SUCCEEDED" THEN "okRecorded" ELSE "failRecorded")
  /\ UNCHANGED faults
  /\ WorkerFrame

\* The task returns and Celery stores its result.
ReturnResult(t) ==
  /\ At(t, Recorded)
  /\ MoveTo(t, IF At(t, {"okRecorded"}) THEN "SUCCEEDED" ELSE "FAILED")
  /\ UNCHANGED <<job, task, faults>>
  /\ WorkerFrame

\* The task raises (a time limit, a database error) and Celery stores the
\* exception; or the worker's host is lost, and no result is ever stored.
WorkerDies(t) ==
  /\ At(t, Working \cup Recorded)
  /\ faults < MaxFaults
  /\ faults' = faults + 1
  /\ \E ph \in {"exception", "lost"} : MoveTo(t, ph)
  /\ UNCHANGED <<job, task>>
  /\ WorkerFrame

-----------------------------------------------------------------------------
ScheduleStep ==
  \/ Search \/ BeginPoll \/ EndPoll
  \/ AddDataset \/ CreateTables \/ StartJob
  \/ InsertTask \/ PublishTask \/ Submitted \/ MarkRunning
  \/ \E j \in Jobs :
       \/ RejectJob(j) \/ SkipJob(j) \/ AcceptJob(j)
       \/ PollNotReady(j) \/ PollFailed(j) \/ PollNextBatch(j) \/ PollCompleted(j)

WorkerStep(t) ==
  \/ ReceiveTask(t) \/ WorkerConfigFails(t) \/ UploadArchive(t) \/ DropArchive(t)
  \/ ListArchive(t) \/ RecordTask(t) \/ ReturnResult(t)

Environment ==
  \/ Sigterm \/ Crash
  \/ \E j \in Jobs :
       SubmitJob(j) \/ CoordinatorClaims(j) \/ CoordinatorFinishes(j) \/ PollRaises(j)
  \/ \E t \in Ids : WorkerDies(t)

Next == Boot \/ ScheduleStep \/ (\E t \in Ids : WorkerStep(t)) \/ Environment

Spec == Init /\ [][Next]_vars

\* Docker restarts a scheduler that failed; the loop never blocks; Celery keeps
\* delivering messages and clp-s ends.
TaskIds == 1..Cardinality(UNION {{j} \X (1..MaxParts[j]) : j \in Jobs})
Fairness ==
  /\ WF_vars(pc = "down" /\ Boot)
  /\ WF_vars(ScheduleStep)
  /\ \A t \in TaskIds : WF_vars(t \in Ids /\ WorkerStep(t))

FairSpec == Spec /\ Fairness

-----------------------------------------------------------------------------
(* Properties *)

\* Types of the rows, of the scheduler's memory and of Celery's state.
TypeOK ==
  /\ job \in [Jobs -> [status : {"NONE", "PENDING", "RUNNING"} \cup Final,
                       numTasks : Nat, completed : Nat, spider : BOOLEAN]]
  /\ task \in Seq([job : Jobs, part : Nat, status : TaskStatus])
  /\ worker \in Seq([ph : WorkerPhases, made : Nat, uploaded : Nat, listed : Nat,
                     s3err : BOOLEAN])
  /\ Len(worker) = Len(task)
  /\ datasets \subseteq Range(Dataset)
  /\ tables \subseteq Range(Dataset)
  /\ pc \in {"down", "exited", "search", "schedule", "dataset", "tables", "start",
             "insert", "mark", "poll"}
  /\ sigterm \in BOOLEAN
  /\ fetched \subseteq Jobs
  /\ cur \in [job : Jobs \cup {NoJob}, todo : Seq(Nat), ids : Seq(Nat), rest : Seq(Nat),
              first : BOOLEAN]
  /\ DOMAIN scheduled \subseteq Jobs
  /\ \A j \in DOMAIN scheduled : scheduled[j] \in [rest : Seq(Nat), batch : Seq(Nat)]
  /\ toPoll \subseteq DOMAIN scheduled
  /\ faults \in 0..MaxFaults

\* While the scheduler runs, every RUNNING job that no coordinator drives is in
\* scheduled_jobs, or is the one whose first batch is being submitted: no crash,
\* restart or failed step leaves a RUNNING row that nothing will ever finish.
RunningIsTracked ==
  Running => HangingJobs \subseteq DOMAIN scheduled \cup {cur.job}

\* A job the scheduler marked SUCCEEDED had each of its num_tasks partitions
\* compressed by exactly one task, each task reported success, and the row's
\* num_tasks_completed has counted them all.
SucceededIsWhole ==
  \A j \in Jobs : job[j].status = "SUCCEEDED" /\ ~job[j].spider =>
    /\ Cardinality(TasksOf(j)) = job[j].numTasks
    /\ {task[t].part : t \in TasksOf(j)} = 1..job[j].numTasks
    /\ \A t \in TasksOf(j) : At(t, {"SUCCEEDED"})
    /\ job[j].completed = job[j].numTasks

\* max_concurrent_tasks_per_job bounds the tasks of a job that are queued or
\* being run, across batches, failures and restarts.
BatchLimit ==
  MaxConcurrentTasksPerJob > 0 =>
    \A j \in Jobs :
      Cardinality({t \in TasksOf(j) : At(t, {"queued"} \cup Working \cup Recorded)})
        <= MaxConcurrentTasksPerJob

\* Once kill_hanging_jobs has marked a job KILLED no task row of it says
\* RUNNING, then or later: no scheduler is left that could set that status.
KilledTasksStopped ==
  \A j \in Jobs : job[j].status = "KILLED" =>
    \A t \in TasksOf(j) : task[t].status # "RUNNING"

CoordinatorStep ==
  \A j \in Jobs : CoordinatorOwns(j) /\ job'[j] # job[j] => UNCHANGED <<pc, memory>>

\* No step of the scheduler changes the row of a job that the coordinator is
\* configured to handle, even when the coordinator claims the job between the
\* scheduler's query and its look at the job, or while the scheduler restarts.
CoordinatorJobsKept == [][CoordinatorStep]_vars

FinalStep ==
  \A j \in Jobs : job[j].status \in Final => job'[j].status = job[j].status

\* SUCCEEDED, FAILED and KILLED are final although every UPDATE of the status
\* is unconditional.
FinalIsFinal == [][FinalStep]_vars

\* An archive appears in the metadata only after its upload to S3 succeeded.
ListedIsUploaded == \A t \in Ids : worker[t].listed <= worker[t].uploaded

\* A task whose result is SUCCEEDED has listed every archive clp-s made, also
\* when clp-s had ended before it could be terminated for a failed upload.
SuccessListsAll ==
  \A t \in Ids : At(t, {"okRecorded", "SUCCEEDED"}) => worker[t].listed = worker[t].made

\* The scheduler exits on SIGTERM only when no job it drives is RUNNING, also
\* when the signal arrives while a job is being started.
ExitIsDrained == pc = "exited" => HangingJobs = {}

\* The scheduler's memory and the rows agree on who still has to end a job: no
\* RUNNING row is left to nobody, neither while the scheduler runs nor when it exits.
JobsAreDriven == TypeOK /\ RunningIsTracked /\ ExitIsDrained

\* The tasks of a job are bounded while it runs and stopped once it is killed.
TasksAreBounded == BatchLimit /\ KilledTasksStopped

\* The metadata lists an archive after its upload and, for a successful task, all
\* of the archives.
ArchivesAreListed == ListedIsUploaded /\ SuccessListsAll

\* No step overwrites a final status or, in the scheduler, a coordinator's row.
RowsAreKept == CoordinatorJobsKept /\ FinalIsFinal

Blocked(j) == \E t \in TasksOf(j) : At(t, {"lost"})

\* A job that is submitted ends, across crashes of the scheduler, unless the
\* scheduler is told to stop or the worker of one of its own tasks was lost; a
\* job whose worker was lost holds up no other job.
JobEnds ==
  \A j \in Jobs :
    job[j].status = "PENDING" /\ ~CoordinatorOwns(j)
      ~> job[j].status \in Final \/ sigterm \/ pc = "exited" \/ Blocked(j)

\* After SIGTERM the scheduler stops as soon as the jobs it drives have ended.
SigtermDrains ==
  sigterm ~> ~Running \/ \E j \in Jobs : Blocked(j)

\* The scheduler makes progress: jobs end, and so does the scheduler when asked to.
SchedulerEnds == JobEnds /\ SigtermDrains

=============================================================================
