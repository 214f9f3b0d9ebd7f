--------------------------- MODULE QueryScheduler ---------------------------
(***************************************************************************)
(* The query scheduler (query_scheduler.py), its reducer handlers          *)
(* (reducer_handler.py), the Celery query workers and the reducers as the  *)
(* scheduler's connections show them.                                      *)
(*                                                                         *)
(* The scheduler is one asyncio event loop.  Its coroutines are the main   *)
(* loop (handle_jobs), the update loop (handle_job_updates), one           *)
(* acquire_reducer_for_job per waiting aggregation and one                 *)
(* handle_reducer_connection per reducer connection.  A coroutine gives up *)
(* the loop only where it awaits; LoopFree says that none of the two loops *)
(* is between two awaits.  Clients, workers and reducers are other         *)
(* processes and move at any time.                                         *)
(***************************************************************************)
EXTENDS Naturals, Sequences, FiniteSets, SequencesExt

CONSTANTS
  Jobs,          \* query jobs that clients submit
  NoJob,         \* a value outside Jobs
  Scenarios,     \* what a run starts from: the type of each job, and the kinds of
                 \* faults that may happen in it, each once.  "latest" is a search with
                 \* max_num_results, "agg" one with an aggregation_config.
  Streams,       \* streams that extraction jobs extract
  MaxArchives,   \* bound: archives a search matches
  SubJobSize,    \* num_archives_to_search_per_sub_job
  MaxConns,      \* bound: connections reducers open
  NumReducers    \* reducers that run at a time

JobTypes == {"none", "search", "latest", "agg", "extract"}
FaultKinds == {"crash", "exit", "taskRaises", "extractRaises", "workerLost", "reducerDies",
               "sendFails"}

ASSUME QueryConstants ==
  /\ NoJob \notin Jobs
  /\ Scenarios \subseteq [types : [Jobs -> JobTypes], faults : SUBSET FaultKinds]
  /\ {MaxArchives, SubJobSize, MaxConns, NumReducers} \subseteq Nat
  /\ SubJobSize > 0

VARIABLES
  job,        \* rows of query_jobs: type and status
  task,       \* rows of query_tasks, by AUTO_INCREMENT id, with the Celery task of each
  extracted,  \* streams with a document in the results cache
  main,       \* where the main loop is
  fetched,    \* rows of this poll that are not handled yet
  toDispatch, \* pending_search_jobs
  active,     \* active_jobs
  waiting,    \* active_file_split_ir_extractions / active_archive_json_extractions
  acq,        \* the reducer acquisition task of each job: the connection it waits on
  upd,        \* where the update loop is
  updList,    \* jobs this pass of the update loop has still to handle
  updJob,     \* the job it is in the middle of, with the status it will get
  connQ,      \* reducer_connection_queue
  conn,       \* the reducer connections, by order of arrival
  faults      \* the kinds of faults that may still happen, and that have happened

db == <<job, task, extracted>>
loops == <<main, fetched, toDispatch, upd, updList, updJob>>
jobsMem == <<active, waiting, acq>>
conns == <<connQ, conn>>
vars == <<job, task, extracted, main, fetched, toDispatch, active, waiting, acq, upd, updList,
          updJob, connQ, conn, faults>>

Table == INSTANCE QueryJobTable WITH status <- [j \in Jobs |-> job[j].status]

Terminal == {"SUCCEEDED", "FAILED", "CANCELLED", "KILLED"}
JobStatus == {"NONE", "PENDING", "RUNNING", "CANCELLING"} \cup Terminal
TaskStatus == {"PENDING", "RUNNING", "SUCCEEDED", "FAILED", "CANCELLED", "KILLED"}

\* What GroupResult.ready and get see of a Celery task.  "revoked" stands for a
\* task whose revocation has taken effect; a lost one never has a result.
Raised == {"raised", "revoked"}
Done == {"ok", "failed"} \cup Raised
WorkerPhases == {"queued", "running", "recorded", "recordedFail", "lost"} \cup Done

WaitStates == {"JOB_CONFIG", "JOB_CONFIG_ACK", "QUERY_WORKERS_DONE", "REDUCER_DONE"}

LoopFree == main \in {"idle", "exited"} /\ upd \in {"idle", "yield", "await"}
Up == main \notin {"down", "exited"}
Free == LoopFree /\ Up
Fault(k) ==
  /\ k \in faults.may
  /\ faults' = [may |-> faults.may \ {k}, had |-> faults.had \cup {k}]

IsSearch(j) == job[j].type # "extract"

\* A row's UPDATE with a condition on the status it had (set_job_or_task_status).
Cas(j, from, to) ==
  IF job[j].status = from THEN [job EXCEPT ![j].status = to] ELSE job

NoActive == [j \in {} |-> 0]
NoAcq == [ph |-> "none", conn |-> 0]
Idle == [st |-> "none", todo |-> 0, sub |-> {}, red |-> 0, begun |-> FALSE]
NoUpdate == [job |-> NoJob, status |-> "none", rec |-> Idle]
Without(f, j) == [k \in DOMAIN f \ {j} |-> f[k]]
With(f, j, v) == [k \in DOMAIN f \cup {j} |-> IF k = j THEN v ELSE f[k]]

Init ==
  /\ \E sc \in Scenarios :
       /\ job = [j \in Jobs |-> [type |-> sc.types[j], status |-> "NONE", stream |-> "none",
                                 num |-> 0]]
       /\ faults = [may |-> sc.faults, had |-> {}]
  /\ task = <<>>
  /\ extracted = {}
  /\ main = "down" /\ fetched = {} /\ toDispatch = {}
  /\ active = NoActive
  /\ waiting = NoActive
  /\ acq = [j \in Jobs |-> NoAcq]
  /\ upd = "idle" /\ updList = {} /\ updJob = NoUpdate
  /\ connQ = <<>> /\ conn = <<>>

-----------------------------------------------------------------------------
(* Clients (api-server and web UI). *)

SubmitJob(j) ==
  /\ job[j].status = "NONE" /\ job[j].type # "none"
  /\ \E s \in IF IsSearch(j) THEN {"none"} ELSE Streams :
       job' = [job EXCEPT ![j].status = "PENDING", ![j].stream = s]
  /\ UNCHANGED <<task, extracted, loops, jobsMem, conns, faults>>

\* cancel_search_job: a search that is PENDING or RUNNING.
CancelSearchJob(j) ==
  /\ job[j].status \in {"PENDING", "RUNNING"} /\ IsSearch(j)
  /\ job' = [job EXCEPT ![j].status = "CANCELLING"]
  /\ UNCHANGED <<task, extracted, loops, jobsMem, conns, faults>>

-----------------------------------------------------------------------------
(* Celery workers: run_query_task and the entry points around it. *)

SetTask(t, status, w) ==
  /\ task' = [task EXCEPT ![t].status = status, ![t].w = w]
  /\ UNCHANGED <<job, loops, jobsMem, conns>>

\* The row turns RUNNING whatever it holds; or the worker cannot build the
\* command and report_task_failure writes FAILED.
StartTask(t) ==
  /\ task[t].w = "queued"
  /\ \/ SetTask(t, "RUNNING", "running")
     \/ SetTask(t, "FAILED", "recordedFail")
  /\ UNCHANGED <<extracted, faults>>

\* An extraction records the first of its streams while it still runs.
WriteStream(t) ==
  /\ task[t].w = "running" /\ job[task[t].job].type = "extract"
  /\ job[task[t].job].stream \notin extracted
  /\ extracted' = extracted \cup {job[task[t].job].stream}
  /\ UNCHANGED <<job, task, loops, jobsMem, conns, faults>>

\* The process of the task ends and the row gets its outcome.  An extraction
\* that succeeds has written its streams.
RecordTask(t) ==
  /\ task[t].w = "running"
  /\ \/ /\ job[task[t].job].type = "extract" => job[task[t].job].stream \in extracted
        /\ SetTask(t, "SUCCEEDED", "recorded")
     \/ SetTask(t, "FAILED", "recordedFail")
  /\ UNCHANGED <<extracted, faults>>

\* The result reaches the backend; an upload to S3 that fails turns it to FAILED
\* and leaves the row.
ReturnResult(t) ==
  /\ \/ task[t].w = "recorded" /\ \E w \in {"ok", "failed"} : SetTask(t, task[t].status, w)
     \/ task[t].w = "recordedFail" /\ SetTask(t, task[t].status, "failed")
  /\ UNCHANGED <<extracted, faults>>

\* The entry point raises (SoftTimeLimitExceeded, a database error): Celery
\* stores the exception, the row keeps its status.
TaskRaises(t) ==
  /\ task[t].w \in {"queued", "running"}
  /\ Fault(IF job[task[t].job].type = "extract" THEN "extractRaises" ELSE "taskRaises")
  /\ SetTask(t, task[t].status, "raised")
  /\ UNCHANGED extracted

\* The worker's host dies: there will be no result.
WorkerLost(t) ==
  /\ task[t].w \in {"queued", "running"}
  /\ Fault("workerLost")
  /\ SetTask(t, task[t].status, "lost")
  /\ UNCHANGED extracted

\* A revocation with terminate=True reaches the worker.
Revoke(t) ==
  /\ task[t].rev /\ task[t].w \notin Done \cup {"lost"}
  /\ SetTask(t, task[t].status, "revoked")
  /\ UNCHANGED <<extracted, faults>>

-----------------------------------------------------------------------------
(* Start, crash and exit of the scheduler. *)

\* kill_hanging_jobs: no process drives these jobs any more.
HangingJobs == {j \in Jobs : job[j].status = "RUNNING"}

\* main up to the start of the two loops; it kills the hanging jobs and their
\* RUNNING tasks in one transaction.
Boot ==
  /\ main = "down"
  /\ LET hanging == HangingJobs IN
       /\ job' = [j \in Jobs |-> IF j \in hanging THEN [job[j] EXCEPT !.status = "KILLED"]
                                                  ELSE job[j]]
       /\ task' = [t \in DOMAIN task |->
                     IF task[t].job \in hanging /\ task[t].status = "RUNNING"
                     THEN [task[t] EXCEPT !.status = "KILLED"] ELSE task[t]]
  /\ main' = "idle"
  /\ UNCHANGED <<extracted, fetched, toDispatch, jobsMem, upd, updList, updJob, conns, faults>>

\* The process ends: what it held in memory is gone, its connections close.
Stops(pc) ==
  /\ main' = pc /\ fetched' = {} /\ toDispatch' = {}
  /\ active' = NoActive /\ waiting' = NoActive /\ acq' = [j \in Jobs |-> NoAcq]
  /\ upd' = "idle" /\ updList' = {} /\ updJob' = NoUpdate
  /\ connQ' = <<>>
  /\ conn' = [c \in DOMAIN conn |-> [conn[c] EXCEPT !.ph = "ended", !.inq = <<>>, !.outq = <<>>]]
  /\ UNCHANGED db

Crash == Up /\ Fault("crash") /\ Stops("down")

\* A dispatch raises, so handle_jobs raises, and main returns 0: a restart policy
\* of on-failure does not start the process again.
Exit == main = "dispatch" /\ toDispatch # {} /\ Fault("exit") /\ Stops("exited")

-----------------------------------------------------------------------------
(* The main loop: handle_pending_query_jobs, which never awaits. *)

PendingRows == {j \in Jobs : job[j].status = "PENDING"}
TasksOf(j) == {t \in DOMAIN task : task[t].job = j}

\* Jobs that wait for (more of) their archives to be dispatched.  A poll that
\* finds none, and no pending row, changes nothing.
FetchPending ==
  /\ Free /\ main = "idle"
  /\ fetched' = PendingRows
  /\ toDispatch' = {j \in DOMAIN active : active[j].st = "WAITING_FOR_DISPATCH" /\ IsSearch(j)}
  /\ fetched' \cup toDispatch' # {}
  /\ main' = "new"
  /\ UNCHANGED <<db, jobsMem, upd, updList, updJob, conns, faults>>

\* "Avoid double-dispatch when a job is WAITING_FOR_REDUCER"
AlreadyTaken(j) == j \in DOMAIN active

\* _handle_new_search_job.  Its early returns fail the job (bad datasets) or end
\* it (no archive matches); otherwise an aggregation starts to acquire a reducer
\* and a plain search joins the jobs to dispatch.
NewSearchJob(j) ==
  /\ main = "new" /\ j \in fetched /\ IsSearch(j)
  /\ fetched' = fetched \ {j}
  /\ \/ AlreadyTaken(j) /\ UNCHANGED <<job, active, acq, toDispatch>>
     \/ /\ ~AlreadyTaken(j)
        /\ \E outcome \in {"FAILED", "SUCCEEDED"} : job' = Cas(j, "PENDING", outcome)
        /\ UNCHANGED <<active, acq, toDispatch>>
     \/ /\ ~AlreadyTaken(j)
        /\ \E n \in 1..MaxArchives :
             active' = With(active, j,
                            [Idle EXCEPT !.todo = n,
                                         !.st = IF job[j].type = "agg" THEN "WAITING_FOR_REDUCER"
                                                ELSE "WAITING_FOR_DISPATCH"])
        /\ IF job[j].type = "agg"
           THEN acq' = [acq EXCEPT ![j] = [ph |-> "get", conn |-> 0]] /\ UNCHANGED toDispatch
           ELSE toDispatch' = toDispatch \cup {j} /\ UNCHANGED acq
        /\ UNCHANGED job
  /\ UNCHANGED <<task, extracted, main, waiting, upd, updList, updJob, conns, faults>>

NewTask(j) == [job |-> j, status |-> "PENDING", w |-> "queued", rev |-> FALSE]

\* mark_job_as_waiting
MarkWaiting(j) ==
  LET s == job[j].stream IN
  waiting' = With(waiting, s, Append(IF s \in DOMAIN waiting THEN waiting[s] ELSE <<>>, j))

\* _handle_new_extraction_job up to the dispatch: the job fails, waits for the
\* extraction in progress, or finds the stream extracted.
NewExtractionJob(j) ==
  LET s == job[j].stream IN
  /\ main = "new" /\ j \in fetched /\ ~IsSearch(j)
  /\ \/ job' = Cas(j, "PENDING", "FAILED") /\ UNCHANGED waiting
     \/ s \in DOMAIN waiting /\ MarkWaiting(j) /\ job' = Cas(j, "PENDING", "RUNNING")
     \/ s \notin DOMAIN waiting /\ s \in extracted /\ job' = Cas(j, "PENDING", "SUCCEEDED")
        /\ UNCHANGED waiting
  /\ fetched' = fetched \ {j}
  /\ UNCHANGED <<task, extracted, main, active, acq, toDispatch, upd, updList, updJob, conns, faults>>

\* dispatch_query_job: the task is in Celery's hands before the row says RUNNING.
DispatchExtraction(j) ==
  LET s == job[j].stream IN
  /\ main = "new" /\ j \in fetched /\ ~IsSearch(j)
  /\ s \notin DOMAIN waiting /\ s \notin extracted
  /\ task' = Append(task, NewTask(j))
  /\ active' = With(active, j, [Idle EXCEPT !.st = "RUNNING", !.sub = {Len(task')}])
  /\ fetched' = fetched \ {j}
  /\ main' = "mark"
  /\ UNCHANGED <<job, extracted, toDispatch, waiting, acq, upd, updList, updJob, conns, faults>>

\* The rest of dispatch_job_and_update_db and of the handler.
MarkExtraction(j) ==
  /\ main = "mark" /\ j \in DOMAIN active /\ ~IsSearch(j) /\ ~active[j].begun
  /\ job' = [Cas(j, "PENDING", "RUNNING") EXCEPT ![j].num = 1]
  /\ active' = [active EXCEPT ![j].begun = TRUE]
  /\ MarkWaiting(j)
  /\ main' = "new"
  /\ UNCHANGED <<task, extracted, fetched, toDispatch, acq, upd, updList, updJob, conns, faults>>

AllTaken ==
  /\ main = "new" /\ fetched = {}
  /\ main' = "dispatch"
  /\ UNCHANGED <<db, fetched, toDispatch, jobsMem, upd, updList, updJob, conns, faults>>

\* Mutant: the row turns RUNNING whatever it holds.
BeginAnyway(j) ==
  /\ main = "dispatch" /\ j \in toDispatch /\ ~active[j].begun
  /\ job' = [job EXCEPT ![j].status = "RUNNING", ![j].num = active[j].todo]
  /\ active' = [active EXCEPT ![j].begun = TRUE]
  /\ UNCHANGED <<task, extracted, main, fetched, toDispatch, waiting, acq, upd, updList, updJob,
                 conns, faults>>

\* The first sub-job of a search: RUNNING and num_tasks, if the row is still
\* PENDING; the dispatch goes on in any case.
BeginSearch(j) ==
  /\ main = "dispatch" /\ j \in toDispatch /\ ~active[j].begun
  /\ job' = IF job[j].status = "PENDING"
            THEN [job EXCEPT ![j].status = "RUNNING", ![j].num = active[j].todo] ELSE job
  /\ active' = [active EXCEPT ![j].begun = TRUE]
  /\ UNCHANGED <<task, extracted, main, fetched, toDispatch, waiting, acq, upd, updList, updJob,
                 conns, faults>>

\* Mutant: the archives that go to this sub-job stay with the remaining ones.
KeepsAll(j, n) == active[j].todo

\* remaining_archives_for_search after a sub-job of n archives is cut off.
Remaining(j, n) == active[j].todo - n

\* A process of the pool inserts the tasks and submits the group; the main loop
\* waits for it and turns the job to RUNNING.
SubmitSubJob(j) ==
  LET n == IF active[j].todo > SubJobSize THEN SubJobSize ELSE active[j].todo IN
  /\ main = "dispatch" /\ j \in toDispatch /\ active[j].begun
  /\ task' = task \o [i \in 1..n |-> NewTask(j)]
  /\ active' = [active EXCEPT ![j].st = "RUNNING", ![j].todo = Remaining(j, n),
                              ![j].sub = (Len(task) + 1)..(Len(task) + n)]
  /\ toDispatch' = toDispatch \ {j}
  /\ UNCHANGED <<job, extracted, main, fetched, waiting, acq, upd, updList, updJob, conns, faults>>

EndPoll ==
  /\ main = "dispatch" /\ toDispatch = {}
  /\ main' = "idle"
  /\ UNCHANGED <<db, fetched, toDispatch, jobsMem, upd, updList, updJob, conns, faults>>

-----------------------------------------------------------------------------
(* The update loop: handle_cancelling_search_jobs, then                    *)
(* check_job_status_and_update_db.                                         *)

Cancelling == {j \in Jobs : job[j].status = "CANCELLING" /\ IsSearch(j)}
Ready(T) == \A t \in T : task[t].w \in Done
RunningJobs == {j \in DOMAIN active : active[j].st = "RUNNING"}

\* fetch_cancelling_search_jobs.  A pass that would find nothing to do is left out.
BeginPass ==
  /\ Free /\ upd = "idle"
  /\ Cancelling \cap DOMAIN active # {} \/ \E j \in RunningJobs : Ready(active[j].sub)
  /\ upd' = "cancel" /\ updList' = Cancelling
  /\ UNCHANGED <<db, main, fetched, toDispatch, jobsMem, updJob, conns, faults>>

ToHandler(cs, c, msg) == [cs EXCEPT ![c].inq = Append(@, msg)]

\* reducer_acquisition_task.cancel(): the task tells the handler it waits on.
CancelAcquisition(j) ==
  /\ acq' = [acq EXCEPT ![j] = NoAcq]
  /\ conn' = IF acq[j].ph = "wait" THEN ToHandler(conn, acq[j].conn, "FAILURE") ELSE conn

\* A cancelled job leaves active_jobs, and cancel_job_except_reducer starts: it
\* revokes the sub-job or cancels the acquisition.
CancelJob(j) ==
  /\ upd = "cancel" /\ j \in updList
  /\ updList' = updList \ {j}
  /\ \/ j \notin DOMAIN active /\ UNCHANGED <<task, active, acq, upd, updJob, conn>>
     \/ /\ j \in DOMAIN active
        /\ active' = Without(active, j)
        /\ updJob' = [job |-> j, status |-> "CANCELLED", rec |-> active[j]]
        /\ upd' = "revoked"
        /\ IF active[j].st = "RUNNING"
           THEN task' = [t \in DOMAIN task |->
                           IF t \in active[j].sub THEN [task[t] EXCEPT !.rev = TRUE] ELSE task[t]]
           ELSE UNCHANGED task
        /\ IF active[j].st = "WAITING_FOR_REDUCER" THEN CancelAcquisition(j)
           ELSE UNCHANGED <<acq, conn>>
  /\ UNCHANGED <<job, extracted, main, fetched, toDispatch, waiting, connQ, faults>>

\* GroupResult.get goes through the tasks in order and raises at the first one
\* that raised; it has no timeout and blocks the whole event loop.
GetReturns(T) ==
  Ready(T) \/ \E t \in T : task[t].w \in Raised /\ Ready({u \in T : u < t})

\* Mutant: a reducer that is not asked to do anything yet is not released.
ReleaseIfRunning(rec) ==
  IF rec.red # 0 /\ rec.st = "RUNNING" THEN ToHandler(conn, rec.red, "FAILURE") ELSE conn

\* release_reducer_for_job
ReleaseReducer(rec) == IF rec.red # 0 THEN ToHandler(conn, rec.red, "FAILURE") ELSE conn

\* The rest of the cancellation of one job, up to its `await asyncio.sleep(0)`.
FinishCancel ==
  LET j == updJob.job IN
  /\ upd = "revoked" /\ GetReturns(updJob.rec.sub)
  /\ conn' = ReleaseReducer(updJob.rec)
  /\ task' = [t \in DOMAIN task |->
                IF task[t].job = j /\ task[t].status \in {"PENDING", "RUNNING"}
                THEN [task[t] EXCEPT !.status = "CANCELLED"] ELSE task[t]]
  /\ job' = Cas(j, "CANCELLING", "CANCELLED")
  /\ updJob' = NoUpdate
  /\ upd' = "yield"
  /\ UNCHANGED <<extracted, main, fetched, toDispatch, jobsMem, updList, connQ, faults>>

Resume ==
  /\ Free /\ upd = "yield"
  /\ upd' = "cancel"
  /\ UNCHANGED <<db, main, fetched, toDispatch, jobsMem, updList, updJob, conns, faults>>

BeginCheck ==
  /\ upd = "cancel" /\ updList = {}
  /\ upd' = "check" /\ updList' = RunningJobs
  /\ UNCHANGED <<db, main, fetched, toDispatch, jobsMem, updJob, conns, faults>>

Checks(j) == upd = "check" /\ j \in updList /\ updList' = updList \ {j}

CheckNotReady(j) ==
  /\ Checks(j) /\ ~Ready(active[j].sub)
  /\ UNCHANGED <<db, main, fetched, toDispatch, jobsMem, upd, updJob, conns, faults>>

AnyRaised(j) == \E t \in active[j].sub : task[t].w \in Raised
AnyFailed(j) == \E t \in active[j].sub : task[t].w = "failed"

\* Getting the results raises: the job is forgotten and failed.  The streams an
\* extraction holds in `waiting` are left there.
CheckRaised(j) ==
  /\ Checks(j) /\ Ready(active[j].sub) /\ AnyRaised(j)
  /\ conn' = ReleaseReducer(active[j])
  /\ active' = Without(active, j)
  /\ job' = Cas(j, "RUNNING", "FAILED")
  /\ UNCHANGED <<task, extracted, main, fetched, toDispatch, waiting, acq, upd, updJob, connQ, faults>>

Finished(j) == Checks(j) /\ Ready(active[j].sub) /\ ~AnyRaised(j)

\* handle_finished_search_job: a search with archives left, that has not found
\* the latest results it was asked for, waits for the next dispatch.
SearchGoesOn(j) ==
  /\ Finished(j) /\ IsSearch(j) /\ ~AnyFailed(j) /\ active[j].todo > 0
  /\ active' = [active EXCEPT ![j].st = "WAITING_FOR_DISPATCH", ![j].sub = {}]
  /\ UNCHANGED <<db, main, fetched, toDispatch, waiting, acq, upd, updJob, conns, faults>>

\* Mutant: the remaining archives are not looked at.
OutcomesAnySubJob(j) == IF AnyFailed(j) THEN {"FAILED"} ELSE {"SUCCEEDED"}

\* The statuses the finished sub-job may end the search with.
Outcomes(j) ==
  IF AnyFailed(j) THEN {"FAILED"}
  ELSE IF active[j].todo = 0 \/ job[j].type = "latest" THEN {"SUCCEEDED"} ELSE {}

\* Mutant: the final write is conditional on a RUNNING row.
EndIfRunning(j, status) == Cas(j, "RUNNING", status)

\* "We set the status regardless of the job's previous status to handle the case
\* where the job is cancelled (status = CANCELLING) while we're in this method."
EndSearch(j, status) == [job EXCEPT ![j].status = status]

\* The search is over.  Without a reducer the row gets its status at once.
FinishSearch(j) ==
  /\ Finished(j) /\ IsSearch(j) /\ active[j].red = 0
  /\ \E status \in Outcomes(j) : job' = EndSearch(j, status)
  /\ active' = Without(active, j)
  /\ UNCHANGED <<task, extracted, main, fetched, toDispatch, waiting, acq, upd, updJob, conns, faults>>

\* With a reducer, the handler is told first and the update loop awaits its answer.
AwaitReducer(j) ==
  /\ Finished(j) /\ IsSearch(j) /\ active[j].red # 0
  /\ \E status \in Outcomes(j) : updJob' = [job |-> j, status |-> status, rec |-> active[j]]
  /\ conn' = ToHandler(conn, active[j].red, "SUCCESS")
  /\ upd' = "await"
  /\ UNCHANGED <<db, main, fetched, toDispatch, jobsMem, connQ, faults>>

ReducerAnswered ==
  LET j == updJob.job  c == updJob.rec.red IN
  /\ Free /\ upd = "await" /\ conn[c].outq # <<>>
  /\ conn' = [conn EXCEPT ![c].outq = Tail(@)]
  /\ job' = EndSearch(j, IF Head(conn[c].outq) = "FAILURE" THEN "FAILED" ELSE updJob.status)
  /\ active' = Without(active, j)
  /\ updJob' = NoUpdate
  /\ upd' = "check"
  /\ UNCHANGED <<task, extracted, main, fetched, toDispatch, waiting, acq, updList, connQ, faults>>

\* handle_finished_stream_extraction_job: the job and those that wait for the
\* same stream, each if it is still RUNNING.
FinishExtraction(j) ==
  LET s == job[j].stream
      status == IF AnyFailed(j) THEN "FAILED" ELSE "SUCCEEDED" IN
  /\ Finished(j) /\ ~IsSearch(j)
  /\ job' = [k \in Jobs |-> IF k \in ToSet(waiting[s]) /\ job[k].status = "RUNNING"
                            THEN [job[k] EXCEPT !.status = status] ELSE job[k]]
  /\ waiting' = Without(waiting, s)
  /\ active' = Without(active, j)
  /\ UNCHANGED <<task, extracted, main, fetched, toDispatch, acq, upd, updJob, conns, faults>>

EndPass ==
  /\ upd = "check" /\ updList = {}
  /\ upd' = "idle"
  /\ UNCHANGED <<db, main, fetched, toDispatch, jobsMem, updList, updJob, conns, faults>>

-----------------------------------------------------------------------------
(* acquire_reducer_for_job, one coroutine per job. *)

TakeConnection(j) ==
  /\ Free /\ acq[j].ph = "get" /\ connQ # <<>>
  /\ acq' = [acq EXCEPT ![j] = [ph |-> "wait", conn |-> Head(connQ)]]
  /\ connQ' = Tail(connQ)
  /\ conn' = [ToHandler(conn, Head(connQ), "AGGREGATION_CONFIG") EXCEPT ![Head(connQ)].job = j]
  /\ UNCHANGED <<db, loops, active, waiting, faults>>

ConnectionAnswered(j) ==
  LET c == acq[j].conn IN
  /\ Free /\ acq[j].ph = "wait" /\ conn[c].outq # <<>>
  /\ conn' = [conn EXCEPT ![c].outq = Tail(@)]
  /\ IF Head(conn[c].outq) = "SUCCESS"
     THEN /\ acq' = [acq EXCEPT ![j] = NoAcq]
          /\ active' = [active EXCEPT ![j].red = c, ![j].st = "WAITING_FOR_DISPATCH"]
     ELSE /\ acq' = [acq EXCEPT ![j] = [ph |-> "get", conn |-> 0]]
          /\ UNCHANGED active
  /\ UNCHANGED <<db, loops, waiting, connQ, faults>>

-----------------------------------------------------------------------------
(* handle_reducer_connection, one coroutine per connection.  Its two tasks *)
(* are done when a listener's message is queued, and when the reducer sent *)
(* a byte or closed the socket: the code looks at the task, never at what  *)
(* it returned or raised.                                                  *)

ListenerDone(c) == conn[c].inq # <<>>
ReducerTaskDone(c) == conn[c].acks > 0 \/ conn[c].eof
AtState(c, ph) == Free /\ conn[c].ph = ph

SetConn(c, new) == conn' = [conn EXCEPT ![c] = new] /\ UNCHANGED <<db, loops, jobsMem, connQ>>
Took(c) == [conn[c] EXCEPT !.inq = Tail(@)]
Ended(r) == [r EXCEPT !.ph = "ended"]
Answer(r, msg) == [r EXCEPT !.outq = Append(@, msg)]

\* _send_msg_to_reducer raises when the connection is lost: the handler ends
\* and nobody who waits for its answer hears of it.
Sends(c, r, msg, next) ==
  \/ /\ SetConn(c, [r EXCEPT !.toRed = Append(@, msg), !.ph = next])
     /\ UNCHANGED faults
  \/ /\ Fault("sendFails")
     /\ SetConn(c, Ended(r))

WaitForConfig(c) ==
  /\ AtState(c, "JOB_CONFIG")
  /\ \/ /\ ReducerTaskDone(c)
        /\ SetConn(c, Ended(Answer(conn[c], "FAILURE"))) /\ UNCHANGED faults
     \/ /\ ~ReducerTaskDone(c) /\ ListenerDone(c)
        /\ Sends(c, Took(c), "config", "JOB_CONFIG_ACK")

WaitForConfigAck(c) ==
  /\ AtState(c, "JOB_CONFIG_ACK")
  /\ \/ /\ ListenerDone(c)
        /\ SetConn(c, Ended(Took(c)))
     \/ /\ ~ListenerDone(c) /\ ReducerTaskDone(c)
        /\ SetConn(c, [Answer(conn[c], "SUCCESS") EXCEPT !.ph = "QUERY_WORKERS_DONE",
                                                         !.acks = IF @ > 0 THEN @ - 1 ELSE 0])
  /\ UNCHANGED faults

WaitForWorkers(c) ==
  /\ AtState(c, "QUERY_WORKERS_DONE")
  /\ \/ /\ ReducerTaskDone(c)
        /\ SetConn(c, Ended(Answer(conn[c], "FAILURE"))) /\ UNCHANGED faults
     \/ /\ ~ReducerTaskDone(c) /\ ListenerDone(c) /\ Head(conn[c].inq) = "FAILURE"
        /\ SetConn(c, Ended(Took(c))) /\ UNCHANGED faults
     \/ /\ ~ReducerTaskDone(c) /\ ListenerDone(c) /\ Head(conn[c].inq) = "SUCCESS"
        /\ Sends(c, Took(c), "done", "REDUCER_DONE")

WaitForReducer(c) ==
  /\ AtState(c, "REDUCER_DONE")
  /\ \/ ListenerDone(c) /\ SetConn(c, Ended(Took(c)))
     \/ /\ ~ListenerDone(c) /\ ReducerTaskDone(c)
        /\ SetConn(c, Ended(Answer(conn[c], "SUCCESS")))
  /\ UNCHANGED faults

-----------------------------------------------------------------------------
(* Reducers, as far as their connections show (the ReducerServer module    *)
(* has the inside): they register, acknowledge a job, publish its results, *)
(* and open a new connection for the next job.                             *)

Register ==
  /\ Up /\ Len(conn) < MaxConns
  /\ Cardinality({c \in DOMAIN conn : ~conn[c].eof}) < NumReducers
  /\ conn' = Append(conn, [ph |-> "JOB_CONFIG", job |-> NoJob, inq |-> <<>>, outq |-> <<>>,
                           toRed |-> <<>>, acks |-> 0, eof |-> FALSE, published |-> FALSE])
  /\ connQ' = Append(connQ, Len(conn'))
  /\ UNCHANGED <<db, loops, jobsMem, faults>>

\* The reducer handles a message: it sets the job up, or publishes; it answers
\* with a byte, and leaves once it has published.
ReducerHandles(c) ==
  LET msg == Head(conn[c].toRed) IN
  /\ ~conn[c].eof /\ conn[c].toRed # <<>>
  /\ SetConn(c, [conn[c] EXCEPT !.toRed = Tail(@), !.acks = @ + 1,
                                !.published = (msg = "done"), !.eof = (msg = "done")])
  /\ UNCHANGED faults

\* It sees the handler close the connection.
ReducerReleased(c) ==
  /\ ~conn[c].eof /\ conn[c].ph = "ended" /\ conn[c].toRed = <<>>
  /\ SetConn(c, [conn[c] EXCEPT !.eof = TRUE])
  /\ UNCHANGED faults

\* It fails, or its publication does: the connection closes without an answer.
ReducerDies(c) ==
  /\ ~conn[c].eof
  /\ Fault("reducerDies")
  /\ SetConn(c, [conn[c] EXCEPT !.eof = TRUE, !.toRed = <<>>])

-----------------------------------------------------------------------------

Clients == \E j \in Jobs : SubmitJob(j) \/ CancelSearchJob(j)

Workers(t) == StartTask(t) \/ WriteStream(t) \/ RecordTask(t) \/ ReturnResult(t) \/ Revoke(t)
WorkerFaults(t) == TaskRaises(t) \/ WorkerLost(t)

MainLoop ==
  \/ FetchPending \/ AllTaken \/ EndPoll
  \/ \E j \in Jobs : \/ NewSearchJob(j) \/ NewExtractionJob(j) \/ DispatchExtraction(j)
                     \/ MarkExtraction(j) \/ BeginSearch(j) \/ SubmitSubJob(j)

UpdateLoop ==
  \/ BeginPass \/ FinishCancel \/ Resume \/ BeginCheck \/ ReducerAnswered \/ EndPass
  \/ \E j \in Jobs : \/ CancelJob(j) \/ CheckNotReady(j) \/ CheckRaised(j) \/ SearchGoesOn(j)
                     \/ FinishSearch(j) \/ AwaitReducer(j) \/ FinishExtraction(j)

Acquisition(j) == TakeConnection(j) \/ ConnectionAnswered(j)
Handler(c) == WaitForConfig(c) \/ WaitForConfigAck(c) \/ WaitForWorkers(c) \/ WaitForReducer(c)
Reducer(c) == ReducerHandles(c) \/ ReducerReleased(c)

Next ==
  \/ Clients \/ Boot \/ Crash \/ Exit \/ MainLoop \/ UpdateLoop \/ Register
  \/ \E t \in DOMAIN task : Workers(t) \/ WorkerFaults(t)
  \/ \E j \in Jobs : Acquisition(j)
  \/ \E c \in DOMAIN conn : Handler(c) \/ Reducer(c) \/ ReducerDies(c)

MaxTasks == MaxArchives * Cardinality(Jobs) + 1

\* asyncio runs every coroutine that is ready in turn, so a coroutine that can
\* go on again and again does; workers and reducers that are not hit by a fault
\* keep working.
Fairness ==
  /\ WF_vars(Boot) /\ WF_vars(Register)
  /\ SF_vars(MainLoop) /\ SF_vars(UpdateLoop)
  /\ \A j \in Jobs : SF_vars(Acquisition(j))
  /\ \A c \in 1..MaxConns : /\ SF_vars(c \in DOMAIN conn /\ Handler(c))
                            /\ WF_vars(c \in DOMAIN conn /\ Reducer(c))
  /\ \A t \in 1..MaxTasks : WF_vars(t \in DOMAIN task /\ Workers(t))

Spec == Init /\ [][Next]_vars
FairSpec == Spec /\ Fairness

-----------------------------------------------------------------------------
(* Properties. *)

Msgs == {"SUCCESS", "FAILURE", "AGGREGATION_CONFIG"}
JobRecs == [st : {"none", "WAITING_FOR_REDUCER", "WAITING_FOR_DISPATCH", "RUNNING"},
            todo : 0..MaxArchives, sub : SUBSET (1..MaxTasks), red : 0..MaxConns,
            begun : BOOLEAN]

\* Types of the state.
TypeOK ==
  /\ \A j \in Jobs : /\ job[j].status \in JobStatus /\ job[j].num \in 0..MaxArchives
                     /\ acq[j].ph \in {"none", "get", "wait"} /\ acq[j].conn \in 0..Len(conn)
  /\ \A t \in DOMAIN task : /\ task[t].job \in Jobs /\ task[t].status \in TaskStatus
                            /\ task[t].w \in WorkerPhases /\ task[t].rev \in BOOLEAN
  /\ extracted \subseteq Streams /\ DOMAIN waiting \subseteq Streams
  /\ main \in {"down", "exited", "idle", "new", "mark", "dispatch"}
  /\ upd \in {"idle", "cancel", "revoked", "yield", "check", "await"}
  /\ fetched \cup toDispatch \cup updList \cup DOMAIN active \subseteq Jobs
  /\ \A j \in DOMAIN active : active[j] \in JobRecs
  /\ toDispatch \subseteq DOMAIN active
  /\ upd = "check" => updList \subseteq DOMAIN active
  /\ \A c \in DOMAIN conn : /\ conn[c].ph \in WaitStates \cup {"ended"}
                            /\ ToSet(conn[c].inq \o conn[c].outq) \subseteq Msgs
                            /\ Len(conn[c].inq) <= 3 /\ Len(conn[c].outq) <= 2

OkTasks(j) == {t \in TasksOf(j) : task[t].w = "ok"}

\* A search that the row calls SUCCEEDED searched every archive it counted in
\* num_tasks, over all its sub-jobs, and no task of it failed; one that asked for
\* the latest results may stop early.
SucceededIsSearched ==
  \A j \in Jobs : job[j].status = "SUCCEEDED" /\ IsSearch(j) =>
    /\ OkTasks(j) = TasksOf(j)
    /\ job[j].type # "latest" => Cardinality(OkTasks(j)) >= job[j].num

\* No archive of a search is dispatched twice, however long the job waits for a
\* reducer, however often it is polled, and across restarts.
DispatchedOnce ==
  \A j \in Jobs : IsSearch(j) /\ job[j].num > 0 => Cardinality(TasksOf(j)) <= job[j].num

\* While the scheduler runs, each RUNNING row is one it will end: the job is
\* active, or in the list of jobs that wait for an extraction.
RunningIsTracked ==
  \A j \in Jobs : Up /\ job[j].status = "RUNNING" =>
    j \in DOMAIN active \/ \E s \in DOMAIN waiting : Contains(waiting[s], j)

\* Without faults, an extraction job is not SUCCEEDED on the strength of the first
\* stream of an extraction that is still under way.
ExtractionIsWhole ==
  \A j \in Jobs : faults.had = {} /\ job[j].status = "SUCCEEDED" /\ job[j].type = "extract" =>
    \A t \in DOMAIN task : job[task[t].job].stream = job[j].stream => task[t].w \in Done

Holds(j, c) ==
  \/ acq[j].ph = "wait" /\ acq[j].conn = c
  \/ j \in DOMAIN active /\ active[j].red = c
  \/ updJob.job = j /\ updJob.rec.red = c

\* Every reducer the scheduler took for a job is released on every way out of the
\* job: a handler that is past the queue either has one job that holds it, or a
\* message that will end it, or a reducer that already left.
ReducersAreReleased ==
  \A c \in DOMAIN conn :
    /\ \A j, k \in Jobs : Holds(j, c) /\ Holds(k, c) => j = k
    /\ Up /\ conn[c].ph \in WaitStates /\ ~Contains(connQ, c) =>
         (\E j \in Jobs : Holds(j, c)) \/ conn[c].inq # <<>> \/ ReducerTaskDone(c)

\* An aggregation that the row calls SUCCEEDED has its results published, unless
\* a reducer failed.
SucceededIsPublished ==
  \A j \in Jobs :
    job[j].status = "SUCCEEDED" /\ job[j].type = "agg" /\ job[j].num > 0
      /\ "reducerDies" \notin faults.had =>
    \E c \in DOMAIN conn : conn[c].job = j /\ conn[c].published

\* What SUCCEEDED means to the client, whatever failed or was restarted on the way:
\* every archive was searched, an aggregation is published, an extraction is over.
SucceededIsWhole == SucceededIsSearched /\ SucceededIsPublished /\ ExtractionIsWhole

\* No RUNNING row and no reducer is forgotten by the scheduler's two tasks.
NothingIsForgotten == TypeOK /\ RunningIsTracked /\ ReducersAreReleased

\* The jobs table, as clients see it, follows the abstract life of a job: in
\* particular no terminal status is ever overwritten, although the final write of
\* a search is unconditional.
RefinesTable == Table!TableSpec

\* The faults the scheduler has no answer to: it exits, a result never comes, or
\* a handler ends without answering.
Unanswered == faults.had \cap {"exit", "workerLost", "sendFails", "extractRaises"} # {}

\* A submitted job ends, or a client asked to cancel it, through task failures,
\* reducer failures and restarts.
JobSettles ==
  \A j \in Jobs : job[j].status \in {"PENDING", "RUNNING"} ~>
    job[j].status \in Terminal \cup {"CANCELLING"} \/ Unanswered

\* A cancelled job that the scheduler has taken ends, unless the scheduler lost
\* it: in a crash, or when a task of it raised just before the request was seen.
CancelSettles ==
  \A j \in Jobs : job[j].status = "CANCELLING" /\ j \in DOMAIN active ~>
    job[j].status \in Terminal \/ faults.had \cap {"crash", "taskRaises"} # {} \/ Unanswered

\* A reducer that a job took comes back.
ReducerComesBack ==
  \A c \in 1..MaxConns :
    c \in DOMAIN conn /\ conn[c].job # NoJob ~> (c \in DOMAIN conn /\ conn[c].eof) \/ Unanswered

\* Jobs end, cancelled ones too, and reducers come back, through every failure the
\* scheduler has an answer to.
QueriesSettle == JobSettles /\ CancelSettles /\ ReducerComesBack

=============================================================================
