----------------------------- MODULE LogIngestorSteps -----------------------------
(***************************************************************************)
(* The inductive invariant of LogIngestor, what each kind of step touches, and*)
(* the proofs that every step keeps the part about the life of job         *)
(* instances (LifeInv) and the part about scans (ScanInv).                 *)
(***************************************************************************)
EXTENDS LogIngestor, TLAPS

\* No task of the job's instance runs.
NoTask(j) == \A w \in Workers : JobOf[w] = j => wpc[w] = "none"

\* A job that from_config still has to recover: nobody registers it, it has no
\* instance, and its status is the one it was loaded with, until it is created.
RecoveryInv ==
    \A j \in Jobs : rec[j] # "none" =>
        /\ up
        /\ reg[j] = "none"
        /\ j \notin table
        /\ NoTask(j)
        /\ rec[j] \in {"requested", "running"} => jstatus[j] = rec[j]
        /\ rec[j] = "create" => jstatus[j] \in {"requested", "running"}
        /\ rec[j] = "inactive" => jstatus[j] \in {"failed", "finished"}

\* A job inside register_and_create_s3_ingestion_job has no instance yet.
RegistrationInv ==
    \A j \in Jobs : reg[j] # "none" =>
        /\ up
        /\ j \notin table
        /\ NoTask(j)
        /\ jstatus[j] \in {"requested", "running", "failed"}
        /\ reg[j] = "create" => jstatus[j] # "running"

\* Instances and tasks exist only in a running process, and only for jobs that
\* are running or failed.
InstanceInv ==
    /\ \A j \in table : jstatus[j] \in {"running", "failed"}
    /\ \A w \in Workers : wpc[w] # "none" => jstatus[JobOf[w]] \in {"running", "failed"}
    /\ ~up => table = {} /\ \A w \in Workers : wpc[w] = "none"

\* A shutdown request that took a job's entry out of job_table: nothing puts it
\* back, and once its tasks are joined none runs again.
RequestOk(q) ==
    /\ Serving
    /\ rjob[q] \in Jobs
    /\ rpc[q] \in {"join", "listener", "status", "end"} =>
          /\ rjob[q] \notin table
          /\ reg[rjob[q]] = "none"
          /\ jstatus[rjob[q]] \in {"running", "failed", "finished"}
    /\ rpc[q] \in {"listener", "status", "end"} => NoTask(rjob[q])

\* Every request under way is in such a state.
RequestInv == \A q \in Requests : rpc[q] # "free" => RequestOk(q)

\* How the job manager, the instances and the statuses of the jobs fit together.
LifeInv == RecoveryInv /\ RegistrationInv /\ InstanceInv /\ RequestInv

\* A scanner's page starts right after its cursor, which is the persisted key
\* until the page is committed and the end of the page afterwards.
ScanTask(w) ==
    /\ wpc[w] # "delete"
    /\ wpc[w] \in {"fetch", "ingest"} => cursor[JobOf[w]] = last_key[JobOf[w]]
    /\ wpc[w] = "ingest" =>
          \E k \in Keys : /\ wkeys[w] = ((cursor[JobOf[w]] + 1)..k) \cap Relevant
                          /\ wkeys[w] # {}
    /\ wpc[w] = "send" => wkeys[w] # {} /\ Last(wkeys[w]) = last_key[JobOf[w]]

\* A scanner's cursor, in memory, and its last_ingested_key, in the DB, agree
\* whenever a page is listed; recovery resumes at the persisted key.
ScanInv ==
    /\ \A j \in Jobs : Kind[j] = "scanner" =>
        /\ jstatus[j] \in {"absent", "requested"} \/ reg[j] # "none" => last_key[j] = 0
        /\ rec[j] \in {"requested", "running", "create"} => cursor[j] = last_key[j]
    /\ \A w \in Workers : Kind[JobOf[w]] = "scanner" => ScanTask(w)

\* Every place holds rows of its own job; no empty batch is submitted.
OwnInv ==
    /\ \A w \in Workers : \A r \in wrows[w] : r[1] = JobOf[w]
    /\ \A j \in Jobs : \A m \in chan[j] : \A r \in m : r[1] = j
    /\ \A j \in Jobs : \A r \in buf[j] : r[1] = j
    /\ \A R \in subs : \A r, s \in R : r[1] = s[1]
    /\ {} \notin subs

\* The places where a row waits: a task, a channel, a buffer, a coroutine.
InTask(r) == \E w \in Workers : r \in wrows[w]
\* It is in a message of its job's channel.
InChannel(r) == \E m \in chan[r[1]] : r \in m
\* It is in its job's buffer.
InBuffer(r) == r \in buf[r[1]]
\* It is in the batch of a coroutine that will submit it.
InSubmission(r) == \E R \in subs : r \in R
\* Recovery has not refilled the job's buffer yet.
Unloaded(j) == ~up \/ rec[j] \in {"requested", "running", "inactive"}

\* A row waits in places of one kind only, as a `buffered` one, and nowhere
\* outside tasks before recovery has refilled its job's buffer.
Placed(r) ==
    /\ InTask(r) \/ InChannel(r) \/ InBuffer(r) \/ InSubmission(r) => rstatus[r] = "buffered"
    /\ InTask(r) => ~InChannel(r) /\ ~InBuffer(r) /\ ~InSubmission(r)
    /\ InChannel(r) => ~InBuffer(r) /\ ~InSubmission(r)
    /\ InBuffer(r) => ~InSubmission(r)
    /\ Unloaded(r[1]) => ~InChannel(r) /\ ~InBuffer(r) /\ ~InSubmission(r)

\* Among places of one kind, it waits in one; a task has rows only to send them.
SingleInv ==
    /\ \A v, w \in Workers : \A r \in wrows[v] : r \in wrows[w] => v = w
    /\ \A j \in Jobs : \A m, n \in chan[j] : \A r \in m : r \in n => m = n
    /\ \A R, S \in subs : \A r \in R : r \in S => R = S
    /\ \A w \in Workers : \A r \in wrows[w] : wpc[w] = "send"

\* Every row is where it may be.
PlaceInv == \A r \in Rows : Placed(r)

\* Where rows wait: the inductive form of HeldOnce.
HoldInv == OwnInv /\ SingleInv /\ PlaceInv

\* The rows of a compression job.
With(c) == {r \in Rows : rcjob[r] = c}

\* A row has a compression job exactly from its submission on, the rows of one
\* compression job share their ingestion job and status, and whoever waits for it
\* knows how many they are.
CountInv ==
    /\ \A r \in Rows : rstatus[r] \in {"absent", "buffered"} <=> rcjob[r] = NoCompression
    /\ \A r \in Rows : rcjob[r] # NoCompression => cstatus[rcjob[r]] # "absent"
    /\ \A r, s \in Rows : rcjob[r] = rcjob[s] /\ rcjob[r] # NoCompression =>
          r[1] = s[1] /\ rstatus[r] = rstatus[s]
    /\ \A p \in waiters : /\ With(p[1]) # {}
                          /\ \A r \in With(p[1]) : rstatus[r] = "submitted"
                          /\ p[2] = Cardinality(With(p[1]))

\* The tasks that are about to record key k.
Ingesting(j, k) == {w \in Workers : JobOf[w] = j /\ wpc[w] = "ingest" /\ k \in wkeys[w]}
\* The n-th row of key k exists.
Recorded(j, k, n) == rstatus[<<j, k, n>>] # "absent"
\* Every task that still has the message of key k has failed.
AllFailed(j, k) == \A w \in Workers : JobOf[w] = j /\ k \in wkeys[w] => wpc[w] = "fail"

\* The messages of a task announce existing objects, and those it may delete are
\* recorded.
SqsTask(w) ==
    /\ wkeys[w] \subseteq 1..objects
    /\ wpc[w] \in {"none", "fetch"} => wkeys[w] = {}
    /\ wpc[w] \in {"send", "delete"} =>
          \A k \in wkeys[w] \cap Relevant : \E n \in Copies : Recorded(JobOf[w], k, n)

\* The rows of a key and the tasks that will add one are at most one more than
\* the faults; and, once all tasks that had the message failed, at most as many.
SqsKey(j, k) ==
    /\ \A n \in Copies : Recorded(j, k, n) => k <= objects
    /\ Cardinality(Ingesting(j, k)) <= 1 + faults
    /\ \A n \in Copies : Recorded(j, k, n) => n + Cardinality(Ingesting(j, k)) <= 1 + faults
    /\ k \in queue[j] /\ AllFailed(j, k) => \A n \in Copies : Recorded(j, k, n) => n <= faults
    /\ k \in Relevant /\ k <= objects /\ k \notin queue[j] => \E n \in Copies : Recorded(j, k, n)

\* The inductive form of SqsIngestsOnce.
SqsInv ==
    /\ \A j \in Jobs : Kind[j] = "sqs" => /\ queue[j] \subseteq 1..objects
                                          /\ \A k \in Keys : SqsKey(j, k)
    /\ \A w \in Workers : Kind[JobOf[w]] = "sqs" => SqsTask(w)

\* The inductive invariant of the log ingestor.
LIInv ==
    /\ TypeOK /\ LifeInv /\ ScanInv /\ ScannedExactlyOnce /\ HoldInv
    /\ CountInv /\ CompressedCount /\ TimerArmed /\ SqsInv

-----------------------------------------------------------------------------
\* What a step of task w may touch: its own place in the loop, page and rows, the
\* cursor and last key of its own scan, and its job's status when it fails.
TaskEffect(w) ==
    /\ wpc[w] # "none"
    /\ UNCHANGED <<up, rec, reg, table, rpc, rjob>>
    /\ UNCHANGED <<num_compressed, rcjob, cstatus, lst, buf, timer, subs, waiters>>
    /\ jstatus' = jstatus \/ jstatus' = [jstatus EXCEPT ![JobOf[w]] = "failed"]
    /\ \E pc : wpc' = [wpc EXCEPT ![w] = pc]
    /\ wkeys' = wkeys \/ \E K : wkeys' = [wkeys EXCEPT ![w] = K]
    /\ wrows' = wrows \/ \E R : wrows' = [wrows EXCEPT ![w] = R]
    /\ cursor' = cursor
       \/ (Kind[JobOf[w]] = "scanner" /\ \E k : cursor' = [cursor EXCEPT ![JobOf[w]] = k])
    /\ last_key' = last_key
       \/ (Kind[JobOf[w]] = "scanner" /\ \E k : last_key' = [last_key EXCEPT ![JobOf[w]] = k])
    /\ rstatus' = rstatus
       \/ \E K : rstatus' = [r \in Rows |-> IF r \in FreshRows(JobOf[w], K)
                                           THEN "buffered" ELSE rstatus[r]]
    /\ objects' = objects
    /\ queue' = queue \/ \E Q : queue' = [queue EXCEPT ![JobOf[w]] = @ \ Q]
    /\ faults' = faults \/ faults' = faults + 1

\* Every step of a task is of that form: tasks change the DB, their queue and
\* their channel, never the manager's or another task's state.
LEMMA TaskEffects ==
    ASSUME NEW w \in Workers, TaskStep(w) \/ TaskFault(w)
    PROVE  TaskEffect(w)
<1> USE DEF TaskEffect, db, ext, reqs, mgr, tasks, listeners, coroutines, NoFault, Fault
<1>1. CASE ScanPage(w)
  BY Zenon, <1>1 DEF ScanPage, Fetching, Goto
<1>2. CASE ReceiveMessages(w)
  BY Zenon, <1>2 DEF ReceiveMessages, Fetching, Goto
<1>3. CASE Ingest(w)
  BY Zenon, <1>3 DEF Ingest, RecordObjects, Goto
<1>4. CASE SendRows(w)
  BY Zenon, <1>4 DEF SendRows, Goto
<1>5. CASE DeleteMessages(w)
  BY Zenon, <1>5 DEF DeleteMessages, Goto
<1>6. CASE CancelTask(w)
  BY Zenon, <1>6 DEF CancelTask, CancellationPoints, EndTask, Goto
<1>7. CASE FailTask(w)
  BY Zenon, <1>7 DEF FailTask, EndTask, Goto, UpdateJobStatus
<1>8. CASE FetchFails(w)
  BY Zenon, <1>8 DEF FetchFails, Fetching, Goto
<1>9. CASE IngestFails(w)
  BY Zenon, <1>9 DEF IngestFails, RecordObjects, Goto
<1>10. CASE DeleteFails(w)
  BY Zenon, <1>10 DEF DeleteFails, Goto
<1> QED
  BY Zenon, <1>1, <1>2, <1>3, <1>4, <1>5, <1>6, <1>7, <1>8, <1>9, <1>10 DEF TaskStep, TaskFault

\* So another task, and another job's scan, stay as they are.
LEMMA TaskIsLocal ==
    ASSUME TypeOK, NEW w \in Workers, TaskEffect(w)
    PROVE  /\ \A v \in Workers : v # w => /\ wpc'[v] = wpc[v]
                                          /\ wkeys'[v] = wkeys[v]
                                          /\ wrows'[v] = wrows[v]
           /\ \A j \in Jobs : j # JobOf[w] \/ Kind[j] = "sqs" =>
                                cursor'[j] = cursor[j] /\ last_key'[j] = last_key[j]
           /\ \A j \in Jobs : j # JobOf[w] => jstatus'[j] = jstatus[j]
<1>1. \A v \in Workers : v # w => wpc'[v] = wpc[v]
  BY DEF TypeOK, TaskEffect
<1>2. \A v \in Workers : v # w => wkeys'[v] = wkeys[v]
  BY DEF TypeOK, TaskEffect
<1>3. \A v \in Workers : v # w => wrows'[v] = wrows[v]
  BY DEF TypeOK, TaskEffect
<1>4. \A j \in Jobs : j # JobOf[w] \/ Kind[j] = "sqs" => cursor'[j] = cursor[j]
  BY DEF TypeOK, TaskEffect
<1>5. \A j \in Jobs : j # JobOf[w] \/ Kind[j] = "sqs" => last_key'[j] = last_key[j]
  BY DEF TypeOK, TaskEffect
<1>6. \A j \in Jobs : j # JobOf[w] => jstatus'[j] = jstatus[j]
  BY DEF TypeOK, TaskEffect
<1> QED BY <1>1, <1>2, <1>3, <1>4, <1>5, <1>6, Zenon

\* What the rest of a shutdown request may touch: its own progress, the listener
\* and the status of its job.
RequestEffect(q) ==
    /\ rpc[q] # "free"
    /\ UNCHANGED <<up, rec, reg, table, rjob>>
    /\ UNCHANGED <<wpc, wkeys, wrows, cursor, last_key, rstatus, num_compressed>>
    /\ UNCHANGED <<rcjob, cstatus, objects, queue, chan, buf, timer, subs, waiters>>
    /\ \/ jstatus' = jstatus
       \/ jstatus' = [jstatus EXCEPT ![rjob[q]] = "failed"]
       \/ rpc[q] = "end" /\ jstatus' = [jstatus EXCEPT ![rjob[q]] = "finished"]
    /\ faults' = faults \/ faults' = faults + 1

\* Every step of a request after its first is of that form.
LEMMA RequestEffects ==
    ASSUME NEW q \in Requests, RequestStep(q)
    PROVE  RequestEffect(q)
<1> USE DEF RequestEffect, db, ext, reqs, mgr, tasks, listeners, coroutines
<1>1. CASE JoinInstance(q)
  BY Zenon, <1>1 DEF JoinInstance, NoFault
<1>2. CASE JoinListener(q)
  BY Zenon, <1>2 DEF JoinListener, NoFault
<1>3. CASE CheckBeforeEnd(q)
  BY Zenon, <1>3 DEF CheckBeforeEnd, NoFault
<1>4. CASE EndJob(q)
  BY Zenon, <1>4 DEF EndJob, NoFault, UpdateJobStatus
<1>5. CASE LookUpStatus(q)
  BY Zenon, <1>5 DEF LookUpStatus, NoFault
<1>6. CASE TryFail(q)
  BY Zenon, <1>6 DEF TryFail, NoFault, UpdateJobStatus
<1>7. CASE RequestFails(q)
  BY Zenon, <1>7 DEF RequestFails, Fault, UpdateJobStatus
<1> QED
  BY Zenon, <1>1, <1>2, <1>3, <1>4, <1>5, <1>6, <1>7 DEF RequestStep

\* What a listener may touch: its channel and buffer and the coroutines it starts.
ListenerEffect(j) ==
    /\ UNCHANGED <<jstatus, up, rec, reg, table, rpc, rjob>>
    /\ UNCHANGED <<wpc, wkeys, wrows, cursor, last_key, rstatus, num_compressed>>
    /\ UNCHANGED <<rcjob, cstatus, objects, queue, waiters, faults>>

\* Every step of a listener is of that form.
LEMMA ListenerEffects ==
    ASSUME NEW j \in Jobs, ListenerStep(j)
    PROVE  ListenerEffect(j)
<1> USE DEF ListenerEffect, db, ext, reqs, mgr, tasks, listeners, coroutines, NoFault
<1>1. CASE ReceiveEntries(j)
  BY Zenon, <1>1 DEF ReceiveEntries
<1>2. CASE TimerFires(j)
  BY Zenon, <1>2 DEF TimerFires
<1>3. CASE ListenerCancelled(j)
  BY Zenon, <1>3 DEF ListenerCancelled, EndListener
<1>4. CASE ListenerClosed(j)
  BY Zenon, <1>4 DEF ListenerClosed, EndListener
<1> QED
  BY Zenon, <1>1, <1>2, <1>3, <1>4 DEF ListenerStep

\* A step of S3, the cluster, or a submitting or waiting coroutine.
OutsideStep ==
    \/ PutObject
    \/ \E c \in CompressionIds : CompressionEnds(c)
    \/ \E R \in subs, c \in CompressionIds : SubmitForCompression(R, c) \/ SubmitFails(R, c)
    \/ \E p \in waiters : WaitForCompression(p[1], p[2]) \/ WaitFails(p[1], p[2])
    \/ UNCHANGED vars

\* S3, the cluster and the coroutines leave the manager, the tasks and the
\* listeners alone.
LEMMA OutsideEffects ==
    OutsideStep => UNCHANGED <<jstatus, up, rec, reg, table, rpc, rjob, wpc, wkeys, wrows, cursor,
                               last_key, chan, buf, timer>>
<1> USE DEF db, ext, reqs, mgr, tasks, listeners, coroutines
<1>1. CASE PutObject
  BY <1>1 DEF PutObject
<1>2. ASSUME NEW c \in CompressionIds, CompressionEnds(c)
      PROVE  UNCHANGED <<jstatus, up, rec, reg, table, rpc, rjob, wpc, wkeys, wrows, cursor,
                         last_key, chan, buf, timer>>
  BY <1>2, Zenon DEF CompressionEnds
<1>3. ASSUME NEW R \in subs, NEW c \in CompressionIds,
             SubmitForCompression(R, c) \/ SubmitFails(R, c)
      PROVE  UNCHANGED <<jstatus, up, rec, reg, table, rpc, rjob, wpc, wkeys, wrows, cursor,
                         last_key, chan, buf, timer>>
  BY <1>3, Zenon DEF SubmitForCompression, SubmitFails
<1>4. ASSUME NEW p \in waiters, WaitForCompression(p[1], p[2]) \/ WaitFails(p[1], p[2])
      PROVE  UNCHANGED <<jstatus, up, rec, reg, table, rpc, rjob, wpc, wkeys, wrows, cursor,
                         last_key, chan, buf, timer>>
  BY <1>4 DEF WaitForCompression, WaitFails
<1>5. CASE UNCHANGED vars
  BY <1>5 DEF vars
<1> QED BY Zenon, <1>1, <1>2, <1>3, <1>4, <1>5 DEF OutsideStep

\* The kinds of steps the proofs distinguish.
LEMMA StepKinds ==
    ASSUME [Next]_vars
    PROVE  \/ OutsideStep \/ Crash \/ Boot
           \/ \E j \in Jobs : \/ RegisterJob(j) \/ CreateInstance(j) \/ RegisterFails(j)
                              \/ RefillBuffer(j) \/ RecoverInstance(j) \/ LoadFails(j)
                              \/ ListenerStep(j)
           \/ \E q \in Requests : RequestStep(q) \/ \E j \in Jobs : ShutdownRequest(q, j)
           \/ \E w \in Workers : TaskStep(w) \/ TaskFault(w)
  BY Zenon DEF Next, RegisterStep, RecoveryStep, SubmitStep, WaitStep, OutsideStep

-----------------------------------------------------------------------------
(***************************************************************************)
(* What the job manager touches                                            *)
(***************************************************************************)

\* Rows stay where they are, and so do messages and results.
Resting ==
    /\ UNCHANGED <<rstatus, rcjob, num_compressed, cstatus, waiters, wrows, chan, buf, subs>>
    /\ UNCHANGED <<last_key, wkeys, objects, queue, timer, up>>
    /\ faults' = faults \/ faults' = faults + 1

\* A step of the job manager or of one of its requests.
ManagerStep ==
    \/ \E j \in Jobs : \/ RegisterJob(j) \/ CreateInstance(j) \/ RegisterFails(j)
                       \/ RecoverInstance(j) \/ LoadFails(j)
    \/ \E q \in Requests : RequestStep(q) \/ \E j \in Jobs : ShutdownRequest(q, j)

\* It moves no row.
LEMMA ManagerMovesNothing == ManagerStep => Resting
<1> USE DEF Resting, db, ext, reqs, mgr, tasks, listeners, coroutines, NoFault, Fault
<1>1. ASSUME NEW j \in Jobs, RegisterJob(j) PROVE Resting
  BY Zenon, <1>1 DEF RegisterJob
<1>2. ASSUME NEW j \in Jobs, CreateInstance(j) PROVE Resting
  BY Zenon, <1>2 DEF CreateInstance, SpawnInstance
<1>3. ASSUME NEW j \in Jobs, RegisterFails(j) PROVE Resting
  BY Zenon, <1>3 DEF RegisterFails
<1>4. ASSUME NEW j \in Jobs, RecoverInstance(j) PROVE Resting
  BY Zenon, <1>4 DEF RecoverInstance, SpawnInstance
<1>5. ASSUME NEW j \in Jobs, LoadFails(j) PROVE Resting
  BY Zenon, <1>5 DEF LoadFails
<1>6. ASSUME NEW q \in Requests, RequestStep(q) PROVE Resting
  BY Zenon, <1>6, RequestEffects DEF RequestEffect
<1>7. ASSUME NEW q \in Requests, NEW j \in Jobs, ShutdownRequest(q, j) PROVE Resting
  BY Zenon, <1>7 DEF ShutdownRequest
<1> QED BY Zenon, <1>1, <1>2, <1>3, <1>4, <1>5, <1>6, <1>7 DEF ManagerStep

\* Running tasks stay as they are, others may start; no job is unloaded.
Undisturbed ==
    /\ \A w \in Workers : wpc[w] # "none" => wpc'[w] = wpc[w]
    /\ \A w \in Workers : wpc[w] = "none" => wpc'[w] \in {"none", "fetch"}
    /\ \A j \in Jobs : Unloaded(j)' => Unloaded(j)

\* It starts tasks only for a job that has none.
LEMMA SpawnDisturbsNone ==
    ASSUME TypeOK, LifeInv, NEW j \in Jobs, NEW k, SpawnInstance(j, k),
           reg[j] # "none" \/ rec[j] # "none"
    PROVE  /\ \A w \in Workers : wpc[w] # "none" => wpc'[w] = wpc[w]
           /\ \A w \in Workers : wpc[w] = "none" => wpc'[w] \in {"none", "fetch"}
<1>1. NoTask(j)
  BY DEF LifeInv, RecoveryInv, RegistrationInv
<1>2. wpc' = [w \in Workers |-> IF JobOf[w] = j THEN "fetch" ELSE wpc[w]]
  BY DEF SpawnInstance
<1> QED BY <1>1, <1>2 DEF NoTask

\* Registration, recovery and shutdown never disturb a running task.
LEMMA ManagerDisturbsNone == TypeOK /\ LifeInv /\ ManagerStep => Undisturbed
<1> SUFFICES ASSUME TypeOK, LifeInv, ManagerStep PROVE Undisturbed
  OBVIOUS
<1> USE DEF tasks, mgr
<1>1. ASSUME NEW j \in Jobs, RegisterJob(j) \/ RegisterFails(j) PROVE Undisturbed
  <2>1. UNCHANGED <<up, rec, wpc>>
    BY <1>1, Zenon DEF RegisterJob, RegisterFails
  <2> QED BY <2>1, Zenon DEF Undisturbed, Unloaded
<1>2. ASSUME NEW j \in Jobs, CreateInstance(j) PROVE Undisturbed
  <2>1. reg[j] = "create" /\ up' = up /\ rec' = rec
    BY Zenon, <1>2 DEF CreateInstance
  <2>2. SpawnInstance(j, 0) \/ wpc' = wpc
    BY Zenon, <1>2 DEF CreateInstance
  <2> QED BY <2>1, <2>2, SpawnDisturbsNone DEF Undisturbed, Unloaded
<1>3. ASSUME NEW j \in Jobs, RecoverInstance(j) PROVE Undisturbed
  <2>1. rec[j] = "create" /\ up' = up /\ rec' = [rec EXCEPT ![j] = "none"]
    BY Zenon, <1>3 DEF RecoverInstance
  <2>2. SpawnInstance(j, cursor[j]) \/ wpc' = wpc
    BY Zenon, <1>3 DEF RecoverInstance
  <2>3. \A i \in Jobs : Unloaded(i)' => Unloaded(i)
    BY <2>1 DEF Unloaded, TypeOK
  <2> QED BY <2>1, <2>2, <2>3, SpawnDisturbsNone DEF Undisturbed
<1>4. ASSUME NEW j \in Jobs, LoadFails(j) PROVE Undisturbed
  <2>1. rec[j] = "running" /\ up' = up /\ wpc' = wpc
    BY Zenon, <1>4 DEF LoadFails
  <2>2. rec' = [rec EXCEPT ![j] = "inactive"] \/ rec' = [rec EXCEPT ![j] = "none"]
    BY Zenon, <1>4 DEF LoadFails
  <2>3. \A i \in Jobs : Unloaded(i)' => Unloaded(i)
    BY <2>1, <2>2 DEF Unloaded, TypeOK
  <2> QED BY <2>1, <2>3 DEF Undisturbed
<1>5. ASSUME NEW q \in Requests, RequestStep(q) PROVE Undisturbed
  BY Zenon, <1>5, RequestEffects DEF RequestEffect, Undisturbed, Unloaded
<1>6. ASSUME NEW q \in Requests, NEW j \in Jobs, ShutdownRequest(q, j) PROVE Undisturbed
  BY Zenon, <1>6 DEF ShutdownRequest, Undisturbed, Unloaded
<1> QED BY Zenon, <1>1, <1>2, <1>3, <1>4, <1>5, <1>6 DEF ManagerStep

\* A row is its job, key and copy.
LEMMA RowParts ==
    \A r \in Rows : /\ r[1] \in Jobs /\ r[2] \in Keys /\ r[3] \in Copies
                    /\ r = <<r[1], r[2], r[3]>>
  BY DEF Rows

\* A result is recorded only for rows that were submitted before.
LEMMA ResultKeepsBuffered ==
    ASSUME TypeOK, CountInv, NEW c \in CompressionIds, NEW n,
           rstatus' = rstatus \/ RecordCompressionResult(c, n)
    PROVE  /\ \A r \in Rows : rstatus[r] = "buffered" <=> rstatus'[r] = "buffered"
           /\ \A r \in Rows : rstatus[r] = "absent" <=> rstatus'[r] = "absent"
<1>1. \A r \in Rows : rcjob[r] = c => rstatus[r] \notin {"absent", "buffered"}
  BY NullAssumption DEF CountInv
<1>2. CASE rstatus' = rstatus
  BY <1>2
<1>3. CASE rstatus' = [r \in Rows |->
                         IF r \notin {s \in Rows : rcjob[s] = c} THEN rstatus[r]
                         ELSE IF cstatus[c] = "succeeded" THEN "compressed" ELSE "failed"]
  BY <1>1, <1>3, Zenon
<1> QED BY <1>2, <1>3, Zenon DEF RecordCompressionResult

-----------------------------------------------------------------------------
\* LifeInv reads only the variables of the job manager, the statuses of the jobs
\* and whether a task runs.
LEMMA LifeFrame ==
    LifeInv /\ UNCHANGED <<jstatus, up, rec, reg, table, rpc, rjob, wpc>> => LifeInv'
  BY DEF LifeInv, RecoveryInv, RegistrationInv, InstanceInv, RequestInv, RequestOk, Serving, NoTask

\* A step of a running task, which may mark its job failed.
LEMMA LifeOfTask ==
    ASSUME TypeOK, LifeInv, NEW w \in Workers, NEW pc, wpc[w] # "none",
           wpc' = [wpc EXCEPT ![w] = pc],
           UNCHANGED <<up, rec, reg, table, rpc, rjob>>,
           \/ jstatus' = jstatus
           \/ jstatus' = [jstatus EXCEPT ![JobOf[w]] = "failed"]
    PROVE  LifeInv'
<1>1. JobOf[w] \in Jobs /\ ~NoTask(JobOf[w])
  BY WorkersAssumption, Zenon DEF NoTask
<1>2. rec[JobOf[w]] = "none" /\ reg[JobOf[w]] = "none"
  BY <1>1, Zenon DEF LifeInv, RecoveryInv, RegistrationInv
<1>3. \A j \in Jobs : NoTask(j) => NoTask(j)' /\ jstatus'[j] = jstatus[j]
  BY <1>1 DEF NoTask, TypeOK
<1>4. RecoveryInv'
  BY <1>2, <1>3, Zenon DEF LifeInv, RecoveryInv, TypeOK
<1>5. RegistrationInv'
  BY <1>2, <1>3, Zenon DEF LifeInv, RegistrationInv, TypeOK
<1>6. InstanceInv'
  <2>1. up
    BY Zenon DEF LifeInv, InstanceInv
  <2>2. \A j \in Jobs : jstatus[j] \in {"running", "failed"} =>
                        jstatus'[j] \in {"running", "failed"}
    BY <1>1, Zenon DEF TypeOK
  <2>3. ASSUME NEW v \in Workers, wpc'[v] # "none"
        PROVE  jstatus[JobOf[v]] \in {"running", "failed"}
    BY <2>3 DEF LifeInv, InstanceInv, TypeOK
  <2>4. \A v \in Workers : JobOf[v] \in Jobs
    BY WorkersAssumption, Zenon
  <2> QED BY <2>1, <2>2, <2>3, <2>4, Zenon DEF LifeInv, InstanceInv, TypeOK
<1>7. RequestInv'
  <2> SUFFICES ASSUME NEW q \in Requests, rpc[q] # "free"
               PROVE  /\ Serving'
                      /\ rjob[q] \in Jobs
                      /\ rpc[q] \in {"join", "listener", "status", "end"} =>
                            /\ rjob[q] \notin table
                            /\ reg[rjob[q]] = "none"
                            /\ jstatus'[rjob[q]] \in {"running", "failed", "finished"}
                      /\ rpc[q] \in {"listener", "status", "end"} => NoTask(rjob[q])'
    BY Zenon DEF RequestInv, RequestOk, NoTask
  <2>1. Serving' /\ rjob[q] \in Jobs
    BY DEF LifeInv, RequestInv, RequestOk, Serving
  <2> QED BY <2>1, <1>3 DEF LifeInv, RequestInv, RequestOk, TypeOK
<1> QED BY <1>4, <1>5, <1>6, <1>7, Zenon DEF LifeInv

\* A request marks a job failed or finished, or a failed job is marked again.
LEMMA LifeOfStatus ==
    ASSUME TypeOK, LifeInv, NEW j \in Jobs, NEW s \in {"failed", "finished"},
           rec[j] = "none",
           jstatus' = [jstatus EXCEPT ![j] = s],
           s = "finished" => j \notin table /\ NoTask(j) /\ reg[j] = "none",
           reg[j] = "create" => s = "failed",
           UNCHANGED <<up, rec, reg, table, rjob, wpc>>,
           \E q \in Requests : rpc' = [rpc EXCEPT ![q] = "free"]
    PROVE  LifeInv'
<1>1. \A q \in Requests : rpc'[q] = "free" \/ rpc'[q] = rpc[q]
  BY Zenon DEF TypeOK
<1>2. \A i \in Jobs : i # j => jstatus'[i] = jstatus[i]
  BY Zenon DEF TypeOK
<1>3. jstatus'[j] = s
  BY Zenon DEF TypeOK
<1>4. RecoveryInv'
  BY <1>2, <1>3, Zenon DEF LifeInv, RecoveryInv, NoTask
<1>5. RegistrationInv'
  BY <1>2, <1>3 DEF LifeInv, RegistrationInv, NoTask
<1>6. InstanceInv'
  <2>1. \A v \in Workers : JobOf[v] \in Jobs
    BY WorkersAssumption, Zenon
  <2>2. \A v \in Workers : wpc[v] # "none" => jstatus'[JobOf[v]] \in {"running", "failed"}
    BY <1>2, <1>3, <2>1, Zenon DEF LifeInv, InstanceInv, NoTask
  <2>3. \A i \in table : jstatus'[i] \in {"running", "failed"}
    BY <1>2, <1>3 DEF LifeInv, InstanceInv, TypeOK
  <2> QED BY <2>2, <2>3, Zenon DEF LifeInv, InstanceInv
<1>7. RequestInv'
  BY <1>1, <1>2, <1>3 DEF LifeInv, RequestInv, RequestOk, Serving, NoTask
<1> QED BY <1>4, <1>5, <1>6, <1>7, Zenon DEF LifeInv

\* An instance is created while the job is registered or recovered.
LEMMA LifeOfSpawn ==
    ASSUME TypeOK, LifeInv, NEW j \in Jobs, NEW k,
           \/ /\ reg[j] = "create" /\ reg' = [reg EXCEPT ![j] = "none"] /\ rec' = rec
           \/ /\ rec[j] = "create" /\ rec' = [rec EXCEPT ![j] = "none"] /\ reg' = reg,
           CanCreate(j), SpawnInstance(j, k),
           UNCHANGED <<up, rpc, rjob>>
    PROVE  LifeInv'
<1>1. /\ jstatus[j] \in {"requested", "running"}
      /\ \A i \in Jobs : i # j => jstatus'[i] = jstatus[i]
      /\ jstatus'[j] = "running"
  BY DEF CanCreate, TransitionOk, SpawnInstance, UpdateJobStatus, IsValidTransition, LifeInv,
         RecoveryInv, RegistrationInv, TypeOK
<1>2. /\ up /\ NoTask(j)
      /\ rec'[j] = "none" /\ reg'[j] = "none"
      /\ \A i \in Jobs : i # j => rec'[i] = rec[i] /\ reg'[i] = reg[i]
  BY DEF LifeInv, RecoveryInv, RegistrationInv, TypeOK
<1>3. table' = table \cup {j}
  BY Zenon DEF SpawnInstance
<1>4. \A w \in Workers : IF JobOf[w] = j THEN wpc'[w] = "fetch" ELSE wpc'[w] = wpc[w]
  BY Zenon DEF SpawnInstance
<1>5. \A i \in Jobs : i # j /\ NoTask(i) => NoTask(i)'
  BY <1>4, Zenon DEF NoTask
<1>6. RecoveryInv'
  BY <1>1, <1>2, <1>3, <1>5 DEF LifeInv, RecoveryInv
<1>7. RegistrationInv'
  BY <1>1, <1>2, <1>3, <1>5, Zenon DEF LifeInv, RegistrationInv
<1>8. InstanceInv'
  <2>1. \A i \in table' : jstatus'[i] \in {"running", "failed"}
    BY <1>1, <1>3, Zenon DEF LifeInv, InstanceInv, TypeOK
  <2>2. \A w \in Workers : wpc'[w] # "none" => jstatus'[JobOf[w]] \in {"running", "failed"}
    BY <1>1, <1>4, WorkersAssumption DEF LifeInv, InstanceInv
  <2> QED BY <1>2, <2>1, <2>2, Zenon DEF InstanceInv
<1>9. RequestInv'
  <2> SUFFICES ASSUME NEW q \in Requests, rpc[q] # "free"
               PROVE  /\ Serving'
                      /\ rjob[q] \in Jobs
                      /\ rpc[q] \in {"join", "listener", "status", "end"} =>
                            /\ rjob[q] \notin table'
                            /\ reg'[rjob[q]] = "none"
                            /\ jstatus'[rjob[q]] \in {"running", "failed", "finished"}
                      /\ rpc[q] \in {"listener", "status", "end"} => NoTask(rjob[q])'
    BY Zenon DEF RequestInv, RequestOk, NoTask
  <2>1. Serving /\ rjob[q] \in Jobs
    BY Zenon DEF LifeInv, RequestInv, RequestOk
  <2>2. reg[j] = "create"
    BY <2>1, Zenon DEF Serving
  <2>3. Serving'
    BY <2>1, <1>2, Zenon DEF Serving
  <2>4. rpc[q] \in {"join", "listener", "status", "end"} => rjob[q] # j
    BY <2>2 DEF LifeInv, RequestInv, RequestOk
  <2> QED BY <2>1, <2>3, <2>4, <1>1, <1>2, <1>3, <1>5, Zenon DEF LifeInv, RequestInv, RequestOk
<1> QED BY <1>6, <1>7, <1>8, <1>9, Zenon DEF LifeInv

\* A step that at most takes entries out of job_table.
LEMMA LifeOfTable ==
    ASSUME LifeInv, UNCHANGED <<jstatus, up, rec, reg, wpc>>, table' \subseteq table
    PROVE  RecoveryInv' /\ RegistrationInv' /\ InstanceInv'
<1>1. \A j : NoTask(j)' = NoTask(j)
  BY Zenon DEF NoTask
<1>2. RecoveryInv'
  BY <1>1, Zenon DEF LifeInv, RecoveryInv
<1>3. RegistrationInv'
  BY <1>1, Zenon DEF LifeInv, RegistrationInv
<1>4. InstanceInv'
  BY Zenon DEF LifeInv, InstanceInv
<1> QED BY <1>2, <1>3, <1>4, Zenon

\* Every step keeps what the job manager knows of jobs, instances and requests.
LEMMA LifeStep == TypeOK /\ LifeInv /\ [Next]_vars => LifeInv'
<1> SUFFICES ASSUME TypeOK, LifeInv, [Next]_vars PROVE LifeInv'
  OBVIOUS
<1> USE DEF db, ext, reqs, mgr, tasks, listeners, coroutines
<1>1. CASE OutsideStep
  BY <1>1, OutsideEffects, LifeFrame, Zenon
<1>14. ASSUME NEW j \in Jobs, ListenerStep(j) PROVE LifeInv'
  BY <1>14, ListenerEffects, LifeFrame DEF ListenerEffect
<1>2. CASE Crash
  BY Zenon, <1>2 DEF Crash, LifeInv, RecoveryInv, RegistrationInv, InstanceInv, RequestInv, RequestOk
<1>3. CASE Boot
  <2>1. \A j \in Jobs : j \notin table /\ NoTask(j) /\ reg[j] = "none"
    BY <1>3, Zenon DEF Boot, LifeInv, InstanceInv, RegistrationInv, NoTask
  <2>2. \A q \in Requests : rpc[q] = "free"
    BY <1>3, Zenon DEF Boot, LifeInv, RequestInv, RequestOk, Serving
  <2>3. \A j \in Jobs :
           /\ rec'[j] \in {"none", "requested", "running", "inactive"}
           /\ rec'[j] \in {"requested", "running"} => jstatus[j] = rec'[j]
           /\ rec'[j] = "inactive" => jstatus[j] \in {"failed", "finished"}
    BY <1>3 DEF Boot, LoadedAs, TypeOK, JobStatuses
  <2>4. RecoveryInv'
    BY <1>3, <2>1, <2>3, Zenon DEF Boot, RecoveryInv, NoTask
  <2>5. RegistrationInv' /\ InstanceInv' /\ RequestInv'
    BY <1>3, <2>1, <2>2, Zenon DEF Boot, LifeInv, RegistrationInv, InstanceInv, RequestInv, RequestOk
  <2> QED BY <2>4, <2>5, Zenon DEF LifeInv
<1>4. ASSUME NEW j \in Jobs, RegisterJob(j) PROVE LifeInv'
  <2>1. /\ up /\ jstatus[j] = "absent" /\ j \notin table /\ NoTask(j)
        /\ UNCHANGED <<up, rec, table, rpc, rjob, wpc>>
        /\ \A i \in Jobs : rec[i] = "none"
    BY <1>4, WorkersAssumption, Zenon DEF RegisterJob, Serving, LifeInv, InstanceInv, NoTask
  <2>2. /\ jstatus'[j] = "requested" /\ reg'[j] = "create"
        /\ \A i \in Jobs : i # j => jstatus'[i] = jstatus[i] /\ reg'[i] = reg[i]
    BY <1>4 DEF RegisterJob, TypeOK
  <2>3. RecoveryInv'
    BY <2>1, Zenon DEF RecoveryInv
  <2>4. RegistrationInv'
    BY <2>1, <2>2, Zenon DEF LifeInv, RegistrationInv, NoTask
  <2>5. InstanceInv'
    BY <2>1, <2>2, WorkersAssumption DEF LifeInv, InstanceInv, NoTask, TypeOK
  <2>6. RequestInv'
    BY <2>1, <2>2 DEF LifeInv, RequestInv, RequestOk, NoTask, Serving
  <2> QED BY <2>3, <2>4, <2>5, <2>6, Zenon DEF LifeInv
<1>5. ASSUME NEW j \in Jobs, CreateInstance(j) PROVE LifeInv'
  <2>1. CASE CanCreate(j) /\ SpawnInstance(j, 0) /\ reg' = [reg EXCEPT ![j] = "none"]
    <3>1. reg[j] = "create" /\ UNCHANGED <<up, rec, rpc, rjob>>
      BY Zenon, <1>5 DEF CreateInstance, reqs
    <3> QED BY <2>1, <3>1, LifeOfSpawn, Zenon
  <2>2. CASE reg' = [reg EXCEPT ![j] = "fail"] /\ UNCHANGED <<table, tasks>>
    <3>1. /\ reg[j] = "create" /\ rec[j] = "none"
          /\ UNCHANGED <<up, rec, table, rpc, rjob, wpc>>
          /\ jstatus[j] \in {"requested", "failed"}
          /\ jstatus'[j] \in {"requested", "running", "failed"}
          /\ \A i \in Jobs : i # j => jstatus'[i] = jstatus[i] /\ reg'[i] = reg[i]
      BY <1>5, <2>2 DEF CreateInstance, UpdateJobStatus, LifeInv, RecoveryInv, RegistrationInv,
                        TypeOK, CanCreate, SpawnInstance
    <3>2. reg'[j] = "fail"
      BY <2>2, Zenon DEF TypeOK
    <3>3. RecoveryInv'
      BY <3>1, Zenon DEF LifeInv, RecoveryInv, NoTask
    <3>4. RegistrationInv'
      BY <3>1, <3>2 DEF LifeInv, RegistrationInv, NoTask
    <3>5. InstanceInv'
      <4>1. j \notin table /\ \A w \in Workers : JobOf[w] = j => wpc[w] = "none"
        BY <3>1, Zenon DEF LifeInv, RegistrationInv, NoTask
      <4>2. table \subseteq Jobs
        BY Zenon DEF TypeOK
      <4> QED BY <3>1, <4>1, <4>2, WorkersAssumption, Zenon DEF LifeInv, InstanceInv
    <3>6. RequestInv'
      BY <3>1, Zenon DEF LifeInv, RequestInv, RequestOk, NoTask, Serving
    <3> QED BY <3>3, <3>4, <3>5, <3>6 DEF LifeInv
  <2> QED BY <1>5, <2>1, <2>2 DEF CreateInstance
<1>6. ASSUME NEW j \in Jobs, RegisterFails(j) PROVE LifeInv'
  <2>1. /\ reg[j] = "fail" /\ rec[j] = "none" /\ j \notin table /\ NoTask(j)
        /\ UNCHANGED <<up, rec, table, rpc, rjob, wpc>>
    BY <1>6, Zenon DEF RegisterFails, LifeInv, RecoveryInv, RegistrationInv
  <2>2. /\ reg'[j] = "none"
        /\ \A i \in Jobs : i # j => jstatus'[i] = jstatus[i] /\ reg'[i] = reg[i]
        /\ jstatus'[j] = jstatus[j] \/ jstatus'[j] = "failed"
    BY <1>6, Zenon DEF RegisterFails, UpdateJobStatus, TypeOK
  <2>3. RecoveryInv'
    BY <2>1, <2>2 DEF LifeInv, RecoveryInv, NoTask
  <2>4. RegistrationInv'
    BY <2>1, <2>2, Zenon DEF LifeInv, RegistrationInv, NoTask
  <2>5. InstanceInv'
    BY <2>1, <2>2, WorkersAssumption DEF LifeInv, InstanceInv, TypeOK, NoTask
  <2>6. RequestInv'
    BY <2>1, <2>2, Zenon DEF LifeInv, RequestInv, RequestOk, NoTask, Serving
  <2> QED BY <2>3, <2>4, <2>5, <2>6 DEF LifeInv

<1>7. ASSUME NEW j \in Jobs, RefillBuffer(j) PROVE LifeInv'
  <2>1. /\ UNCHANGED <<jstatus, up, reg, table, rpc, rjob, wpc>>
        /\ rec[j] \in {"requested", "running", "inactive"}
        /\ rec'[j] = IF rec[j] = "inactive" THEN "none" ELSE "create"
        /\ \A i \in Jobs : i # j => rec'[i] = rec[i]
    BY <1>7, Zenon DEF RefillBuffer, IsNextToRecover, TypeOK
  <2>2. \A q \in Requests : rpc[q] = "free"
    BY <2>1 DEF LifeInv, RequestInv, RequestOk, Serving
  <2>3. RecoveryInv'
    BY <2>1 DEF LifeInv, RecoveryInv, NoTask
  <2>4. RegistrationInv' /\ InstanceInv' /\ RequestInv'
    BY <2>1, <2>2 DEF LifeInv, RegistrationInv, InstanceInv, RequestInv, RequestOk, NoTask
  <2> QED BY <2>3, <2>4, Zenon DEF LifeInv
<1>8. ASSUME NEW j \in Jobs, RecoverInstance(j) PROVE LifeInv'
  <2>1. CASE CanCreate(j) /\ SpawnInstance(j, cursor[j])
    BY <1>8, <2>1, LifeOfSpawn, Zenon DEF RecoverInstance
  <2>2. CASE UNCHANGED <<table, tasks>>
    <3>1. /\ rec[j] = "create" /\ reg[j] = "none"
          /\ UNCHANGED <<up, reg, table, rpc, rjob, wpc>>
          /\ j \notin table /\ NoTask(j)
          /\ rec'[j] = "none"
          /\ \A i \in Jobs : i # j => jstatus'[i] = jstatus[i] /\ rec'[i] = rec[i]
      BY <1>8, <2>2 DEF RecoverInstance, UpdateJobStatus, LifeInv, RecoveryInv, TypeOK, CanCreate,
                        SpawnInstance
    <3>2. \A q \in Requests : rpc[q] = "free"
      BY <3>1, Zenon DEF LifeInv, RequestInv, RequestOk, Serving
    <3>3. RecoveryInv'
      BY <3>1, Zenon DEF LifeInv, RecoveryInv, NoTask
    <3>4. RegistrationInv'
      BY <3>1, Zenon DEF LifeInv, RegistrationInv, NoTask
    <3>5. InstanceInv'
      BY <3>1, WorkersAssumption DEF LifeInv, InstanceInv, TypeOK, NoTask
    <3>6. RequestInv'
      BY <3>1, <3>2, Zenon DEF RequestInv, RequestOk
    <3> QED BY <3>3, <3>4, <3>5, <3>6 DEF LifeInv
  <2> QED BY <1>8, <2>1, <2>2, Zenon DEF RecoverInstance
<1>9. ASSUME NEW j \in Jobs, LoadFails(j) PROVE LifeInv'
  <2>1. /\ rec[j] = "running" /\ reg[j] = "none"
        /\ UNCHANGED <<up, reg, table, rpc, rjob, wpc>>
        /\ j \notin table /\ NoTask(j)
        /\ \A i \in Jobs : i # j => jstatus'[i] = jstatus[i] /\ rec'[i] = rec[i]
        /\ rec'[j] = "none" \/ (rec'[j] = "inactive" /\ jstatus'[j] = "failed")
    BY <1>9 DEF LoadFails, UpdateJobStatus, IsValidTransition, LifeInv, RecoveryInv, TypeOK
  <2>2. \A q \in Requests : rpc[q] = "free"
    BY <2>1, Zenon DEF LifeInv, RequestInv, RequestOk, Serving
  <2>3. RecoveryInv'
    BY <2>1 DEF LifeInv, RecoveryInv, NoTask
  <2>4. RegistrationInv'
    BY <2>1, Zenon DEF LifeInv, RegistrationInv, NoTask
  <2>5. InstanceInv'
    BY <2>1, WorkersAssumption DEF LifeInv, InstanceInv, TypeOK, NoTask
  <2>6. RequestInv'
    BY <2>1, <2>2, Zenon DEF RequestInv, RequestOk
  <2> QED BY <2>3, <2>4, <2>5, <2>6 DEF LifeInv
<1>10. ASSUME NEW q \in Requests, NEW j \in Jobs, ShutdownRequest(q, j) PROVE LifeInv'
  <2>1. /\ Serving /\ jstatus[j] # "absent"
        /\ UNCHANGED <<jstatus, up, rec, reg, wpc>>
        /\ rjob'[q] = j
        /\ \A p \in Requests : p # q => rjob'[p] = rjob[p] /\ rpc'[p] = rpc[p]
        /\ \/ j \in table /\ table' = table \ {j} /\ rpc'[q] = "join"
           \/ table' = table /\ rpc'[q] = "lookup"
    BY <1>10 DEF ShutdownRequest, Advance, TypeOK
  <2>2. Serving'
    BY <2>1, Zenon DEF Serving
  <2>3. RecoveryInv' /\ RegistrationInv' /\ InstanceInv'
    BY <2>1, LifeOfTable, Zenon
  <2>4. j \in table => reg[j] = "none" /\ jstatus[j] \in {"running", "failed"}
    BY Zenon DEF LifeInv, RegistrationInv, InstanceInv
  <2>5. RequestInv'
    <3> SUFFICES ASSUME NEW p \in Requests, rpc'[p] # "free" PROVE RequestOk(p)'
      BY Zenon DEF RequestInv
    <3>1. CASE p = q
      BY <2>1, <2>2, <2>4, <3>1, Zenon DEF RequestOk
    <3>2. CASE p # q
      <4>1. RequestOk(p) /\ rpc'[p] = rpc[p] /\ rjob'[p] = rjob[p] /\ table' \subseteq table
        BY <2>1, <3>2 DEF LifeInv, RequestInv, RequestOk
      <4> QED BY <2>1, <2>2, <4>1, Zenon DEF RequestOk, NoTask
    <3> QED BY <3>1, <3>2, Zenon
  <2> QED BY <2>3, <2>5, Zenon DEF LifeInv
<1>11. ASSUME NEW q \in Requests,
              JoinInstance(q) \/ JoinListener(q) \/ CheckBeforeEnd(q) \/ LookUpStatus(q)
       PROVE  LifeInv'
  <2>1. /\ UNCHANGED <<jstatus, up, rec, reg, table, wpc, rjob>>
        /\ \A p \in Requests : p # q => rpc'[p] = rpc[p]
        /\ rpc[q] # "free"
        /\ \/ rpc[q] = "join" /\ rpc'[q] = "listener" /\ NoTask(rjob[q])
           \/ rpc[q] = "listener" /\ rpc'[q] = "status"
           \/ rpc[q] = "status" /\ rpc'[q] \in {"free", "end"}
           \/ rpc'[q] \in {"free", "fail"}
    BY <1>11 DEF JoinInstance, JoinListener, CheckBeforeEnd, LookUpStatus, Advance, TypeOK, NoTask,
                 WorkersOf
  <2>2. RecoveryInv' /\ RegistrationInv' /\ InstanceInv'
    BY <2>1, LifeOfTable, Zenon
  <2>3. RequestInv'
    <3> SUFFICES ASSUME NEW p \in Requests, rpc'[p] # "free" PROVE RequestOk(p)'
      BY Zenon DEF RequestInv
    <3>1. RequestOk(p) /\ Serving' = Serving
      BY <2>1, Zenon DEF LifeInv, RequestInv, RequestOk, Serving
    <3>2. CASE p = q
      BY <2>1, <3>1, <3>2 DEF RequestOk, NoTask
    <3>3. CASE p # q
      BY <2>1, <3>1, <3>3, Zenon DEF RequestOk, NoTask
    <3> QED BY <3>2, <3>3, Zenon
  <2> QED BY <2>2, <2>3, Zenon DEF LifeInv
<1>12. ASSUME NEW q \in Requests, EndJob(q) \/ TryFail(q) \/ RequestFails(q) PROVE LifeInv'
  <2>1. /\ UNCHANGED <<up, rec, reg, table, wpc, rjob>>
        /\ rpc' = [rpc EXCEPT ![q] = "free"]
        /\ rpc[q] # "free"
        /\ \/ jstatus' = jstatus
           \/ jstatus' = [jstatus EXCEPT ![rjob[q]] = "failed"]
           \/ rpc[q] = "end" /\ jstatus' = [jstatus EXCEPT ![rjob[q]] = "finished"]
    BY <1>12, Zenon DEF EndJob, TryFail, RequestFails, UpdateJobStatus, Advance
  <2>2. rjob[q] \in Jobs /\ rec[rjob[q]] = "none"
    BY <2>1 DEF LifeInv, RequestInv, RequestOk, Serving
  <2>3. rpc[q] = "end" => rjob[q] \notin table /\ NoTask(rjob[q]) /\ reg[rjob[q]] = "none"
    BY Zenon DEF LifeInv, RequestInv, RequestOk
  <2>4. CASE jstatus' = jstatus
    <3>1. RecoveryInv' /\ RegistrationInv' /\ InstanceInv'
      BY <2>1, <2>4, LifeOfTable, Zenon
    <3>2. \A p \in Requests : rpc'[p] = "free" \/ rpc'[p] = rpc[p]
      BY <2>1 DEF TypeOK
    <3>3. RequestInv'
      BY <2>1, <2>4, <3>2 DEF LifeInv, RequestInv, RequestOk, NoTask, Serving
    <3> QED BY <3>1, <3>3 DEF LifeInv
  <2>5. CASE jstatus' = [jstatus EXCEPT ![rjob[q]] = "failed"]
    BY <2>1, <2>2, <2>5, LifeOfStatus, Zenon
  <2>6. CASE rpc[q] = "end" /\ jstatus' = [jstatus EXCEPT ![rjob[q]] = "finished"]
    BY <2>1, <2>2, <2>3, <2>6, LifeOfStatus, Zenon
  <2> QED BY <2>1, <2>4, <2>5, <2>6, Zenon
<1>13. ASSUME NEW w \in Workers, TaskStep(w) \/ TaskFault(w) PROVE LifeInv'
  <2>1. TaskEffect(w)
    BY <1>13, TaskEffects
  <2>2. PICK pc : wpc' = [wpc EXCEPT ![w] = pc]
    BY <2>1, Zenon DEF TaskEffect
  <2> QED BY <2>1, <2>2, LifeOfTask, Zenon DEF TaskEffect
<1> QED
  BY StepKinds, <1>1, <1>2, <1>3, <1>4, <1>5, <1>6, <1>7, <1>8, <1>9, <1>10, <1>11, <1>12, <1>13,
     <1>14, Zenon
  DEF RequestStep

-----------------------------------------------------------------------------
\* A step of the job manager that neither creates nor ends a scan.
LEMMA ScanFrame ==
    ASSUME ScanInv, UNCHANGED <<last_key, cursor, wpc, wkeys>>,
           \A j \in Jobs :
              /\ jstatus'[j] \in {"absent", "requested"} => jstatus[j] \in {"absent", "requested"}
              /\ reg'[j] # "none" => reg[j] # "none" \/ jstatus[j] = "absent"
              /\ rec'[j] \in {"requested", "running", "create"} =>
                    rec[j] \in {"requested", "running", "create"}
    PROVE  ScanInv'
  BY DEF ScanInv, ScanTask

\* A step of one task: its own scan stays consistent, and no other is touched.
LEMMA ScanOfTask ==
    ASSUME TypeOK, LifeInv, ScanInv, NEW w \in Workers, wpc[w] # "none",
           \/ jstatus' = jstatus
           \/ jstatus' = [jstatus EXCEPT ![JobOf[w]] = "failed"],
           UNCHANGED <<rec, reg>>,
           \A v \in Workers : v # w => wpc'[v] = wpc[v] /\ wkeys'[v] = wkeys[v],
           \A j \in Jobs : j # JobOf[w] \/ Kind[j] = "sqs" =>
                              cursor'[j] = cursor[j] /\ last_key'[j] = last_key[j],
           Kind[JobOf[w]] = "scanner" => ScanTask(w)'
    PROVE  ScanInv'
<1>1. JobOf[w] \in Jobs /\ rec[JobOf[w]] = "none" /\ reg[JobOf[w]] = "none"
      /\ jstatus[JobOf[w]] \in {"running", "failed"}
  <2>1. JobOf[w] \in Jobs
    BY WorkersAssumption
  <2>2. ~NoTask(JobOf[w])
    BY Zenon DEF NoTask
  <2> QED BY <2>1, <2>2, Zenon DEF LifeInv, RecoveryInv, RegistrationInv, InstanceInv
<1>2. ASSUME NEW j \in Jobs, Kind[j] = "scanner"
      PROVE  /\ jstatus'[j] \in {"absent", "requested"} \/ reg'[j] # "none" => last_key'[j] = 0
             /\ rec'[j] \in {"requested", "running", "create"} => cursor'[j] = last_key'[j]
  <2>1. CASE j = JobOf[w]
    BY <1>1, <2>1, Zenon DEF TypeOK
  <2>2. CASE j # JobOf[w]
    BY <1>2, <2>2 DEF ScanInv, TypeOK
  <2> QED BY <2>1, <2>2, Zenon
<1>3. ASSUME NEW v \in Workers, Kind[JobOf[v]] = "scanner" PROVE ScanTask(v)'
  <2>1. CASE v = w
    BY <1>3, <2>1, Zenon
  <2>2. CASE v # w
    <3>1. JobOf[v] \in Jobs /\ JobOf[v] # JobOf[w]
      BY <1>3, <2>2, WorkersAssumption, Zenon
    <3>2. ScanTask(v)
      BY <1>3, Zenon DEF ScanInv
    <3> QED BY <2>2, <3>1, <3>2, Zenon DEF ScanTask
  <2> QED BY <2>1, <2>2, Zenon
<1> QED BY <1>2, <1>3, Zenon DEF ScanInv

\* A scan starts where the last one stopped.
LEMMA ScanOfSpawn ==
    ASSUME TypeOK, LifeInv, ScanInv, NEW j \in Jobs, NEW k \in Keys \cup {0},
           SpawnInstance(j, k), CanCreate(j),
           Kind[j] = "scanner" => k = last_key[j],
           \A i \in Jobs : /\ reg'[i] # "none" => reg[i] # "none"
                           /\ i # j => rec'[i] = rec[i],
           rec'[j] = "none", reg'[j] = "none",
           last_key' = last_key
    PROVE  ScanInv'
<1>1. /\ jstatus'[j] = "running"
      /\ \A i \in Jobs : i # j => jstatus'[i] = jstatus[i] /\ cursor'[i] = cursor[i]
      /\ cursor'[j] = k
      /\ wkeys' = wkeys
      /\ \A v \in Workers : IF JobOf[v] = j THEN wpc'[v] = "fetch" ELSE wpc'[v] = wpc[v]
  BY DEF SpawnInstance, UpdateJobStatus, IsValidTransition, CanCreate, TransitionOk, TypeOK
<1>2. ASSUME NEW i \in Jobs, Kind[i] = "scanner"
      PROVE  /\ jstatus'[i] \in {"absent", "requested"} \/ reg'[i] # "none" => last_key'[i] = 0
             /\ rec'[i] \in {"requested", "running", "create"} => cursor'[i] = last_key'[i]
  BY <1>1, <1>2, Zenon DEF ScanInv
<1>3. ASSUME NEW v \in Workers, Kind[JobOf[v]] = "scanner" PROVE ScanTask(v)'
  <2>1. CASE JobOf[v] = j
    BY <1>1, <1>3, <2>1, Zenon DEF ScanTask
  <2>2. CASE JobOf[v] # j
    <3>1. JobOf[v] \in Jobs /\ ScanTask(v)
      BY <1>3, WorkersAssumption, Zenon DEF ScanInv
    <3> QED BY <1>1, <2>2, <3>1, Zenon DEF ScanTask
  <2> QED BY <2>1, <2>2, Zenon
<1> QED BY <1>2, <1>3, Zenon DEF ScanInv

\* Every step keeps a scanner's cursor, its page and its last ingested key together.
LEMMA ScanStep == TypeOK /\ LifeInv /\ ScanInv /\ [Next]_vars => ScanInv'
<1> SUFFICES ASSUME TypeOK, LifeInv, ScanInv, [Next]_vars PROVE ScanInv'
  OBVIOUS
<1> USE DEF db, ext, reqs, mgr, tasks, listeners, coroutines
<1>1. CASE OutsideStep
  BY <1>1, OutsideEffects, ScanFrame, Zenon
<1>12. ASSUME NEW j \in Jobs, ListenerStep(j) PROVE ScanInv'
  BY <1>12, ListenerEffects, ScanFrame, Zenon DEF ListenerEffect
<1>13. ASSUME NEW q \in Requests, NEW j \in Jobs, ShutdownRequest(q, j) PROVE ScanInv'
  <2>1. UNCHANGED <<jstatus, rec, reg, last_key, cursor, wpc, wkeys>>
    BY <1>13 DEF ShutdownRequest
  <2> QED BY <2>1, ScanFrame, Zenon
<1>2. CASE Crash
  BY Zenon, <1>2 DEF Crash, ScanInv, ScanTask
<1>3. CASE Boot
  <2>1. UNCHANGED <<jstatus, reg, last_key, wkeys>> /\ \A w \in Workers : wpc'[w] = "none"
    BY <1>3, Zenon DEF Boot, LifeInv, InstanceInv
  <2>2. ASSUME NEW j \in Jobs, Kind[j] = "scanner",
               rec'[j] \in {"requested", "running", "create"}
        PROVE  cursor'[j] = last_key[j]
    <3>1. jstatus[j] \in {"requested", "running"}
      BY <1>3, <2>2, Zenon DEF Boot, LoadedAs, TypeOK, JobStatuses
    <3> QED BY <1>3, <2>2, <3>1, Zenon DEF Boot, ScanInv
  <2> QED BY <2>1, <2>2, Zenon DEF ScanInv, ScanTask
<1>4. ASSUME NEW j \in Jobs, RegisterJob(j) PROVE ScanInv'
  BY <1>4, ScanFrame DEF RegisterJob, TypeOK
<1>5. ASSUME NEW j \in Jobs, CreateInstance(j) PROVE ScanInv'
  <2>1. CASE CanCreate(j) /\ SpawnInstance(j, 0)
    <3>1. Kind[j] = "scanner" => last_key[j] = 0
      BY <1>5, Zenon DEF CreateInstance, ScanInv
    <3>2. rec[j] = "none"
      BY <1>5, Zenon DEF CreateInstance, LifeInv, RecoveryInv
    <3>3. \/ reg' = [reg EXCEPT ![j] = "none"]
          \/ table' = table
      BY <1>5, Zenon DEF CreateInstance
    <3>4. table' # table
      BY <2>1, Zenon DEF CanCreate, SpawnInstance
    <3>5. rec' = rec /\ last_key' = last_key
      BY <1>5, Zenon DEF CreateInstance
    <3> QED BY <2>1, <3>1, <3>2, <3>3, <3>4, <3>5, ScanOfSpawn, Zenon DEF TypeOK
  <2>2. CASE ~(CanCreate(j) /\ SpawnInstance(j, 0))
    <3>1. UNCHANGED <<last_key, cursor, wpc, wkeys, rec>>
      BY <1>5, <2>2, Zenon DEF CreateInstance
    <3>2. \A i \in Jobs : reg'[i] # "none" => reg[i] # "none"
      BY <1>5, Zenon DEF CreateInstance, TypeOK
    <3>3. jstatus' = jstatus \/ jstatus' = [jstatus EXCEPT ![j] = "running"]
      BY <1>5, <2>2, Zenon DEF CreateInstance, UpdateJobStatus
    <3> QED BY <3>1, <3>2, <3>3, ScanFrame, Zenon DEF TypeOK
  <2> QED BY <2>1, <2>2, Zenon
<1>6. ASSUME NEW j \in Jobs, RegisterFails(j) PROVE ScanInv'
  <2>1. UNCHANGED <<last_key, cursor, wpc, wkeys, rec>>
    BY <1>6, Zenon DEF RegisterFails
  <2>2. reg' = [reg EXCEPT ![j] = "none"]
    BY <1>6, Zenon DEF RegisterFails
  <2>3. jstatus' = jstatus \/ jstatus' = [jstatus EXCEPT ![j] = "failed"]
    BY <1>6, Zenon DEF RegisterFails, UpdateJobStatus
  <2> QED BY <2>1, <2>2, <2>3, ScanFrame, Zenon DEF TypeOK
<1>7. ASSUME NEW j \in Jobs, RefillBuffer(j) PROVE ScanInv'
  <2>1. UNCHANGED <<last_key, cursor, wpc, wkeys, reg, jstatus>>
    BY <1>7, Zenon DEF RefillBuffer
  <2>2. rec' = [rec EXCEPT ![j] = IF rec[j] = "inactive" THEN "none" ELSE "create"]
        /\ rec[j] \in {"requested", "running", "inactive"}
    BY <1>7, Zenon DEF RefillBuffer, IsNextToRecover
  <2> QED BY <2>1, <2>2, ScanFrame, Zenon DEF TypeOK
<1>8. ASSUME NEW j \in Jobs, RecoverInstance(j) PROVE ScanInv'
  <2>1. rec[j] = "create" /\ rec' = [rec EXCEPT ![j] = "none"] /\ UNCHANGED <<reg, last_key>>
    BY <1>8, Zenon DEF RecoverInstance
  <2>2. CASE CanCreate(j) /\ SpawnInstance(j, cursor[j])
    <3>1. Kind[j] = "scanner" => cursor[j] = last_key[j]
      BY <2>1, Zenon DEF ScanInv
    <3>2. reg[j] = "none" /\ cursor[j] \in Keys \cup {0}
      BY <2>1, Zenon DEF LifeInv, RecoveryInv, TypeOK
    <3> QED BY <2>1, <2>2, <3>1, <3>2, ScanOfSpawn, Zenon DEF TypeOK
  <2>3. CASE ~(CanCreate(j) /\ SpawnInstance(j, cursor[j]))
    <3>1. UNCHANGED <<cursor, wpc, wkeys>>
      BY <1>8, <2>3, Zenon DEF RecoverInstance
    <3>2. jstatus' = jstatus \/ jstatus' = [jstatus EXCEPT ![j] = "running"]
      BY <1>8, <2>3, Zenon DEF RecoverInstance, UpdateJobStatus
    <3> QED BY <2>1, <3>1, <3>2, ScanFrame DEF TypeOK
  <2> QED BY <2>2, <2>3
<1>9. ASSUME NEW j \in Jobs, LoadFails(j) PROVE ScanInv'
  <2>1. UNCHANGED <<last_key, cursor, wpc, wkeys, reg>>
    BY <1>9, Zenon DEF LoadFails
  <2>2. jstatus' = jstatus \/ jstatus' = [jstatus EXCEPT ![j] = "failed"]
    BY <1>9, Zenon DEF LoadFails, UpdateJobStatus
  <2>3. rec' = [rec EXCEPT ![j] = "inactive"] \/ rec' = [rec EXCEPT ![j] = "none"]
    BY <1>9, Zenon DEF LoadFails
  <2> QED BY <2>1, <2>2, <2>3, ScanFrame DEF TypeOK
<1>10. ASSUME NEW q \in Requests, RequestStep(q) PROVE ScanInv'
  <2>1. RequestEffect(q)
    BY <1>10, RequestEffects, Zenon
  <2>2. \A j \in Jobs : jstatus'[j] \in {"absent", "requested"} => jstatus'[j] = jstatus[j]
    BY <2>1 DEF RequestEffect, TypeOK
  <2> QED BY <2>1, <2>2, ScanFrame, Zenon DEF RequestEffect

<1>11. ASSUME NEW w \in Workers, TaskStep(w) \/ TaskFault(w) PROVE ScanInv'
  <2>0. TaskEffect(w)
    BY <1>11, TaskEffects
  <2>1. PICK pc : wpc' = [wpc EXCEPT ![w] = pc]
    BY <2>0, Zenon DEF TaskEffect
  <2>2. ASSUME Kind[JobOf[w]] = "scanner" PROVE ScanTask(w)'
    <3>1. JobOf[w] \in Jobs /\ ScanTask(w) /\ wpc'[w] = pc
      BY <2>1, <2>2, WorkersAssumption, Zenon DEF ScanInv, TypeOK
    <3>2. CASE ScanPage(w)
      <4>1. PICK k \in (cursor[JobOf[w]] + 1)..objects :
               LET page == ((cursor[JobOf[w]] + 1)..k) \cap Relevant
               IN  page # {} /\ wkeys' = [wkeys EXCEPT ![w] = page]
        BY <3>2, Zenon DEF ScanPage
      <4>2. k \in Keys
        BY <3>1, <4>1, BoundsAssumption DEF TypeOK, Keys
      <4>3. wkeys'[w] = ((cursor[JobOf[w]] + 1)..k) \cap Relevant /\ wkeys'[w] # {}
        BY <4>1, Zenon DEF TypeOK
      <4>4. pc = "ingest" /\ UNCHANGED <<cursor, last_key>>
        BY <3>2, <3>1, Zenon DEF ScanPage, Goto, TypeOK
      <4>5. cursor[JobOf[w]] = last_key[JobOf[w]]
        BY <3>1, <3>2, Zenon DEF ScanPage, Fetching, ScanTask
      <4> QED BY <3>1, <4>2, <4>3, <4>4, <4>5 DEF ScanTask
    <3>3. CASE Ingest(w)
      <4>1. wkeys' = wkeys /\ cursor' = cursor
        BY <3>3, Zenon DEF Ingest
      <4>2. PICK k \in Keys : /\ wkeys[w] = ((cursor[JobOf[w]] + 1)..k) \cap Relevant
                              /\ wkeys[w] # {}
        BY <3>1, <3>3, Zenon DEF Ingest, ScanTask
      <4>3. wkeys[w] \cap Relevant = wkeys[w]
        BY <4>2
      <4>4. \/ pc = "fail"
            \/ pc = "send" /\ last_key' = [last_key EXCEPT ![JobOf[w]] = Last(wkeys[w])]
        BY <2>2, <3>1, <3>3, <4>3, Zenon DEF Ingest, Goto, RecordObjects, TypeOK
      <4>5. pc = "send" => last_key'[JobOf[w]] = Last(wkeys'[w])
        BY <3>1, <4>1, <4>4, Zenon DEF TypeOK
      <4> QED BY <3>1, <4>1, <4>2, <4>4, <4>5, Zenon DEF ScanTask
    <3>4. CASE SendRows(w)
      <4>1. /\ wpc[w] = "send" /\ last_key' = last_key
            /\ cursor' = [cursor EXCEPT ![JobOf[w]] = Last(wkeys[w])]
            /\ pc = "fetch"
        <5>1. wpc[w] = "send" /\ last_key' = last_key
          BY <3>4, Zenon DEF SendRows
        <5>2. /\ cursor' = [cursor EXCEPT ![JobOf[w]] = Last(wkeys[w])]
              /\ wpc' = [wpc EXCEPT ![w] = "fetch"]
          BY <2>2, <3>4, Zenon DEF SendRows, Goto
        <5>3. pc = "fetch"
          BY <3>1, <5>2, Zenon DEF TypeOK
        <5> QED BY <5>1, <5>2, <5>3, Zenon
      <4>2. cursor'[JobOf[w]] = Last(wkeys[w])
        BY <3>1, <4>1, Zenon DEF TypeOK
      <4> QED BY <3>1, <4>1, <4>2, Zenon DEF ScanTask
    <3>5. CASE DeleteMessages(w) \/ DeleteFails(w) \/ ReceiveMessages(w)
      BY <2>2, <3>1, <3>5, Zenon DEF DeleteMessages, DeleteFails, ReceiveMessages, ScanTask
    <3>6. CASE CancelTask(w) \/ FailTask(w) \/ FetchFails(w) \/ IngestFails(w)
      <4>1. pc \in {"none", "fail"}
        BY <3>1, <3>6, Zenon DEF CancelTask, FailTask, FetchFails, IngestFails, EndTask, Goto, TypeOK
      <4> QED BY <3>1, <4>1, Zenon DEF ScanTask
    <3> QED BY <1>11, <3>2, <3>3, <3>4, <3>5, <3>6 DEF TaskStep, TaskFault
  <2>3. UNCHANGED <<rec, reg>> /\ wpc[w] # "none"
    BY <2>0, Zenon DEF TaskEffect
  <2> QED BY <2>0, <2>2, <2>3, TaskIsLocal, ScanOfTask, Zenon DEF TaskEffect
<1> QED
  BY StepKinds, <1>1, <1>2, <1>3, <1>4, <1>5, <1>6, <1>7, <1>8, <1>9, <1>10, <1>11, <1>12, <1>13,
     Zenon
=============================================================================
