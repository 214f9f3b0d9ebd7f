---------------------- MODULE CompressionSchedulerSteps ----------------------
(***************************************************************************)
(* The inductive invariant of CompressionScheduler, what each step does to  *)
(* the rows, and the conjuncts that concern one row at a time: every step   *)
(* keeps TypeOK, DriveInv, TaskInv and ArchiveInv.                          *)
(***************************************************************************)
EXTENDS CompressionScheduler, TLAPS

Preparing == {"dataset", "tables", "start"}
Submitting == {"insert", "mark"}

\* The steps of the scheduler agree with the status of the rows it works on: it
\* holds PENDING jobs until StartJob and RUNNING ones from then on, none of them
\* the coordinator's, and every RUNNING job that is not the coordinator's is one
\* it holds.  A scheduler that does not run holds nothing.
DriveInv ==
  /\ ~Running => fetched = {} /\ DOMAIN scheduled = {}
  /\ pc \notin Preparing \cup Submitting => cur = Idle
  /\ \A j \in fetched : CoordinatorOwns(j) \/ job[j].status = "PENDING"
  /\ \A j \in DOMAIN scheduled : job[j].status = "RUNNING" /\ ~CoordinatorOwns(j)
  /\ pc \in Preparing =>
       /\ cur.job \in Jobs \ fetched /\ cur.first
       /\ job[cur.job].status = "PENDING" /\ ~CoordinatorOwns(cur.job)
  /\ pc \in Submitting =>
       cur.job \in Jobs /\ job[cur.job].status = "RUNNING" /\ ~CoordinatorOwns(cur.job)
  /\ pc = "mark" \/ (pc = "insert" /\ ~cur.first) => cur.job \in DOMAIN scheduled
  /\ \A j \in Jobs : job[j].spider => CoordinatorOwns(j)
  /\ \A j \in Jobs : CoordinatorOwns(j) /\ job[j].status \in {"RUNNING", "SUCCEEDED", "KILLED"}
       => job[j].spider
  /\ \A j \in Jobs : Running /\ job[j].status = "RUNNING" /\ ~CoordinatorOwns(j)
       => j \in DOMAIN scheduled \/ j = cur.job
  /\ \A j \in Jobs : pc = "exited" /\ job[j].status = "RUNNING" => CoordinatorOwns(j)

\* A task row belongs to a job the scheduler has started, and the ids the
\* scheduler holds for a job are ids of that job's rows.
TaskInv ==
  /\ \A t \in Ids : /\ ~CoordinatorOwns(task[t].job)
                    /\ job[task[t].job].status \notin {"NONE", "PENDING"}
  /\ \A i \in DOMAIN cur.ids : cur.ids[i] \in TasksOf(cur.job)
  /\ \A j \in DOMAIN scheduled : \A i \in DOMAIN scheduled[j].batch :
       scheduled[j].batch[i] \in TasksOf(j)
  /\ KilledTasksStopped

\* The archives of one task: all that were made are listed, save the one that is
\* being listed, and those made from a failed upload on.
Accounted(w) ==
  /\ w.listed <= w.uploaded
  /\ w.ph \in {"unsent", "queued", "running"} => w.listed = w.uploaded
  /\ w.ph \in {"unsent", "queued", "running"} /\ ~w.s3err => w.listed = w.made
  /\ w.ph = "commit" => /\ ~w.s3err
                        /\ w.uploaded = w.listed + 1
                        /\ w.made = w.listed + 1
  /\ w.ph \in {"okRecorded", "SUCCEEDED"} => w.listed = w.made
ArchiveInv == \A t \in Ids : Accounted(worker[t])

Made(j) == Cardinality(TasksOf(j))
Consecutive(s, k) == \A i \in 1..Len(s) : s[i] = k + i

\* Every task of j outside the batch has succeeded.
BatchIs(j, batch) == \A t \in TasksOf(j) \ Range(batch) : At(t, {"SUCCEEDED"})

\* The tasks still to be inserted are the partitions after those of the rows
\* there are, in order, and every task of an earlier batch has succeeded.
PlanInv ==
  /\ pc \in Preparing => cur.ids = <<>> /\ Consecutive(cur.todo, 0)
  /\ pc = "insert" =>
       /\ Consecutive(cur.todo, Made(cur.job))
       /\ Consecutive(cur.rest, Made(cur.job) + Len(cur.todo))
       /\ job[cur.job].numTasks = Made(cur.job) + Len(cur.todo) + Len(cur.rest)
  /\ pc \in Submitting => BatchIs(cur.job, cur.ids)
  /\ \A j \in DOMAIN scheduled : pc # "insert" \/ j # cur.job =>
       /\ Consecutive(scheduled[j].rest, Made(j))
       /\ job[j].numTasks = Made(j) + Len(scheduled[j].rest)
       /\ BatchIs(j, scheduled[j].batch)

\* A batch is never longer than max_concurrent_tasks_per_job.
BatchSize == Len(cur.ids) + Len(cur.todo)
BatchInv ==
  /\ MaxConcurrentTasksPerJob > 0 /\ pc \in Submitting => BatchSize <= MaxConcurrentTasksPerJob
  /\ BatchLimit

OkTasks(j) == {t \in TasksOf(j) : At(t, {"okRecorded", "SUCCEEDED"})}

\* The rows of a job have the partitions 1, 2, ...; while none of its tasks was
\* lost or raised, num_tasks_completed counts the ones that succeeded.
CountInv ==
  \A j \in Jobs :
    /\ {task[t].part : t \in TasksOf(j)} = 1..Made(j)
    /\ (\A t \in TasksOf(j) : ~At(t, {"exception", "lost"}))
         => job[j].completed = Cardinality(OkTasks(j))

\* The inductive invariant.
CSInv ==
  /\ TypeOK
  /\ DriveInv
  /\ TaskInv
  /\ ArchiveInv
  /\ PlanInv
  /\ BatchInv
  /\ CountInv
  /\ SucceededIsWhole

-----------------------------------------------------------------------------
JobRow == [status : {"NONE", "PENDING", "RUNNING"} \cup Final,
           numTasks : Nat, completed : Nat, spider : BOOLEAN]
TaskRow == [job : Jobs, part : Nat, status : TaskStatus]
WorkerRow == [ph : WorkerPhases, made : Nat, uploaded : Nat, listed : Nat, s3err : BOOLEAN]

\* A sequence is a function on 1..Len.
LEMMA SeqIsFunction ==
  ASSUME NEW S, NEW s \in Seq(S)
  PROVE  /\ Len(s) \in Nat
         /\ DOMAIN s = 1..Len(s)
         /\ s \in [1..Len(s) -> S]
         /\ \A i \in 1..Len(s) : s[i] \in S
  OBVIOUS

\* ... and a function on 1..n into S is a sequence of length n.
LEMMA FunctionIsSeq ==
  ASSUME NEW S, NEW n \in Nat, NEW f \in [1..n -> S]
  PROVE  /\ f \in Seq(S)
         /\ Len(f) = n
  OBVIOUS

\* What Append does to the length and the entries of a sequence.
LEMMA Appended ==
  ASSUME NEW S, NEW s \in Seq(S), NEW e \in S
  PROVE  /\ Append(s, e) \in Seq(S)
         /\ Len(Append(s, e)) = Len(s) + 1
         /\ Append(s, e)[Len(s) + 1] = e
         /\ \A i \in 1..Len(s) : Append(s, e)[i] = s[i]
  OBVIOUS

\* _batch_tasks: the batch and the remainder are the tasks, in order, and the
\* batch is within the limit when there is one.
LEMMA Batched ==
  ASSUME NEW s \in Seq(Nat)
  PROVE  /\ BatchTasks(s)[1] \in Seq(Nat)
         /\ BatchTasks(s)[2] \in Seq(Nat)
         /\ Len(s) = Len(BatchTasks(s)[1]) + Len(BatchTasks(s)[2])
         /\ MaxConcurrentTasksPerJob > 0
              => Len(BatchTasks(s)[1]) <= MaxConcurrentTasksPerJob
         /\ \A k \in Nat : Consecutive(s, k) =>
              /\ Consecutive(BatchTasks(s)[1], k)
              /\ Consecutive(BatchTasks(s)[2], k + Len(BatchTasks(s)[1]))
<1> DEFINE m == MaxConcurrentTasksPerJob
<1>1. m \in Nat /\ Len(s) \in Nat
  BY SchedulerConstants
<1>2. CASE m > 0 /\ Len(s) > m
  <2>1. BatchTasks(s) = <<SubSeq(s, 1, m), SubSeq(s, m + 1, Len(s))>>
    BY <1>2, Zenon DEF BatchTasks
  <2>2. /\ SubSeq(s, 1, m) \in Seq(Nat)
        /\ Len(SubSeq(s, 1, m)) = m
        /\ \A i \in 1..m : SubSeq(s, 1, m)[i] = s[i]
    <3>1. \A i \in 1..m : s[i] \in Nat
      BY <1>1, <1>2
    <3> HIDE DEF m
    <3>2. /\ SubSeq(s, 1, m) \in Seq(Nat)
          /\ Len(SubSeq(s, 1, m)) = IF 1 <= m THEN m - 1 + 1 ELSE 0
          /\ \A i \in 1..(m - 1 + 1) : SubSeq(s, 1, m)[i] = s[1 + i - 1]
      BY <3>1, <1>1
    <3> QED
      BY <3>2, <1>1, <1>2
  <2>3. /\ SubSeq(s, m + 1, Len(s)) \in Seq(Nat)
        /\ Len(SubSeq(s, m + 1, Len(s))) = Len(s) - m
        /\ \A i \in 1..(Len(s) - m) : SubSeq(s, m + 1, Len(s))[i] = s[m + i]
    <3>1. \A i \in (m + 1)..Len(s) : s[i] \in Nat
      BY <1>1, <1>2
    <3> HIDE DEF m
    <3> DEFINE a == m + 1
               b == Len(s)
    <3>2. a \in Int /\ b \in Int
      BY <1>1
    <3>3. /\ SubSeq(s, a, b) \in Seq(Nat)
          /\ Len(SubSeq(s, a, b)) = IF a <= b THEN b - a + 1 ELSE 0
          /\ \A i \in 1..(b - a + 1) : SubSeq(s, a, b)[i] = s[a + i - 1]
      <4> HIDE DEF a, b
      <4>1. \A i \in a..b : s[i] \in Nat
        BY <3>1 DEF a, b
      <4> QED
        BY <4>1, <3>2
    <3>4. a <= b /\ b - a + 1 = Len(s) - m
      BY <1>1, <1>2
    <3>5. ASSUME NEW i \in 1..(Len(s) - m)
          PROVE  SubSeq(s, a, b)[i] = s[m + i]
      <4>1. a + i - 1 = m + i
        BY <1>1
      <4> HIDE DEF a, b
      <4> QED
        BY <3>3, <3>4, <4>1, Zenon
    <3>6. Len(SubSeq(s, a, b)) = Len(s) - m
      <4> HIDE DEF a, b
      <4> QED
        BY <3>3, <3>4
    <3> QED
      BY <3>3, <3>5, <3>6, Zenon
  <2> HIDE DEF m
  <2> DEFINE x == SubSeq(s, 1, m)
             y == SubSeq(s, m + 1, Len(s))
  <2>4. BatchTasks(s)[1] = x /\ BatchTasks(s)[2] = y
    <3>1. BatchTasks(s) = <<x, y>>
      BY <2>1
    <3> HIDE DEF x, y
    <3> QED
      BY <3>1
  <2>5. \A k \in Nat : Consecutive(s, k) => Consecutive(x, k) /\ Consecutive(y, k + m)
    BY <1>1, <1>2, <2>2, <2>3 DEF Consecutive
  <2>6. x \in Seq(Nat) /\ y \in Seq(Nat) /\ Len(x) = m /\ Len(s) = Len(x) + Len(y)
    <3>1. x \in Seq(Nat) /\ y \in Seq(Nat) /\ Len(x) = m /\ Len(y) = Len(s) - m
      BY <2>2, <2>3, Zenon
    <3> HIDE DEF x, y
    <3> QED
      BY <3>1, <1>1
  <2> HIDE DEF x, y
  <2> QED
    BY <2>4, <2>5, <2>6, <1>1 DEF m
<1>3. CASE ~(m > 0 /\ Len(s) > m)
  <2>1. BatchTasks(s)[1] = s /\ BatchTasks(s)[2] = <<>>
    BY <1>3 DEF BatchTasks
  <2> QED
    BY <2>1, <1>1, <1>3 DEF Consecutive
<1> QED
  BY <1>2, <1>3, Zenon

\* The form of TypeOK that the other lemmas use: rows by id.
LEMMA TypeFacts ==
  ASSUME TypeOK
  PROVE  /\ Len(task) \in Nat
         /\ Ids = 1..Len(task)
         /\ DOMAIN worker = Ids
         /\ task \in [Ids -> TaskRow]
         /\ worker \in [Ids -> WorkerRow]
         /\ job \in [Jobs -> JobRow]
         /\ cur.todo \in Seq(Nat) /\ cur.ids \in Seq(Nat) /\ cur.rest \in Seq(Nat)
         /\ cur.job \in Jobs \cup {NoJob}
         /\ cur.first \in BOOLEAN
<1>1. task \in Seq(TaskRow) /\ worker \in Seq(WorkerRow) /\ Len(worker) = Len(task)
  BY DEF TypeOK, TaskRow, WorkerRow
<1>2. /\ Len(task) \in Nat
      /\ DOMAIN task = 1..Len(task) /\ DOMAIN worker = 1..Len(task)
      /\ task \in [1..Len(task) -> TaskRow] /\ worker \in [1..Len(task) -> WorkerRow]
  BY <1>1, SeqIsFunction
<1> QED
  BY <1>2 DEF TypeOK, JobRow, Ids

\* The initial values have their types.
LEMMA TypeInit == Init => TypeOK
<1> SUFFICES ASSUME Init PROVE TypeOK
  OBVIOUS
<1>1. job \in [Jobs -> JobRow]
  BY DEF Init, JobRow
<1>2. Idle \in [job : Jobs \cup {NoJob}, todo : Seq(Nat), ids : Seq(Nat), rest : Seq(Nat),
                 first : BOOLEAN]
  BY DEF Idle
<1>3. DOMAIN scheduled = {}
  BY DEF Init, NoEntries
<1>4. task \in Seq(TaskRow) /\ worker \in Seq(WorkerRow) /\ Len(worker) = Len(task)
  BY DEF Init
<1>5. MaxFaults \in Nat
  BY SchedulerConstants
<1>6. faults \in 0..MaxFaults
  BY <1>5 DEF Init
<1> QED
  BY <1>1, <1>2, <1>3, <1>4, <1>6, Zenon DEF Init, TypeOK, JobRow, TaskRow, WorkerRow

\* A step that keeps the rows of the tasks and of the workers typed.
LEMMA RowsTyped ==
  ASSUME TypeOK, task' \in [Ids -> TaskRow], worker' \in [Ids -> WorkerRow]
  PROVE  /\ task' \in Seq(TaskRow) /\ worker' \in Seq(WorkerRow)
         /\ Len(task') = Len(task) /\ Len(worker') = Len(task')
         /\ Ids' = Ids
<1>1. Ids = 1..Len(task) /\ Len(task) \in Nat
  BY TypeFacts
<1>2. task' \in [1..Len(task) -> TaskRow] /\ worker' \in [1..Len(task) -> WorkerRow]
  BY <1>1
<1>3. /\ task' \in Seq(TaskRow) /\ Len(task') = Len(task)
      /\ worker' \in Seq(WorkerRow) /\ Len(worker') = Len(task)
  BY <1>1, <1>2, FunctionIsSeq, Zenon
<1>4. DOMAIN task' = 1..Len(task)
  BY <1>2
<1> QED
  BY <1>1, <1>3, <1>4 DEF Ids

CurRecord == [job : Jobs \cup {NoJob}, todo : Seq(Nat), ids : Seq(Nat), rest : Seq(Nat),
              first : BOOLEAN]
Entry == [rest : Seq(Nat), batch : Seq(Nat)]

\* The typing of the rows, and that of the scheduler's memory.
RowType ==
  /\ job \in [Jobs -> JobRow]
  /\ task \in Seq(TaskRow)
  /\ worker \in Seq(WorkerRow)
  /\ Len(worker) = Len(task)
MemType ==
  /\ fetched \subseteq Jobs
  /\ cur \in CurRecord
  /\ DOMAIN scheduled \subseteq Jobs
  /\ \A j \in DOMAIN scheduled : scheduled[j] \in Entry
  /\ toPoll \subseteq DOMAIN scheduled

\* The two constant values of the scheduler's memory have their types.
LEMMA IdleTyped ==
  /\ Idle \in CurRecord
  /\ DOMAIN NoEntries = {}
  BY DEF Idle, CurRecord, NoEntries

\* Which jobs the scheduler's entries belong to, in the forms the steps use.
LEMMA HeldJobs ==
  ASSUME TypeOK, DriveInv
  PROVE  /\ pc \in Preparing \cup Submitting => cur.job \in Jobs
         /\ pc \in Preparing => pc \notin Submitting
         /\ toPoll \subseteq Jobs
  BY Zenon DEF TypeOK, DriveInv, Preparing, Submitting

\* A step that writes only compression_jobs keeps the types of the rows.
LEMMA RowTypeOfJobs ==
  ASSUME TypeOK, job' \in [Jobs -> JobRow], UNCHANGED <<task, worker>>
  PROVE  RowType'
  BY DEF RowType, TypeOK, TaskRow, WorkerRow

\* So does one that rewrites the rows there are, one by one.
LEMMA RowTypeOfRows ==
  ASSUME TypeOK, job' \in [Jobs -> JobRow], task' \in [Ids -> TaskRow],
         worker' \in [Ids -> WorkerRow]
  PROVE  RowType'
  BY RowsTyped DEF RowType

\* So does _insert_tasks_to_db, which adds one.
LEMMA RowTypeOfInsert ==
  ASSUME TypeOK, DriveInv, InsertTask
  PROVE  RowType'
<1>1. /\ task \in Seq(TaskRow) /\ worker \in Seq(WorkerRow) /\ Len(worker) = Len(task)
      /\ job \in [Jobs -> JobRow] /\ cur.todo \in Seq(Nat)
  BY DEF TypeOK, TaskRow, WorkerRow, JobRow
<1>2. cur.job \in Jobs /\ cur.todo # <<>>
  BY HeldJobs DEF InsertTask, Submitting
<1>3. Head(cur.todo) \in Nat
  BY <1>1, <1>2
<1> DEFINE r == [job |-> cur.job, part |-> Head(cur.todo), status |-> "PENDING"]
<1>4. r \in TaskRow
  BY <1>2, <1>3 DEF TaskRow, TaskStatus
<1>5. Unsent \in WorkerRow
  BY DEF Unsent, WorkerRow, WorkerPhases
<1> HIDE DEF r
<1>6. task' = Append(task, r) /\ worker' = Append(worker, Unsent) /\ job' = job
  BY DEF InsertTask, r
<1> QED
  BY <1>1, <1>4, <1>5, <1>6, Appended DEF RowType

\* So does every step of a worker.
LEMMA RowTypeOfWorker ==
  ASSUME TypeOK, NEW t \in Ids, WorkerStep(t) \/ WorkerDies(t)
  PROVE  RowType'
<1>1. /\ task \in [Ids -> TaskRow] /\ worker \in [Ids -> WorkerRow] /\ job \in [Jobs -> JobRow]
      /\ task[t].job \in Jobs /\ worker[t] \in WorkerRow
  BY TypeFacts DEF TaskRow
<1>2. \A ph \in WorkerPhases : [worker EXCEPT ![t].ph = ph] \in [Ids -> WorkerRow]
  BY <1>1 DEF WorkerRow
<1>3. ASSUME UNCHANGED <<job, task>>, worker' \in [Ids -> WorkerRow] PROVE RowType'
  BY <1>1, <1>3, RowTypeOfRows
<1>4. CASE ReceiveTask(t) \/ WorkerConfigFails(t) \/ ReturnResult(t) \/ WorkerDies(t)
  <2>1. \E ph \in WorkerPhases : worker' = [worker EXCEPT ![t].ph = ph]
    BY <1>4 DEF ReceiveTask, WorkerConfigFails, ReturnResult, WorkerDies, MoveTo, WorkerPhases,
                Results, Recorded, Working
  <2>2. UNCHANGED <<job, task>>
    BY <1>4 DEF ReceiveTask, WorkerConfigFails, ReturnResult, WorkerDies
  <2> QED
    BY <2>1, <2>2, <1>2, <1>3, Zenon
<1>5. CASE UploadArchive(t) \/ DropArchive(t)
  <2>1. worker' \in [Ids -> WorkerRow]
    BY <1>5, <1>1 DEF UploadArchive, DropArchive, WorkerRow, WorkerPhases, Working
  <2>2. UNCHANGED <<job, task>>
    BY <1>5, Zenon DEF UploadArchive, DropArchive
  <2> QED
    BY <2>1, <2>2, <1>3, Zenon
<1>6. CASE ListArchive(t)
  <2>1. worker' \in [Ids -> WorkerRow]
    <3>1. \/ worker' = [worker EXCEPT ![t].listed = @ + 1, ![t].ph = "running"]
          \/ worker' = [worker EXCEPT ![t].ph = "exception"]
      BY <1>6 DEF ListArchive
    <3>2. CASE worker' = [worker EXCEPT ![t].listed = @ + 1, ![t].ph = "running"]
      <4>1. PICK n \in Nat : n = worker[t].listed + 1
        BY <1>1 DEF WorkerRow
      <4>2. [worker EXCEPT ![t].listed = n] \in [Ids -> WorkerRow]
        BY <1>1 DEF WorkerRow
      <4>3. "running" \in WorkerPhases
        BY DEF WorkerPhases, Working
      <4> DEFINE v == [worker EXCEPT ![t].listed = n]
      <4>4. worker' = [v EXCEPT ![t].ph = "running"]
        BY <3>2, <4>1, <1>1 DEF WorkerRow
      <4> HIDE DEF v
      <4> QED
        BY <4>2, <4>3, <4>4, Zenon DEF WorkerRow, v
    <3>3. CASE worker' = [worker EXCEPT ![t].ph = "exception"]
      BY <3>3, <1>2 DEF WorkerPhases, Results
    <3> QED
      BY <3>1, <3>2, <3>3, Zenon
  <2>2. UNCHANGED <<job, task>>
    BY <1>6 DEF ListArchive
  <2> QED
    BY <2>1, <2>2, <1>3
<1>7. CASE RecordTask(t)
  <2>1. PICK ok \in BOOLEAN :
          /\ task' = [task EXCEPT ![t].status = StatusOf(t, ok)]
          /\ job' = IF StatusOf(t, ok) = "SUCCEEDED"
                    THEN [job EXCEPT ![task[t].job].completed = @ + 1] ELSE job
          /\ MoveTo(t, IF StatusOf(t, ok) = "SUCCEEDED" THEN "okRecorded" ELSE "failRecorded")
    BY <1>7, Zenon DEF RecordTask
  <2>2. StatusOf(t, ok) \in TaskStatus
    BY DEF StatusOf, TaskStatus
  <2>3. task' \in [Ids -> TaskRow]
    BY <2>1, <2>2, <1>1, Zenon DEF TaskRow
  <2>4. job' \in [Jobs -> JobRow]
    BY <2>1, <1>1 DEF JobRow
  <2>5. worker' \in [Ids -> WorkerRow]
    BY <2>1, <1>2, Zenon DEF MoveTo, WorkerPhases, Recorded
  <2> QED
    BY <2>3, <2>4, <2>5, RowTypeOfRows
<1> QED
  BY <1>4, <1>5, <1>6, <1>7, Zenon DEF WorkerStep

\* A step of the scheduler's own that changes job rows only by their status.
LEMMA StatusTyped ==
  ASSUME TypeOK, NEW j \in Jobs, NEW s \in {"PENDING", "RUNNING"} \cup Final,
         job' = [job EXCEPT ![j].status = s]
  PROVE  job' \in [Jobs -> JobRow]
  BY TypeFacts, Zenon DEF JobRow

\* Every step keeps the types of the database's rows and of the workers.
LEMMA RowTypeStep ==
  ASSUME TypeOK, DriveInv, TaskInv, [Next]_vars
  PROVE  RowType'
<1>0. /\ task \in [Ids -> TaskRow] /\ worker \in [Ids -> WorkerRow] /\ job \in [Jobs -> JobRow]
  BY TypeFacts
<1>1. ASSUME UNCHANGED <<job, task, worker>> PROVE RowType'
  BY <1>1, <1>0, RowTypeOfJobs
<1>2. ASSUME NEW j \in Jobs, NEW s \in {"PENDING", "RUNNING"} \cup Final,
             SetStatus(j, s), UNCHANGED <<task, worker>>
      PROVE  RowType'
  BY <1>2, StatusTyped, RowTypeOfJobs, Zenon DEF SetStatus
<1>3. CASE UNCHANGED vars
  BY <1>1, <1>3 DEF vars
<1>4. CASE Boot
  <2>1. task' \in [Ids -> TaskRow]
    BY <1>4, <1>0, Zenon DEF Boot, KillHanging, TaskRow, TaskStatus
  <2>2. job' \in [Jobs -> JobRow]
    BY <1>4, <1>0 DEF Boot, KillHanging, JobRow, Final
  <2>3. worker' \in [Ids -> WorkerRow]
    BY <1>4, <1>0 DEF Boot
  <2> QED
    BY <2>1, <2>2, <2>3, RowTypeOfRows
<1>5. CASE Search \/ BeginPoll \/ EndPoll \/ AddDataset \/ CreateTables \/ Submitted
            \/ Sigterm \/ Crash
  BY <1>1, <1>5 DEF Search, BeginPoll, EndPoll, AddDataset, CreateTables, Submitted, Sigterm,
                    Crash, db
<1>6. CASE StartJob
  <2>1. cur.job \in Jobs /\ Len(cur.todo) \in Nat
    BY <1>6, HeldJobs, TypeFacts DEF StartJob, Preparing
  <2>2. job' \in [Jobs -> JobRow]
    BY <1>6, <2>1, <1>0, Zenon DEF StartJob, JobRow
  <2> QED
    BY <1>6, <2>2, RowTypeOfJobs DEF StartJob
<1>7. CASE InsertTask
  BY <1>7, RowTypeOfInsert
<1>8. CASE PublishTask
  <2>1. PICK i \in DOMAIN cur.ids : worker' = [worker EXCEPT ![cur.ids[i]].ph = "queued"]
    BY <1>8, Zenon DEF PublishTask
  <2>2. cur.ids[i] \in Ids
    BY DEF TaskInv, TasksOf
  <2>3. worker' \in [Ids -> WorkerRow]
    BY <2>1, <2>2, <1>0, Zenon DEF WorkerRow, WorkerPhases
  <2>4. UNCHANGED <<job, task>>
    BY <1>8 DEF PublishTask, db
  <2> QED
    BY <2>3, <2>4, <1>0, RowTypeOfRows
<1>9. CASE MarkRunning
  <2>1. task' \in [Ids -> TaskRow]
    BY <1>9, <1>0, Zenon DEF MarkRunning, TaskRow, TaskStatus
  <2> QED
    BY <1>9, <2>1, <1>0, RowTypeOfRows, Zenon DEF MarkRunning
<1>10. ASSUME NEW j \in Jobs, SkipJob(j) \/ AcceptJob(j) \/ PollNotReady(j) \/ PollNextBatch(j)
       PROVE  RowType'
  BY <1>1, <1>10 DEF SkipJob, AcceptJob, PollNotReady, PollNextBatch, db
<1>11. ASSUME NEW j \in Jobs, RejectJob(j) \/ PollFailed(j) \/ PollRaises(j) \/ PollCompleted(j)
       PROVE  RowType'
  <2>1. \E s \in Final : SetStatus(j, s)
    BY <1>11, Zenon DEF RejectJob, PollFailed, PollRaises, PollCompleted, HandleFailed, Final
  <2>2. UNCHANGED <<task, worker>>
    BY <1>11 DEF RejectJob, PollFailed, PollRaises, PollCompleted, HandleFailed
  <2> QED
    BY <2>1, <2>2, <1>2, Zenon
<1>12. ASSUME NEW j \in Jobs, SubmitJob(j) \/ CoordinatorFinishes(j)
       PROVE  RowType'
  <2>1. \E s \in {"PENDING"} \cup Final : SetStatus(j, s)
    BY <1>12, Zenon DEF SubmitJob, CoordinatorFinishes, Final
  <2>2. UNCHANGED <<task, worker>>
    BY <1>12 DEF SubmitJob, CoordinatorFinishes
  <2> QED
    BY <2>1, <2>2, <1>2, Zenon
<1>13. ASSUME NEW j \in Jobs, CoordinatorClaims(j)
       PROVE  RowType'
  <2>1. job' \in [Jobs -> JobRow]
    BY <1>13, <1>0, Zenon DEF CoordinatorClaims, JobRow
  <2> QED
    BY <1>13, <2>1, RowTypeOfJobs DEF CoordinatorClaims
<1>14. ASSUME NEW t \in Ids, WorkerStep(t) \/ WorkerDies(t)
       PROVE  RowType'
  BY <1>14, RowTypeOfWorker
<1> QED
  BY <1>3, <1>4, <1>5, <1>6, <1>7, <1>8, <1>9, <1>10, <1>11, <1>12, <1>13, <1>14
  DEF Next, ScheduleStep, Environment

\* Every step keeps the types of the scheduler's memory.
LEMMA MemTypeStep ==
  ASSUME TypeOK, DriveInv, TaskInv, [Next]_vars
  PROVE  MemType'
<1>0. /\ fetched \subseteq Jobs /\ cur \in CurRecord /\ DOMAIN scheduled \subseteq Jobs
      /\ \A j \in DOMAIN scheduled : scheduled[j] \in Entry
      /\ toPoll \subseteq DOMAIN scheduled
  BY DEF TypeOK, CurRecord, Entry
<1>1. ASSUME UNCHANGED <<fetched, cur, scheduled, toPoll>> PROVE MemType'
  BY <1>0, <1>1 DEF MemType
<1>2. CASE UNCHANGED vars
  BY <1>1, <1>2 DEF vars, memory
<1>3. CASE Boot \/ Sigterm \/ AddDataset \/ CreateTables \/ PublishTask
  BY <1>1, <1>3, Zenon DEF Boot, Sigterm, AddDataset, CreateTables, PublishTask, memory
<1>4. ASSUME NEW t \in Ids, WorkerStep(t) \/ WorkerDies(t)
      PROVE  MemType'
  BY <1>1, <1>4, Zenon DEF WorkerStep, WorkerDies, ReceiveTask, WorkerConfigFails, UploadArchive,
                    DropArchive, ListArchive, RecordTask, ReturnResult, WorkerFrame, memory
<1>5. ASSUME NEW j \in Jobs, SubmitJob(j) \/ CoordinatorClaims(j) \/ CoordinatorFinishes(j)
      PROVE  MemType'
  BY <1>1, <1>5 DEF SubmitJob, CoordinatorClaims, CoordinatorFinishes, memory
<1>6. ASSUME NEW how, Ends(how) PROVE MemType'
  BY <1>6, IdleTyped DEF Ends, MemType
<1>7. CASE Crash
  BY <1>6, <1>7, Zenon DEF Crash
<1>8. CASE EndPoll
  BY <1>6, <1>1, <1>8, Zenon DEF EndPoll, memory
<1>9. CASE Search
  BY <1>0, <1>9 DEF Search, MemType, NewJobs
<1>10. CASE BeginPoll
  BY <1>0, <1>10, Zenon DEF BeginPoll, MemType
<1>11. CASE StartJob
  <2>1. cur' \in CurRecord
    <3> DEFINE split == BatchTasks(cur.todo)
    <3>1. split[1] \in Seq(Nat) /\ split[2] \in Seq(Nat)
      BY Batched, <1>0, Zenon DEF CurRecord
    <3>2. cur' = [cur EXCEPT !.todo = split[1], !.rest = split[2]]
      BY <1>11 DEF StartJob
    <3> HIDE DEF split
    <3> QED
      BY <1>0, <3>1, <3>2, Zenon DEF CurRecord
  <2> QED
    BY <1>0, <1>11, <2>1 DEF StartJob, MemType
<1>12. CASE InsertTask
  <2>1. cur' \in CurRecord
    <3>1. Len(task) + 1 \in Nat
      BY TypeFacts
    <3>2. Append(cur.ids, Len(task) + 1) \in Seq(Nat) /\ Tail(cur.todo) \in Seq(Nat)
      BY <3>1, <1>0, <1>12 DEF InsertTask, CurRecord
    <3> QED
      BY <3>2, <1>0, <1>12, Zenon DEF InsertTask, CurRecord
  <2> QED
    BY <1>0, <1>12, <2>1 DEF InsertTask, MemType
<1>13. CASE Submitted
  <2>1. cur.job \in Jobs
    BY <1>13, HeldJobs, Zenon DEF Submitted, Submitting
  <2>2. [rest |-> cur.rest, batch |-> cur.ids] \in Entry
    BY <1>0, Zenon DEF CurRecord, Entry
  <2>3. scheduled' = [j \in DOMAIN scheduled \cup {cur.job} |->
                        IF j = cur.job THEN [rest |-> cur.rest, batch |-> cur.ids]
                                       ELSE scheduled[j]]
    BY <1>13 DEF Submitted
  <2> QED
    BY <1>0, <1>13, <2>1, <2>2, <2>3, Zenon DEF Submitted, MemType
<1>14. CASE MarkRunning
  BY <1>0, <1>14, IdleTyped, Zenon DEF MarkRunning, MemType
<1>15. ASSUME NEW j \in Jobs, RejectJob(j) \/ SkipJob(j) \/ PollNotReady(j)
       PROVE  MemType'
  BY <1>0, <1>15, Zenon DEF RejectJob, SkipJob, PollNotReady, MemType
<1>16. ASSUME NEW j \in Jobs, AcceptJob(j)
       PROVE  MemType'
  <2>1. PICK n \in PartCounts(j) :
          cur' = [job |-> j, todo |-> [i \in 1..n |-> i], ids |-> <<>>, rest |-> <<>>, first |-> TRUE]
    BY <1>16, Zenon DEF AcceptJob
  <2>2. n \in Nat
    BY SchedulerConstants DEF PartCounts
  <2>3. [i \in 1..n |-> i] \in Seq(Nat)
    BY <2>2
  <2>4. cur' \in CurRecord
    BY <2>1, <2>3 DEF CurRecord
  <2> QED
    BY <1>0, <1>16, <2>4 DEF AcceptJob, MemType
<1>17. ASSUME NEW j \in Jobs, PollFailed(j) \/ PollRaises(j) \/ PollCompleted(j)
       PROVE  MemType'
  <2>1. scheduled' = Restrict(scheduled, DOMAIN scheduled \ {j}) /\ toPoll' = toPoll \ {j}
        /\ UNCHANGED <<fetched, cur>>
    BY <1>17, Zenon DEF PollFailed, PollRaises, PollCompleted, HandleFailed
  <2> QED
    BY <1>0, <2>1, Zenon DEF MemType, Restrict
<1>18. ASSUME NEW j \in Jobs, PollNextBatch(j)
       PROVE  MemType'
  <2> DEFINE split == BatchTasks(scheduled[j].rest)
  <2>1. scheduled[j].rest \in Seq(Nat)
    BY <1>0, <1>18 DEF PollNextBatch, Entry
  <2>2. split[1] \in Seq(Nat) /\ split[2] \in Seq(Nat)
    BY <2>1, Batched, Zenon
  <2>3. cur' = [job |-> j, todo |-> split[1], ids |-> <<>>, rest |-> split[2], first |-> FALSE]
    BY <1>18, Zenon DEF PollNextBatch
  <2> HIDE DEF split
  <2>4. cur' \in CurRecord
    BY <2>2, <2>3 DEF CurRecord
  <2> QED
    BY <1>0, <1>18, <2>4, Zenon DEF PollNextBatch, MemType
<1> QED
  BY <1>2, <1>3, <1>4, <1>5, <1>7, <1>8, <1>9, <1>10, <1>11, <1>12, <1>13, <1>14, <1>15, <1>16,
     <1>17, <1>18
  DEF Next, ScheduleStep, Environment

\* Every step keeps TypeOK.
LEMMA TypeStep ==
  ASSUME TypeOK, DriveInv, TaskInv, [Next]_vars
  PROVE  TypeOK'
<1>1. RowType' /\ MemType'
  BY RowTypeStep, MemTypeStep, Zenon
<1>2. /\ pc' \in {"down", "exited", "search", "schedule", "dataset", "tables", "start",
                  "insert", "mark", "poll"}
      /\ sigterm' \in BOOLEAN
  <2>1. /\ pc \in {"down", "exited", "search", "schedule", "dataset", "tables", "start",
                   "insert", "mark", "poll"}
        /\ sigterm \in BOOLEAN
    BY Zenon DEF TypeOK
  <2>2. CASE \/ Search \/ BeginPoll \/ EndPoll \/ AddDataset \/ CreateTables \/ StartJob
             \/ InsertTask \/ PublishTask \/ Submitted \/ MarkRunning
    BY <2>1, <2>2, Zenon
    DEF memory, db, Ends, Search, BeginPoll, EndPoll, AddDataset, CreateTables, StartJob, InsertTask,
        PublishTask, Submitted, MarkRunning
  <2>3. ASSUME NEW j \in Jobs,
               \/ RejectJob(j) \/ SkipJob(j) \/ AcceptJob(j) \/ PollNotReady(j)
               \/ PollFailed(j) \/ PollNextBatch(j) \/ PollCompleted(j) \/ PollRaises(j)
        PROVE  /\ pc' \in {pc, "dataset", "start", "insert"}
               /\ sigterm' = sigterm
    BY <2>3, Zenon
    DEF RejectJob, SkipJob, AcceptJob, PollNotReady, PollFailed, PollNextBatch, PollCompleted,
        PollRaises, HandleFailed, Ends
  <2>4. CASE \E t \in Ids : WorkerStep(t) \/ WorkerDies(t)
    <3>1. UNCHANGED <<pc, sigterm>>
      BY <2>4, Zenon
      DEF memory, db, WorkerStep, ReceiveTask, WorkerConfigFails, UploadArchive, DropArchive, ListArchive,
          RecordTask, ReturnResult, WorkerDies, WorkerFrame
    <3> QED BY <2>1, <3>1, Zenon
  <2>5. CASE \/ Boot \/ Sigterm \/ Crash \/ UNCHANGED vars
             \/ \E j \in Jobs : SubmitJob(j) \/ CoordinatorClaims(j) \/ CoordinatorFinishes(j)
    BY <2>1, <2>5, Zenon
    DEF db, Ends, Boot, Sigterm, Crash, vars, memory, SubmitJob, CoordinatorClaims, CoordinatorFinishes
  <2> QED
    BY <2>1, <2>2, <2>3, <2>4, <2>5, Zenon DEF Next, ScheduleStep, Environment
<1>3. faults' \in 0..MaxFaults
  <2>1. faults' = faults \/ (faults < MaxFaults /\ faults' = faults + 1)
    BY Zenon DEF vars, memory, Next, ScheduleStep, Environment, WorkerStep, Boot, Search, BeginPoll,
         EndPoll, AddDataset, CreateTables, StartJob, InsertTask, PublishTask, Submitted, MarkRunning,
         RejectJob, SkipJob, AcceptJob, PollNotReady, PollFailed, PollNextBatch, PollCompleted,
         ReceiveTask, WorkerConfigFails, UploadArchive, DropArchive, ListArchive, RecordTask,
         ReturnResult, WorkerDies, Sigterm, Crash, SubmitJob, CoordinatorClaims,
         CoordinatorFinishes, PollRaises
  <2> QED
    BY <2>1, SchedulerConstants DEF TypeOK
<1>4. datasets' \subseteq Range(Dataset) /\ tables' \subseteq Range(Dataset)
  <2>1. \/ UNCHANGED <<datasets, tables>>
        \/ AddDataset \/ CreateTables
    BY Zenon DEF vars, memory, db, Next, ScheduleStep, Environment, WorkerStep, Boot, Search, BeginPoll,
         EndPoll, StartJob, InsertTask, PublishTask, Submitted, MarkRunning,
         RejectJob, SkipJob, AcceptJob, PollNotReady, PollFailed, PollNextBatch, PollCompleted,
         ReceiveTask, WorkerConfigFails, UploadArchive, DropArchive, ListArchive, RecordTask,
         ReturnResult, WorkerDies, WorkerFrame, Sigterm, Crash, SubmitJob, CoordinatorClaims,
         CoordinatorFinishes, PollRaises, HandleFailed
  <2>2. AddDataset \/ CreateTables => Dataset[cur.job] \in Range(Dataset)
    BY HeldJobs, SchedulerConstants DEF AddDataset, CreateTables, Preparing, Range
  <2> QED
    BY <2>1, <2>2, Zenon DEF TypeOK, AddDataset, CreateTables
<1> QED
  BY <1>1, <1>2, <1>3, <1>4, Zenon
  DEF TypeOK, RowType, MemType, JobRow, TaskRow, WorkerRow, CurRecord, Entry

-----------------------------------------------------------------------------
\* A step that changes neither a status nor the scheduler's memory keeps DriveInv.
LEMMA DriveKept ==
  ASSUME TypeOK, DriveInv, UNCHANGED <<pc, fetched, cur>>, DOMAIN scheduled' = DOMAIN scheduled,
         \A j \in Jobs : job'[j].status = job[j].status /\ job'[j].spider = job[j].spider
  PROVE  DriveInv'
<1>1. fetched \subseteq Jobs /\ DOMAIN scheduled \subseteq Jobs
  BY DEF TypeOK
<1> QED
  BY <1>1 DEF DriveInv, Running, CoordinatorOwns

\* The statuses and owners after a step that writes one status.
LEMMA StatusSet ==
  ASSUME TypeOK, NEW j \in Jobs, NEW s, SetStatus(j, s)
  PROVE  /\ job'[j].status = s
         /\ \A k \in Jobs \ {j} : job'[k] = job[k]
         /\ \A k \in Jobs : job'[k].spider = job[k].spider
<1>1. job \in [Jobs -> JobRow]
  BY TypeFacts
<1>2. job' = [job EXCEPT ![j].status = s]
  BY DEF SetStatus
<1> QED
  BY <1>1, <1>2 DEF JobRow

\* Clients and the coordinator write rows that the scheduler does not hold.
LEMMA DriveOfClients ==
  ASSUME TypeOK, DriveInv, NEW j \in Jobs,
         SubmitJob(j) \/ CoordinatorClaims(j) \/ CoordinatorFinishes(j)
  PROVE  DriveInv'
<1>1. UNCHANGED <<pc, fetched, cur, scheduled>>
  BY DEF SubmitJob, CoordinatorClaims, CoordinatorFinishes, memory
<1>2. \A k \in Jobs \ {j} : job'[k] = job[k]
  BY StatusSet, TypeFacts, Zenon DEF SubmitJob, CoordinatorClaims, CoordinatorFinishes, Final
<1>3. fetched \subseteq Jobs /\ DOMAIN scheduled \subseteq Jobs
  BY Zenon DEF TypeOK
<1>4. CASE SubmitJob(j)
  <2>1. job[j].status = "NONE" /\ job'[j].status = "PENDING" /\ job'[j].spider = job[j].spider
    BY <1>4, StatusSet, Zenon DEF SubmitJob
  <2> QED
    BY <1>1, <1>2, <1>3, <2>1 DEF DriveInv, Running, CoordinatorOwns
<1>5. CASE CoordinatorClaims(j)
  <2>1. CoordinatorOwns(j) /\ job[j].status = "PENDING" /\ job'[j].spider = TRUE
    BY <1>5, TypeFacts, Zenon DEF CoordinatorClaims, JobRow
  <2> QED
    BY <1>1, <1>2, <1>3, <2>1 DEF DriveInv, Running, CoordinatorOwns
<1>6. CASE CoordinatorFinishes(j)
  <2>1. /\ CoordinatorOwns(j) /\ job'[j].spider = job[j].spider
        /\ \/ job'[j].status = "FAILED"
           \/ job[j].status = "RUNNING"
    BY <1>6, StatusSet, Zenon DEF CoordinatorFinishes
  <2>2. job[j].status = "RUNNING" => job[j].spider
    BY <2>1, Zenon DEF DriveInv
  <2> QED
    BY <1>1, <1>2, <1>3, <2>1, <2>2 DEF DriveInv, Running, CoordinatorOwns
<1> QED
  BY <1>4, <1>5, <1>6, Zenon

\* kill_hanging_jobs leaves no RUNNING row of the scheduler.
LEMMA DriveOfBoot ==
  ASSUME TypeOK, DriveInv, Boot
  PROVE  DriveInv'
<1>1. /\ pc' = "search" /\ UNCHANGED <<fetched, cur, scheduled>> /\ ~Running
  BY Zenon DEF Boot
<1>2. fetched = {} /\ DOMAIN scheduled = {} /\ cur = Idle
  BY <1>1 DEF DriveInv, Running, Preparing, Submitting
<1>3. \A j \in Jobs :
        /\ job'[j].spider = job[j].spider
        /\ job'[j].status = IF j \in HangingJobs THEN "KILLED" ELSE job[j].status
  BY TypeFacts, Zenon DEF Boot, KillHanging, JobRow
<1>4. \A j \in Jobs : job[j].status = "RUNNING" /\ ~CoordinatorOwns(j) => j \in HangingJobs
  BY Zenon DEF DriveInv, HangingJobs
<1>5. \A j \in HangingJobs : ~CoordinatorOwns(j)
  BY Zenon DEF DriveInv, HangingJobs
<1> QED
  BY <1>1, <1>2, <1>3, <1>4, <1>5, Zenon DEF DriveInv, Running, CoordinatorOwns, Preparing, Submitting

\* A crash, or the end of the loop, forgets what the scheduler held.
LEMMA DriveOfEnds ==
  ASSUME TypeOK, DriveInv, UNCHANGED job,
         Ends("down") \/ (Ends("exited") /\ pc = "poll" /\ DOMAIN scheduled = {})
  PROVE  DriveInv'
<1>1. /\ fetched' = {} /\ cur' = Idle /\ scheduled' = NoEntries /\ pc' \in {"down", "exited"}
      /\ pc' = "exited" => pc = "poll" /\ DOMAIN scheduled = {}
  BY DEF Ends
<1>2. DOMAIN scheduled' = {}
  BY <1>1, IdleTyped, Zenon
<1>3. pc = "poll" => cur.job = NoJob
  BY DEF DriveInv, Idle, Preparing, Submitting
<1>4. \A j \in Jobs : pc' = "exited" /\ job[j].status = "RUNNING" => CoordinatorOwns(j)
  BY <1>1, <1>3, SchedulerConstants DEF DriveInv, Running
<1> QED
  BY <1>1, <1>2, <1>4, Zenon DEF DriveInv, Running, CoordinatorOwns, Preparing, Submitting

\* The steps of search_and_schedule_new_tasks that concern the job at hand.
LEMMA DriveOfSchedule ==
  ASSUME TypeOK, DriveInv,
         Search \/ BeginPoll \/ AddDataset \/ CreateTables \/ StartJob \/ InsertTask
           \/ Submitted \/ MarkRunning
  PROVE  DriveInv'
<1>0. fetched \subseteq Jobs /\ DOMAIN scheduled \subseteq Jobs
  BY Zenon DEF TypeOK
<1> USE DEF DriveInv, Running, CoordinatorOwns, Preparing, Submitting
<1>1. CASE Search
  <2>1. /\ UNCHANGED <<job, cur, scheduled>> /\ pc = "search" /\ pc' = "schedule"
        /\ \A j \in fetched' : job[j].status = "PENDING"
    BY <1>1, Zenon DEF Search, db, NewJobs
  <2> QED
    BY <2>1, <1>0, Zenon
<1>2. CASE BeginPoll
  <2>1. /\ UNCHANGED <<job, cur, scheduled, fetched>> /\ pc = "schedule" /\ pc' = "poll"
    BY <1>2 DEF BeginPoll, db
  <2> QED
    BY <2>1, <1>0, Zenon
<1>3. CASE AddDataset \/ CreateTables
  <2>1. /\ UNCHANGED <<job, cur, scheduled, fetched>>
        /\ pc \in {"dataset", "tables"} /\ pc' \in {"tables", "start"}
    BY <1>3, Zenon DEF AddDataset, CreateTables, memory
  <2> QED
    BY <2>1, <1>0, Zenon
<1>4. CASE StartJob
  <2>1. /\ UNCHANGED <<scheduled, fetched>> /\ pc = "start" /\ pc' = "insert"
        /\ cur'.job = cur.job /\ cur'.first = cur.first
        /\ job'[cur.job].status = "RUNNING" /\ job'[cur.job].spider = job[cur.job].spider
        /\ \A j \in Jobs \ {cur.job} : job'[j] = job[j]
    BY <1>4, TypeFacts DEF StartJob, TypeOK, JobRow
  <2>2. cur.job \notin DOMAIN scheduled
    BY <2>1, Zenon
  <2>3. cur.first
    BY <2>1, Zenon
  <2> QED
    BY <2>1, <2>2, <2>3, <1>0
<1>5. CASE InsertTask
  <2>1. /\ UNCHANGED <<job, scheduled, fetched, pc>> /\ pc = "insert"
        /\ cur'.job = cur.job /\ cur'.first = cur.first
    BY <1>5, Zenon DEF InsertTask, TypeOK
  <2> QED
    BY <2>1, <1>0, Zenon
<1>6. CASE Submitted
  <2>1. /\ UNCHANGED <<job, fetched, cur>> /\ pc = "insert" /\ pc' = "mark"
        /\ DOMAIN scheduled' = DOMAIN scheduled \cup {cur.job}
    BY <1>6, Zenon DEF Submitted, db
  <2> QED
    BY <2>1, <1>0, Zenon
<1>7. CASE MarkRunning
  <2>1. /\ UNCHANGED <<job, fetched, scheduled>> /\ pc = "mark" /\ pc' \in {"schedule", "poll"}
        /\ cur' = Idle
    BY <1>7, Zenon DEF MarkRunning
  <2> QED
    BY <2>1, <1>0, Zenon
<1> QED
  BY <1>1, <1>2, <1>3, <1>4, <1>5, <1>6, <1>7, Zenon

\* Between jobs the scheduler prepares none.
LEMMA NothingAtHand ==
  ASSUME DriveInv, pc \in {"schedule", "poll"}
  PROVE  cur = Idle /\ cur.job \notin Jobs
<1>1. pc \notin Preparing \cup Submitting
  BY DEF Preparing, Submitting
<1>2. cur = Idle
  BY <1>1, Zenon DEF DriveInv
<1> QED
  BY <1>2, SchedulerConstants DEF Idle

\* The steps that take a fetched or a polled job.
LEMMA DriveOfJob ==
  ASSUME TypeOK, DriveInv, NEW j \in Jobs,
         RejectJob(j) \/ SkipJob(j) \/ AcceptJob(j) \/ PollFailed(j) \/ PollRaises(j)
           \/ PollNextBatch(j) \/ PollCompleted(j)
  PROVE  DriveInv'
<1>0. fetched \subseteq Jobs /\ DOMAIN scheduled \subseteq Jobs /\ toPoll \subseteq DOMAIN scheduled
  BY Zenon DEF TypeOK
<1> USE DEF DriveInv, Running, CoordinatorOwns, Preparing, Submitting
<1>1. CASE RejectJob(j)
  <2>1. /\ UNCHANGED <<scheduled, cur, pc>> /\ pc = "schedule" /\ fetched' = fetched \ {j}
        /\ j \in fetched /\ ~CoordinatorOwns(j) /\ SetStatus(j, "FAILED")
    BY <1>1, Zenon DEF RejectJob
  <2>2. /\ job'[j].status = "FAILED" /\ \A k \in Jobs : job'[k].spider = job[k].spider
        /\ \A k \in Jobs \ {j} : job'[k] = job[k]
    BY <2>1, StatusSet, Zenon
  <2>3. "RUNNING" # "FAILED" /\ job[j].status = "PENDING"
    BY <2>1, Zenon
  <2> QED
    BY <2>1, <2>2, <2>3, <1>0
<1>2. CASE SkipJob(j)
  <2>1. UNCHANGED <<job, scheduled, cur, pc>> /\ pc = "schedule" /\ fetched' = fetched \ {j}
    BY <1>2, Zenon DEF SkipJob, db
  <2> QED
    BY <2>1, <1>0, Zenon
<1>3. CASE AcceptJob(j)
  <2>1. /\ UNCHANGED <<job, scheduled>> /\ pc = "schedule" /\ pc' \in {"start", "dataset"}
        /\ fetched' = fetched \ {j} /\ cur'.job = j /\ cur'.first /\ j \in fetched /\ ~CoordinatorOwns(j)
    <3> HIDE DEF DriveInv, Running, CoordinatorOwns, Preparing, Submitting
    <3>1. /\ UNCHANGED <<job, scheduled>> /\ pc = "schedule" /\ pc' \in {"start", "dataset"}
          /\ fetched' = fetched \ {j} /\ j \in fetched
      BY <1>3, Zenon DEF AcceptJob, db, Startable
    <3>2. cur'.job = j /\ cur'.first
      BY <1>3 DEF AcceptJob
    <3>3. ~CoordinatorOwns(j)
      BY <1>3, Zenon DEF AcceptJob, Startable
    <3> QED
      BY <3>1, <3>2, <3>3, Zenon
  <2>2. cur.job \notin Jobs
    BY <2>1, NothingAtHand
  <2> QED
    BY <2>1, <2>2, <1>0, Zenon
<1>4. CASE PollFailed(j) \/ PollRaises(j) \/ PollCompleted(j)
  <2>1. PICK s \in Final : SetStatus(j, s)
    BY <1>4, Zenon DEF PollFailed, PollRaises, PollCompleted, HandleFailed, Final
  <2>2. /\ UNCHANGED <<cur, pc, fetched>> /\ pc = "poll" /\ j \in toPoll
        /\ scheduled' = Restrict(scheduled, DOMAIN scheduled \ {j})
    BY <1>4, Zenon DEF PollFailed, PollRaises, PollCompleted, HandleFailed
  <2>3. DOMAIN scheduled' = DOMAIN scheduled \ {j}
    BY <2>2, Zenon DEF Restrict
  <2>4. /\ job'[j].status \in Final /\ \A k \in Jobs : job'[k].spider = job[k].spider
        /\ \A k \in Jobs \ {j} : job'[k] = job[k]
    <3> HIDE DEF DriveInv, Running, CoordinatorOwns, Preparing, Submitting
    <3> QED
      BY <2>1, StatusSet, Zenon
  <2>5. "RUNNING" \notin Final /\ job[j].status = "RUNNING" /\ ~CoordinatorOwns(j)
    BY <2>2, <1>0, Zenon DEF Final
  <2>6. \A k \in Jobs : job'[k].status = "RUNNING" => k # j /\ job[k].status = "RUNNING"
    BY <2>4, <2>5
  <2>7. cur' = Idle /\ pc' = "poll" /\ j # cur.job
    BY <2>2, <1>0, NothingAtHand, Zenon
  <2>8. \A k \in fetched' : CoordinatorOwns(k) \/ job'[k].status = "PENDING"
    BY <2>2, <2>4, <2>5, <1>0
  <2>9. \A k \in DOMAIN scheduled' : job'[k].status = "RUNNING" /\ ~CoordinatorOwns(k)
    BY <2>3, <2>4, <1>0, Zenon
  <2>10. \A k \in Jobs : job'[k].spider => CoordinatorOwns(k)
    BY <2>4, Zenon
  <2>11. \A k \in Jobs : CoordinatorOwns(k) /\ job'[k].status \in {"RUNNING", "SUCCEEDED", "KILLED"}
           => job'[k].spider
    BY <2>4, <2>5, Zenon
  <2>12. \A k \in Jobs : job'[k].status = "RUNNING" /\ ~CoordinatorOwns(k)
           => k \in DOMAIN scheduled' \/ k = cur'.job
    BY <2>2, <2>3, <2>6
  <2> QED
    BY <2>7, <2>8, <2>9, <2>10, <2>11, <2>12, Zenon
<1>5. CASE PollNextBatch(j)
  <2>1. /\ UNCHANGED <<job, scheduled, fetched>> /\ pc = "poll" /\ pc' = "insert"
        /\ cur'.job = j /\ j \in toPoll
    BY <1>5, Zenon DEF PollNextBatch, db
  <2>2. cur.job \notin Jobs
    BY <2>1, NothingAtHand, Zenon
  <2> QED
    BY <2>1, <2>2, <1>0, Zenon
<1> QED
  BY <1>1, <1>2, <1>3, <1>4, <1>5, Zenon

\* Every step keeps DriveInv.
LEMMA DriveStep ==
  ASSUME TypeOK, DriveInv, [Next]_vars
  PROVE  DriveInv'
<1>1. ASSUME NEW t \in Ids, WorkerStep(t) \/ WorkerDies(t)
      PROVE  DriveInv'
  <2>1. UNCHANGED <<pc, fetched, cur, scheduled>>
    BY <1>1, Zenon DEF WorkerStep, WorkerDies, ReceiveTask, WorkerConfigFails, UploadArchive,
                DropArchive, ListArchive, RecordTask, ReturnResult, WorkerFrame, memory
  <2>2. job' = job \/ job' = [job EXCEPT ![task[t].job].completed = @ + 1]
    BY <1>1, Zenon DEF WorkerStep, WorkerDies, ReceiveTask, WorkerConfigFails, UploadArchive,
                DropArchive, ListArchive, RecordTask, ReturnResult
  <2>3. \A j \in Jobs : job'[j].status = job[j].status /\ job'[j].spider = job[j].spider
    <3>1. CASE job' = job
      BY <3>1, Zenon
    <3>2. CASE job' = [job EXCEPT ![task[t].job].completed = @ + 1]
      <4>1. job \in [Jobs -> JobRow]
        BY TypeFacts
      <4> QED
        BY <4>1, <3>2, Zenon DEF JobRow
    <3> QED
      BY <2>2, <3>1, <3>2, Zenon
  <2> QED
    BY <2>1, <2>3, DriveKept, Zenon
<1>2. CASE UNCHANGED vars \/ Sigterm \/ PublishTask \/ \E j \in Jobs : PollNotReady(j)
  <2>1. UNCHANGED <<pc, fetched, cur, scheduled, job>>
    BY <1>2 DEF vars, memory, db, Sigterm, PublishTask, PollNotReady
  <2> QED
    BY <2>1, DriveKept, Zenon
<1>3. CASE Crash
  BY <1>3, DriveOfEnds DEF Crash, db
<1>4. CASE EndPoll
  <2>1. CASE MayExit
    BY <1>4, <2>1, DriveOfEnds, Zenon DEF EndPoll, MayExit, db
  <2>2. CASE ~MayExit
    <3>1. UNCHANGED <<job, fetched, cur, scheduled>> /\ pc = "poll" /\ pc' = "search"
      BY <1>4, <2>2, Zenon DEF EndPoll, db, memory
    <3>2. fetched \subseteq Jobs /\ DOMAIN scheduled \subseteq Jobs
      BY Zenon DEF TypeOK
    <3> QED
      BY <3>1, <3>2, Zenon DEF DriveInv, Running, CoordinatorOwns, Preparing, Submitting
  <2> QED
    BY <2>1, <2>2, Zenon
<1> QED
  BY <1>1, <1>2, <1>3, <1>4, DriveOfClients, DriveOfBoot, DriveOfSchedule, DriveOfJob, Zenon
  DEF Next, ScheduleStep, Environment

-----------------------------------------------------------------------------
\* What a step leaves of the rows and of the workers.
SameTasks ==
  /\ Ids' = Ids
  /\ \A t \in Ids : task'[t].job = task[t].job /\ task'[t].part = task[t].part

\* The tasks of each job are then the same ones.
LEMMA SameTasksOf ==
  ASSUME SameTasks, NEW j
  PROVE  TasksOf(j)' = TasksOf(j)
  BY Zenon DEF SameTasks, TasksOf

\* A worker's step: it moves on one task that has been published and has no
\* result yet, and counts it when it succeeds.
LEMMA WorkerEffect ==
  ASSUME TypeOK, NEW t \in Ids, WorkerStep(t) \/ WorkerDies(t)
  PROVE  /\ SameTasks
         /\ UNCHANGED <<pc, memory>>
         /\ \A u \in Ids \ {t} : worker'[u] = worker[u] /\ task'[u] = task[u]
         /\ worker[t].ph \in {"queued"} \cup Working \cup Recorded
         /\ worker'[t].ph \in Working \cup Recorded \cup Results \cup {"lost"}
         /\ task'[t].status \in {task[t].status, "SUCCEEDED", "FAILED"}
         /\ \/ /\ job' = [job EXCEPT ![task[t].job].completed = @ + 1]
               /\ worker[t].ph = "running" /\ worker'[t].ph = "okRecorded"
            \/ /\ job' = job
               /\ \/ worker'[t].ph \in {"exception", "lost"}
                  \/ worker'[t].ph \in {"okRecorded", "SUCCEEDED"}
                       <=> worker[t].ph \in {"okRecorded", "SUCCEEDED"}
<1>1. task \in [Ids -> TaskRow] /\ worker \in [Ids -> WorkerRow]
  BY TypeFacts, Zenon
<1>2. UNCHANGED <<pc, memory>>
  BY Zenon DEF WorkerStep, WorkerDies, ReceiveTask, WorkerConfigFails, UploadArchive,
         DropArchive, ListArchive, RecordTask, ReturnResult, WorkerFrame
<1>3. CASE RecordTask(t)
  <2>1. PICK ok \in BOOLEAN :
          /\ task' = [task EXCEPT ![t].status = StatusOf(t, ok)]
          /\ job' = IF StatusOf(t, ok) = "SUCCEEDED"
                    THEN [job EXCEPT ![task[t].job].completed = @ + 1] ELSE job
          /\ MoveTo(t, IF StatusOf(t, ok) = "SUCCEEDED" THEN "okRecorded" ELSE "failRecorded")
    BY <1>3, Zenon DEF RecordTask
  <2>2. StatusOf(t, ok) \in {"SUCCEEDED", "FAILED"}
    BY Zenon DEF StatusOf
  <2>3. /\ worker[t].ph = "running"
        /\ worker'[t].ph = IF StatusOf(t, ok) = "SUCCEEDED" THEN "okRecorded" ELSE "failRecorded"
        /\ \A u \in Ids \ {t} : worker'[u] = worker[u]
    BY <1>3, <1>1, <2>1 DEF RecordTask, At, MoveTo, WorkerRow
  <2>4. /\ Ids' = Ids
        /\ \A u \in Ids : task'[u].job = task[u].job /\ task'[u].part = task[u].part
        /\ \A u \in Ids \ {t} : task'[u] = task[u]
        /\ task'[t].status = StatusOf(t, ok)
    BY <1>1, <2>1 DEF Ids, TaskRow
  <2> QED
    BY <1>2, <2>1, <2>2, <2>3, <2>4, Zenon DEF SameTasks, Working, Recorded
<1>4. ASSUME ~RecordTask(t)
      PROVE  /\ SameTasks /\ job' = job
             /\ \A u \in Ids \ {t} : worker'[u] = worker[u] /\ task'[u] = task[u]
             /\ task'[t].status = task[t].status
             /\ worker[t].ph \in {"queued"} \cup Working \cup Recorded
             /\ worker'[t].ph \in Working \cup Recorded \cup Results \cup {"lost"}
             /\ \/ worker'[t].ph \in {"exception", "lost"}
                \/ worker'[t].ph \in {"okRecorded", "SUCCEEDED"}
                     <=> worker[t].ph \in {"okRecorded", "SUCCEEDED"}
  <2>1. UNCHANGED <<job, task>>
    BY <1>4 DEF WorkerStep, WorkerDies, ReceiveTask, WorkerConfigFails, UploadArchive,
                DropArchive, ListArchive, ReturnResult
  <2>2. SameTasks /\ \A u \in Ids : task'[u] = task[u]
    BY <2>1, Zenon DEF SameTasks, Ids
  <2>3. \E w : worker' = [worker EXCEPT ![t] = w]
    BY <1>4, <1>1, Zenon DEF WorkerStep, WorkerDies, ReceiveTask, WorkerConfigFails, UploadArchive,
                DropArchive, ListArchive, ReturnResult, MoveTo
  <2>4. \A u \in Ids \ {t} : worker'[u] = worker[u]
    BY <2>3, <1>1, Zenon
  <2>5. CASE ReceiveTask(t) \/ WorkerConfigFails(t) \/ UploadArchive(t) \/ DropArchive(t)
              \/ ListArchive(t)
    <3>1. worker[t].ph \in {"queued", "running", "commit"}
      BY <2>5, Zenon DEF ReceiveTask, WorkerConfigFails, UploadArchive, DropArchive, ListArchive, At
    <3>2. worker'[t].ph \in {"running", "commit", "FAILED", "exception"}
      BY <2>5, <1>1 DEF ReceiveTask, WorkerConfigFails, UploadArchive, DropArchive, ListArchive, At,
                        MoveTo, WorkerRow
    <3> QED
      BY <3>1, <3>2, <2>1, <2>2, <2>4, Zenon DEF Working, Recorded, Results
  <2>6. CASE ReturnResult(t)
    <3>1. worker[t].ph \in Recorded
          /\ worker'[t].ph = IF worker[t].ph = "okRecorded" THEN "SUCCEEDED" ELSE "FAILED"
      BY <2>6, <1>1, Zenon DEF ReturnResult, At, MoveTo, WorkerRow
    <3> QED
      BY <3>1, <2>1, <2>2, <2>4, Zenon DEF Working, Recorded, Results
  <2>7. CASE WorkerDies(t)
    <3>1. worker[t].ph \in Working \cup Recorded /\ worker'[t].ph \in {"exception", "lost"}
      BY <2>7, <1>1 DEF WorkerDies, At, MoveTo, WorkerRow
    <3> QED
      BY <3>1, <2>1, <2>2, <2>4, Zenon DEF Working, Recorded, Results
  <2> QED
    BY <1>4, <2>5, <2>6, <2>7, Zenon DEF WorkerStep
<1> QED
  BY <1>2, <1>3, <1>4

\* The steps that change neither rows nor workers, and those that change only
\* the status (or the owner) of one row.
Quiet ==
  \/ UNCHANGED vars
  \/ Search \/ BeginPoll \/ EndPoll \/ AddDataset \/ CreateTables \/ Submitted \/ Sigterm \/ Crash
  \/ \E j \in Jobs : SkipJob(j) \/ AcceptJob(j) \/ PollNotReady(j) \/ PollNextBatch(j)

StatusOnly(j) ==
  \/ SubmitJob(j) \/ CoordinatorClaims(j) \/ CoordinatorFinishes(j)
  \/ RejectJob(j) \/ PollFailed(j) \/ PollRaises(j) \/ PollCompleted(j)

\* The steps, by what they do to the rows.
LEMMA StepCases ==
  ASSUME [Next]_vars
  PROVE  \/ Quiet \/ Boot \/ StartJob \/ InsertTask \/ PublishTask \/ MarkRunning
         \/ \E j \in Jobs : StatusOnly(j)
         \/ \E t \in Ids : WorkerStep(t) \/ WorkerDies(t)
  BY Zenon DEF Next, ScheduleStep, Environment, Quiet, StatusOnly

\* A quiet step writes no job, task or worker.
LEMMA QuietEffect ==
  ASSUME Quiet
  PROVE  UNCHANGED <<job, task, worker>> /\ SameTasks
<1>1. UNCHANGED <<job, task, worker>>
  BY Zenon DEF Quiet, vars, db, Search, BeginPoll, EndPoll, AddDataset, CreateTables, Submitted, Sigterm,
         Crash, SkipJob, AcceptJob, PollNotReady, PollNextBatch
<1> QED
  BY <1>1 DEF SameTasks, Ids

\* The status a step may write over another, and who may write KILLED.
LEMMA StatusOnlyEffect ==
  ASSUME TypeOK, DriveInv, NEW j \in Jobs, StatusOnly(j)
  PROVE  /\ UNCHANGED <<task, worker>> /\ SameTasks
         /\ \A k \in Jobs \ {j} : job'[k] = job[k]
         /\ job'[j].numTasks = job[j].numTasks /\ job'[j].completed = job[j].completed
         /\ \/ job[j].status = "NONE" /\ job'[j].status = "PENDING"
            \/ job[j].status = "PENDING" /\ job'[j].status = "FAILED"
            \/ CoordinatorOwns(j) /\ job[j].status = "PENDING" /\ job'[j].status = "RUNNING"
            \/ CoordinatorOwns(j) /\ job[j].status = "RUNNING" /\ job'[j].status \in Final
            \/ job[j].status = "RUNNING" /\ job'[j].status = "FAILED"
            \/ job[j].status = "RUNNING" /\ job'[j].status = "SUCCEEDED" /\ PollCompleted(j)
         /\ CoordinatorOwns(j) => UNCHANGED <<pc, memory>>
         /\ pc' = pc /\ cur' = cur
<1>1. UNCHANGED <<task, worker, pc, cur>>
  BY DEF StatusOnly, SubmitJob, CoordinatorClaims, CoordinatorFinishes, RejectJob, PollFailed,
         PollRaises, PollCompleted, HandleFailed, memory
<1>2. SameTasks
  BY <1>1, Zenon DEF SameTasks, Ids
<1>3. job \in [Jobs -> JobRow]
  BY TypeFacts, Zenon
<1>4. \/ \E s : SetStatus(j, s)
      \/ job' = [job EXCEPT ![j].status = "RUNNING", ![j].spider = TRUE]
  BY DEF StatusOnly, SubmitJob, CoordinatorClaims, CoordinatorFinishes, RejectJob, PollFailed,
         PollRaises, PollCompleted, HandleFailed
<1>5. /\ \A k \in Jobs \ {j} : job'[k] = job[k]
      /\ job'[j].numTasks = job[j].numTasks /\ job'[j].completed = job[j].completed
  BY <1>3, <1>4 DEF SetStatus, JobRow
<1>6. \A s : SetStatus(j, s) => job'[j].status = s
  BY StatusSet, Zenon
<1>7. CASE SubmitJob(j) \/ CoordinatorFinishes(j)
  <2>1. UNCHANGED <<pc, memory>>
    BY <1>7, Zenon DEF SubmitJob, CoordinatorFinishes
  <2> QED
    BY <1>1, <1>2, <1>5, <1>6, <1>7, <2>1, Zenon DEF SubmitJob, CoordinatorFinishes
<1>8. CASE CoordinatorClaims(j)
  <2>1. UNCHANGED <<pc, memory>> /\ CoordinatorOwns(j) /\ job[j].status = "PENDING"
    BY <1>8 DEF CoordinatorClaims
  <2>2. job'[j].status = "RUNNING"
    BY <1>3, <1>8 DEF CoordinatorClaims, JobRow
  <2> QED
    BY <1>1, <1>2, <1>5, <2>1, <2>2, Zenon
<1>9. CASE RejectJob(j)
  <2>1. j \in fetched /\ ~CoordinatorOwns(j) /\ SetStatus(j, "FAILED")
    BY <1>9, Zenon DEF RejectJob
  <2>2. job[j].status = "PENDING"
    BY <2>1 DEF DriveInv
  <2> QED
    BY <1>1, <1>2, <1>5, <1>6, <2>1, <2>2, Zenon
<1>10. CASE PollFailed(j) \/ PollRaises(j) \/ PollCompleted(j)
  <2>1. j \in DOMAIN scheduled
    BY <1>10, Zenon DEF PollFailed, PollRaises, PollCompleted, TypeOK
  <2>2. job[j].status = "RUNNING" /\ ~CoordinatorOwns(j)
    BY <2>1, Zenon DEF DriveInv
  <2>3. SetStatus(j, "FAILED") \/ (SetStatus(j, "SUCCEEDED") /\ PollCompleted(j))
    BY <1>10 DEF PollFailed, PollRaises, PollCompleted, HandleFailed
  <2> QED
    BY <1>1, <1>2, <1>5, <1>6, <2>2, <2>3, Zenon
<1> QED
  BY <1>7, <1>8, <1>9, <1>10, Zenon DEF StatusOnly

\* What kill_hanging_jobs does to each row.
LEMMA BootEffect ==
  ASSUME TypeOK, DriveInv, Boot
  PROVE  /\ SameTasks /\ UNCHANGED <<worker, cur, scheduled>>
         /\ \A j \in Jobs :
              /\ job'[j].numTasks = job[j].numTasks /\ job'[j].completed = job[j].completed
              /\ job'[j].spider = job[j].spider
              /\ job'[j].status = IF j \in HangingJobs THEN "KILLED" ELSE job[j].status
              /\ CoordinatorOwns(j) => job'[j] = job[j]
         /\ \A t \in Ids : task'[t].status =
              IF task[t].job \in HangingJobs /\ task[t].status = "RUNNING" THEN "KILLED"
              ELSE task[t].status
<1>1. task \in [Ids -> TaskRow] /\ job \in [Jobs -> JobRow]
  BY TypeFacts
<1>2. /\ UNCHANGED <<worker, cur, scheduled>>
      /\ task' = [t \in Ids |-> IF task[t].job \in HangingJobs /\ task[t].status = "RUNNING"
                                THEN [task[t] EXCEPT !.status = "KILLED"]
                                ELSE task[t]]
      /\ job' = [j \in Jobs |-> IF j \in HangingJobs
                                THEN [job[j] EXCEPT !.status = "KILLED"]
                                ELSE job[j]]
  BY DEF Boot, KillHanging
<1>3. SameTasks
  BY <1>1, <1>2 DEF SameTasks, Ids, TaskRow
<1>4. \A j \in HangingJobs : ~CoordinatorOwns(j)
  BY DEF HangingJobs, DriveInv
<1>5. \A j \in Jobs :
        /\ job'[j].numTasks = job[j].numTasks /\ job'[j].completed = job[j].completed
        /\ job'[j].spider = job[j].spider
        /\ job'[j].status = IF j \in HangingJobs THEN "KILLED" ELSE job[j].status
        /\ CoordinatorOwns(j) => job'[j] = job[j]
  BY <1>1, <1>2, <1>4 DEF JobRow
<1>6. \A t \in Ids : task'[t].status =
        IF task[t].job \in HangingJobs /\ task[t].status = "RUNNING" THEN "KILLED"
        ELSE task[t].status
  BY <1>1, <1>2 DEF TaskRow
<1> QED
  BY <1>2, <1>3, <1>5, <1>6, Zenon

\* What _batch_and_submit_tasks does before it inserts tasks.
LEMMA StartEffect ==
  ASSUME TypeOK, DriveInv, StartJob
  PROVE  /\ UNCHANGED <<task, worker, scheduled>> /\ SameTasks
         /\ \A j \in Jobs \ {cur.job} : job'[j] = job[j]
         /\ cur.job \in Jobs /\ cur.job \notin DOMAIN scheduled /\ ~CoordinatorOwns(cur.job)
         /\ job[cur.job].status = "PENDING" /\ job'[cur.job].status = "RUNNING"
         /\ job'[cur.job].completed = job[cur.job].completed
         /\ job'[cur.job].numTasks = Len(cur.todo)
         /\ cur'.job = cur.job /\ cur'.ids = cur.ids
         /\ cur'.todo = BatchTasks(cur.todo)[1] /\ cur'.rest = BatchTasks(cur.todo)[2]
         /\ pc = "start" /\ pc' = "insert"
<1>1. job \in [Jobs -> JobRow] /\ cur \in CurRecord
  BY TypeFacts, Zenon DEF TypeOK, CurRecord
<1>2. /\ UNCHANGED <<task, worker, scheduled>> /\ pc = "start" /\ pc' = "insert"
      /\ job' = [job EXCEPT ![cur.job].status = "RUNNING", ![cur.job].numTasks = Len(cur.todo)]
      /\ cur' = [cur EXCEPT !.todo = BatchTasks(cur.todo)[1], !.rest = BatchTasks(cur.todo)[2]]
  BY Zenon DEF StartJob
<1>3. /\ cur.job \in Jobs /\ job[cur.job].status = "PENDING" /\ ~CoordinatorOwns(cur.job)
      /\ cur.job \notin DOMAIN scheduled
  BY <1>2 DEF DriveInv, Preparing
<1>4. SameTasks
  BY <1>2 DEF SameTasks, Ids
<1>5. /\ cur'.job = cur.job /\ cur'.ids = cur.ids
      /\ cur'.todo = BatchTasks(cur.todo)[1] /\ cur'.rest = BatchTasks(cur.todo)[2]
  BY <1>1, <1>2, Zenon DEF CurRecord
<1>6. /\ \A j \in Jobs \ {cur.job} : job'[j] = job[j]
      /\ job'[cur.job].status = "RUNNING" /\ job'[cur.job].numTasks = Len(cur.todo)
      /\ job'[cur.job].completed = job[cur.job].completed
  BY <1>1, <1>2, <1>3 DEF JobRow
<1> QED
  BY <1>2, <1>3, <1>4, <1>5, <1>6, Zenon

\* What every step may do to the status of a row.
LEMMA StatusStep ==
  ASSUME TypeOK, DriveInv, [Next]_vars, NEW j \in Jobs
  PROVE  /\ \/ job'[j].status = job[j].status
            \/ job[j].status = "NONE" /\ job'[j].status = "PENDING"
            \/ job[j].status = "PENDING" /\ job'[j].status \in {"RUNNING", "FAILED"}
            \/ job[j].status = "RUNNING" /\ job'[j].status \in Final
         /\ CoordinatorOwns(j) /\ job'[j] # job[j] => UNCHANGED <<pc, memory>>
<1>1. CASE Quiet
  BY <1>1, QuietEffect, Zenon
<1>2. CASE Boot
  BY <1>2, BootEffect, Zenon DEF HangingJobs, Final
<1>3. CASE StartJob
  BY <1>3, StartEffect, Zenon
<1>4. CASE InsertTask \/ PublishTask \/ MarkRunning
  BY <1>4, Zenon DEF InsertTask, PublishTask, MarkRunning, db
<1>5. ASSUME NEW k \in Jobs, StatusOnly(k)
      PROVE  /\ \/ job'[j].status = job[j].status
                \/ job[j].status = "NONE" /\ job'[j].status = "PENDING"
                \/ job[j].status = "PENDING" /\ job'[j].status \in {"RUNNING", "FAILED"}
                \/ job[j].status = "RUNNING" /\ job'[j].status \in Final
             /\ CoordinatorOwns(j) /\ job'[j] # job[j] => UNCHANGED <<pc, memory>>
  <2>1. CASE j = k
    BY <1>5, <2>1, StatusOnlyEffect, Zenon DEF Final
  <2>2. CASE j # k
    BY <1>5, <2>2, StatusOnlyEffect, Zenon
  <2> QED
    BY <2>1, <2>2, Zenon
<1>6. ASSUME NEW t \in Ids, WorkerStep(t) \/ WorkerDies(t)
      PROVE  job'[j].status = job[j].status /\ UNCHANGED <<pc, memory>>
  <2>1. /\ job' = job \/ job' = [job EXCEPT ![task[t].job].completed = @ + 1]
        /\ UNCHANGED <<pc, memory>>
    BY <1>6, WorkerEffect, Zenon
  <2>2. job \in [Jobs -> JobRow]
    BY TypeFacts
  <2>3. CASE job' = job
    BY <2>1, <2>3, Zenon
  <2>4. CASE job' = [job EXCEPT ![task[t].job].completed = @ + 1]
    BY <2>1, <2>2, <2>4, Zenon DEF JobRow
  <2> QED
    BY <2>1, <2>3, <2>4, Zenon
<1> QED
  BY <1>1, <1>2, <1>3, <1>4, <1>5, <1>6, StepCases, Zenon

\* The ids of cur and of scheduled, when the rows keep their jobs.
LEMMA TaskKept ==
  ASSUME TypeOK, DriveInv, TaskInv, [Next]_vars, SameTasks, KilledTasksStopped',
         \A i \in DOMAIN cur'.ids : cur'.ids[i] \in TasksOf(cur'.job),
         \A j \in DOMAIN scheduled' : \A i \in DOMAIN scheduled'[j].batch :
           scheduled'[j].batch[i] \in TasksOf(j)
  PROVE  TaskInv'
<1>1. \A t \in Ids : task[t].job \in Jobs
  BY TypeFacts, Zenon DEF TaskRow
<1>2. \A j \in Jobs : job[j].status \notin {"NONE", "PENDING"} =>
                        job'[j].status \notin {"NONE", "PENDING"}
  BY StatusStep, Zenon DEF Final
<1>3. \A j : TasksOf(j)' = TasksOf(j)
  BY SameTasksOf, Zenon
<1>4. \A t \in Ids' : /\ ~CoordinatorOwns(task'[t].job)
                      /\ job'[task'[t].job].status \notin {"NONE", "PENDING"}
  BY <1>1, <1>2, Zenon DEF SameTasks, TaskInv
<1>5. TasksOf(cur.job)' = TasksOf(cur'.job)
  BY Zenon DEF TasksOf, SameTasks
<1> QED
  BY <1>3, <1>4, <1>5, Zenon DEF TaskInv, CoordinatorOwns

\* No task becomes RUNNING, no job of the scheduler KILLED: KilledTasksStopped stays.
LEMMA KilledKept ==
  ASSUME TypeOK, TaskInv, SameTasks,
         \A t \in Ids : task'[t].status = "RUNNING" => task[t].status = "RUNNING",
         \A j \in Jobs : job'[j].status = "KILLED" => job[j].status = "KILLED" \/ CoordinatorOwns(j)
  PROVE  KilledTasksStopped'
  BY DEF TaskInv, KilledTasksStopped, SameTasks, TasksOf

\* The new row is the only change _insert_tasks_to_db makes to the tasks.
LEMMA TaskOfInsert ==
  ASSUME TypeOK, DriveInv, InsertTask
  PROVE  /\ Ids' = Ids \cup {Len(task) + 1} /\ Len(task) + 1 \notin Ids
         /\ \A t \in Ids : task'[t] = task[t] /\ worker'[t] = worker[t]
         /\ task'[Len(task) + 1] = [job |-> cur.job, part |-> Head(cur.todo), status |-> "PENDING"]
         /\ worker'[Len(task) + 1] = Unsent
         /\ cur.job \in Jobs
         /\ \A j : j # cur.job => TasksOf(j)' = TasksOf(j)
         /\ {t \in Ids' : task'[t].job = cur.job} = TasksOf(cur.job) \cup {Len(task) + 1}
         /\ cur'.job = cur.job /\ cur'.rest = cur.rest /\ cur'.todo = Tail(cur.todo)
         /\ cur'.ids = Append(cur.ids, Len(task) + 1)
         /\ pc = "insert" /\ UNCHANGED <<pc, job, scheduled>>
<1> DEFINE r == [job |-> cur.job, part |-> Head(cur.todo), status |-> "PENDING"]
           n == Len(task) + 1
<1>1. task \in Seq(TaskRow) /\ worker \in Seq(WorkerRow) /\ Len(worker) = Len(task) /\ cur \in CurRecord
  BY Zenon DEF TypeOK, TaskRow, WorkerRow, CurRecord
<1>2. Ids = 1..Len(task) /\ Len(task) \in Nat
  BY TypeFacts
<1>3. /\ task' = Append(task, r) /\ worker' = Append(worker, Unsent)
      /\ cur' = [cur EXCEPT !.todo = Tail(@), !.ids = Append(@, n)]
      /\ pc = "insert" /\ UNCHANGED <<pc, job, scheduled>>
  BY Zenon DEF InsertTask
<1>4. cur.job \in Jobs
  BY <1>3 DEF DriveInv, Submitting
<1>5. /\ cur'.job = cur.job /\ cur'.rest = cur.rest /\ cur'.todo = Tail(cur.todo)
      /\ cur'.ids = Append(cur.ids, n)
  BY <1>1, <1>3 DEF CurRecord
<1> HIDE DEF r
<1>6. /\ DOMAIN task' = 1..n
      /\ \A t \in 1..Len(task) : task'[t] = task[t] /\ worker'[t] = worker[t]
      /\ task'[n] = r /\ worker'[n] = Unsent
  BY <1>1, <1>2, <1>3
<1>7. Ids' = Ids \cup {n} /\ n \notin Ids
  <2>1. 1..n = (1..Len(task)) \cup {n} /\ n \notin 1..Len(task)
    BY <1>2
  <2> HIDE DEF n
  <2> QED
    BY <2>1, <1>2, <1>6, Zenon DEF Ids
<1> HIDE DEF n
<1>8. /\ \A t \in Ids : task'[t] = task[t] /\ worker'[t] = worker[t]
      /\ task'[n] = r /\ r.job = cur.job
  BY <1>2, <1>6, Zenon DEF r
<1>9. \A j : j # cur.job => TasksOf(j)' = TasksOf(j)
  BY <1>7, <1>8, Zenon DEF TasksOf
<1>10. {t \in Ids' : task'[t].job = cur.job} = TasksOf(cur.job) \cup {n}
  BY <1>7, <1>8, Zenon DEF TasksOf
<1> QED
  BY <1>3, <1>4, <1>5, <1>6, <1>7, <1>8, <1>9, <1>10, Zenon DEF n, r

\* Every step keeps TaskInv.
LEMMA TaskStep ==
  ASSUME TypeOK, DriveInv, TaskInv, [Next]_vars
  PROVE  TaskInv'
<1>0. /\ \A i \in DOMAIN cur.ids : cur.ids[i] \in TasksOf(cur.job)
      /\ \A j \in DOMAIN scheduled : \A i \in DOMAIN scheduled[j].batch :
           scheduled[j].batch[i] \in TasksOf(j)
  BY DEF TaskInv
<1>1. CASE Quiet
  <2>1. SameTasks /\ UNCHANGED <<job, task>>
    BY <1>1, QuietEffect, Zenon
  <2>2. KilledTasksStopped'
    BY <2>1, KilledKept
  <2>3. CASE cur' = cur /\ scheduled' = scheduled
    BY <1>0, <2>1, <2>2, <2>3, TaskKept, Zenon
  <2>4. CASE cur' = Idle /\ scheduled' = NoEntries
    BY <1>0, <2>1, <2>2, <2>4, TaskKept DEF Idle, NoEntries
  <2>5. CASE cur'.ids = <<>> /\ scheduled' = scheduled
    BY <1>0, <2>1, <2>2, <2>5, TaskKept
  <2>6. CASE Submitted
    <3>1. /\ cur' = cur
          /\ scheduled' = [j \in DOMAIN scheduled \cup {cur.job} |->
                             IF j = cur.job THEN [rest |-> cur.rest, batch |-> cur.ids]
                                            ELSE scheduled[j]]
      BY <2>6, Zenon DEF Submitted
    <3>2. \A j \in DOMAIN scheduled' : \A i \in DOMAIN scheduled'[j].batch :
            scheduled'[j].batch[i] \in TasksOf(j)
      BY <3>1, <1>0
    <3> QED
      BY <1>0, <2>1, <2>2, <3>1, <3>2, TaskKept, Zenon
  <2>7. CASE \/ UNCHANGED vars \/ Search \/ BeginPoll \/ AddDataset \/ CreateTables \/ Sigterm
             \/ \E j \in Jobs : SkipJob(j) \/ PollNotReady(j)
    <3>1. cur' = cur /\ scheduled' = scheduled
      BY <2>7, Zenon DEF vars, memory, Search, BeginPoll, AddDataset, CreateTables, Sigterm, SkipJob, PollNotReady
    <3> QED
      BY <3>1, <2>3, Zenon
  <2>8. CASE EndPoll \/ Crash
    <3>1. (cur' = cur /\ scheduled' = scheduled) \/ (cur' = Idle /\ scheduled' = NoEntries)
      BY <2>8, Zenon DEF EndPoll, Crash, Ends, memory
    <3> QED
      BY <3>1, <2>3, <2>4, Zenon
  <2>9. CASE \E j \in Jobs : AcceptJob(j) \/ PollNextBatch(j)
    <3>1. cur'.ids = <<>> /\ scheduled' = scheduled
      BY <2>9 DEF AcceptJob, PollNextBatch
    <3> QED
      BY <3>1, <2>5, Zenon
  <2> QED
    BY <1>1, <2>6, <2>7, <2>8, <2>9, Zenon DEF Quiet
<1>2. CASE Boot
  <2>1. KilledTasksStopped'
    <3> SUFFICES ASSUME NEW t \in Ids, job'[task[t].job].status = "KILLED"
                 PROVE  task'[t].status # "RUNNING"
      BY <1>2, BootEffect DEF KilledTasksStopped, SameTasks, TasksOf
    <3>1. task[t].job \in Jobs
      BY TypeFacts, Zenon DEF TaskRow
    <3>2. CASE task[t].job \in HangingJobs
      BY <1>2, <3>1, <3>2, BootEffect, Zenon
    <3>3. CASE task[t].job \notin HangingJobs
      BY <1>2, <3>1, <3>3, BootEffect DEF TaskInv, KilledTasksStopped, TasksOf
    <3> QED
      BY <3>2, <3>3, Zenon
  <2> QED
    BY <1>0, <1>2, <2>1, BootEffect, TaskKept, Zenon
<1>3. CASE StartJob
  <2>1. /\ SameTasks /\ UNCHANGED <<task, scheduled>> /\ cur'.ids = cur.ids /\ cur'.job = cur.job
        /\ \A j \in Jobs : job'[j].status = "KILLED" => job[j].status = "KILLED"
    BY <1>3, StartEffect, Zenon
  <2>2. KilledTasksStopped'
    BY <2>1, KilledKept
  <2> QED
    BY <1>0, <2>1, <2>2, TaskKept, Zenon
<1>4. CASE InsertTask
  <2> DEFINE n == Len(task) + 1
  <2>1. /\ Ids' = Ids \cup {n} /\ n \notin Ids
        /\ \A t \in Ids : task'[t] = task[t]
        /\ task'[n] = [job |-> cur.job, part |-> Head(cur.todo), status |-> "PENDING"]
        /\ cur.job \in Jobs
        /\ \A j : j # cur.job => TasksOf(j)' = TasksOf(j)
        /\ {t \in Ids' : task'[t].job = cur.job} = TasksOf(cur.job) \cup {n}
        /\ cur'.job = cur.job /\ cur'.ids = Append(cur.ids, n)
        /\ pc = "insert" /\ UNCHANGED <<job, scheduled>>
    BY <1>4, TaskOfInsert, Zenon
  <2>2. n \in Nat /\ cur.ids \in Seq(Nat)
    BY TypeFacts
  <2> HIDE DEF n
  <2>3. job[cur.job].status = "RUNNING" /\ ~CoordinatorOwns(cur.job)
    BY <2>1, Zenon DEF DriveInv, Submitting
  <2>4. \A t \in Ids' : /\ ~CoordinatorOwns(task'[t].job)
                        /\ job'[task'[t].job].status \notin {"NONE", "PENDING"}
    BY <2>1, <2>3, Zenon DEF TaskInv
  <2>5. \A i \in DOMAIN cur'.ids : cur'.ids[i] \in {t \in Ids' : task'[t].job = cur'.job}
    <3>1. /\ DOMAIN cur'.ids = 1..(Len(cur.ids) + 1) /\ cur'.ids[Len(cur.ids) + 1] = n
          /\ \A i \in 1..Len(cur.ids) : cur'.ids[i] = cur.ids[i] /\ i \in DOMAIN cur.ids
      BY <2>1, <2>2
    <3>2. \A i \in DOMAIN cur'.ids : i = Len(cur.ids) + 1 \/ i \in 1..Len(cur.ids)
      BY <3>1, <2>2
    <3> QED
      BY <3>1, <3>2, <2>1, <1>0, Zenon
  <2>6. \A j \in DOMAIN scheduled : TasksOf(j) \subseteq TasksOf(j)'
    <3> SUFFICES ASSUME NEW j, NEW t \in TasksOf(j) PROVE t \in Ids' /\ task'[t].job = j
      BY Zenon DEF TasksOf
    <3> QED
      BY <2>1, Zenon DEF TasksOf
  <2>7. KilledTasksStopped'
    BY <2>1, <2>3, SMTT(30) DEF TaskInv, KilledTasksStopped, TasksOf
  <2> QED
    BY <1>0, <2>1, <2>4, <2>5, <2>6, <2>7, Zenon DEF TaskInv, TasksOf, CoordinatorOwns
<1>5. CASE PublishTask
  <2>1. UNCHANGED <<job, task, cur, scheduled>> /\ SameTasks
    BY <1>5, Zenon DEF PublishTask, db, memory, SameTasks, Ids
  <2>2. KilledTasksStopped'
    BY <2>1, KilledKept, Zenon
  <2> QED
    BY <1>0, <2>1, <2>2, TaskKept, Zenon
<1>6. CASE MarkRunning
  <2>1. /\ UNCHANGED <<job, scheduled>> /\ cur' = Idle /\ pc = "mark"
        /\ task' = [t \in Ids |-> IF t \in Range(cur.ids)
                                  THEN [task[t] EXCEPT !.status = "RUNNING"]
                                  ELSE task[t]]
    BY <1>6, Zenon DEF MarkRunning
  <2>2. task \in [Ids -> TaskRow]
    BY TypeFacts
  <2>3. SameTasks /\ \A t \in Ids : t \in Range(cur.ids) \/ task'[t] = task[t]
    BY <2>1, <2>2, Zenon DEF SameTasks, Ids, TaskRow
  <2>4. \A t \in Range(cur.ids) : t \in Ids /\ task[t].job = cur.job
    BY <1>0 DEF Range, TasksOf
  <2>5. job[cur.job].status = "RUNNING"
    BY <2>1, Zenon DEF DriveInv, Submitting
  <2>6. KilledTasksStopped'
    BY <2>1, <2>3, <2>4, <2>5 DEF KilledTasksStopped, TaskInv, SameTasks, TasksOf
  <2> QED
    BY <1>0, <2>1, <2>3, <2>6, TaskKept DEF Idle
<1>7. ASSUME NEW j \in Jobs, StatusOnly(j)
      PROVE  TaskInv'
  <2>1. /\ SameTasks /\ UNCHANGED <<task, cur>>
        /\ \A k \in Jobs : job'[k].status = "KILLED" => job[k].status = "KILLED" \/ CoordinatorOwns(k)
    BY <1>7, StatusOnlyEffect, Zenon DEF Final
  <2>2. KilledTasksStopped'
    BY <2>1, KilledKept, Zenon
  <2>3. \/ scheduled' = scheduled
        \/ scheduled' = Restrict(scheduled, DOMAIN scheduled \ {j})
    BY <1>7, Zenon DEF StatusOnly, SubmitJob, CoordinatorClaims, CoordinatorFinishes, RejectJob, PollFailed,
                PollRaises, PollCompleted, HandleFailed, memory
  <2>4. \A k \in DOMAIN scheduled' : k \in DOMAIN scheduled /\ scheduled'[k] = scheduled[k]
    BY <2>3, Zenon DEF Restrict
  <2> QED
    BY <1>0, <2>1, <2>2, <2>4, TaskKept, Zenon
<1>8. ASSUME NEW t \in Ids, WorkerStep(t) \/ WorkerDies(t)
      PROVE  TaskInv'
  <2>1. /\ SameTasks /\ UNCHANGED <<cur, scheduled>>
        /\ \A u \in Ids : task'[u].status = "RUNNING" => task[u].status = "RUNNING"
    <3>1. /\ SameTasks /\ UNCHANGED memory
          /\ \A u \in Ids \ {t} : task'[u] = task[u]
          /\ task'[t].status \in {task[t].status, "SUCCEEDED", "FAILED"}
      BY <1>8, WorkerEffect, Zenon
    <3> QED
      BY <3>1 DEF memory
  <2>2. \A j \in Jobs : job'[j].status = "KILLED" => job[j].status = "KILLED"
    <3>1. job' = job \/ job' = [job EXCEPT ![task[t].job].completed = @ + 1]
      BY <1>8, WorkerEffect, Zenon
    <3>2. job \in [Jobs -> JobRow]
      BY TypeFacts, Zenon
    <3>3. CASE job' = job
      BY <3>3, Zenon
    <3>4. CASE job' = [job EXCEPT ![task[t].job].completed = @ + 1]
      BY <3>2, <3>4, Zenon DEF JobRow
    <3> QED
      BY <3>1, <3>3, <3>4, Zenon
  <2>3. KilledTasksStopped'
    BY <2>1, <2>2, KilledKept
  <2> QED
    BY <1>0, <2>1, <2>3, TaskKept, Zenon
<1> QED
  BY <1>1, <1>2, <1>3, <1>4, <1>5, <1>6, <1>7, <1>8, StepCases, Zenon

-----------------------------------------------------------------------------
\* One message goes out, of a task of the job at hand.
LEMMA PublishEffect ==
  ASSUME TypeOK, TaskInv, PublishTask
  PROVE  /\ UNCHANGED <<job, task, pc, cur, scheduled>> /\ SameTasks
         /\ pc = "insert" /\ cur.todo = <<>>
         /\ \E u \in TasksOf(cur.job) :
              /\ u \in Range(cur.ids)
              /\ worker[u].ph = "unsent"
              /\ worker' = [worker EXCEPT ![u].ph = "queued"]
<1>1. UNCHANGED <<job, task, pc, cur, scheduled>> /\ pc = "insert" /\ cur.todo = <<>>
  BY Zenon DEF PublishTask, db, memory
<1>2. SameTasks
  BY <1>1 DEF SameTasks, Ids
<1>3. PICK i \in DOMAIN cur.ids : /\ worker[cur.ids[i]].ph = "unsent"
                                  /\ \A k \in 1..(i - 1) : worker[cur.ids[k]].ph # "unsent"
                                  /\ worker' = [worker EXCEPT ![cur.ids[i]].ph = "queued"]
  BY Zenon DEF PublishTask
<1>4. cur.ids[i] \in TasksOf(cur.job) /\ cur.ids[i] \in Range(cur.ids)
  BY DEF TaskInv, Range
<1>5. \E u \in TasksOf(cur.job) : /\ u \in Range(cur.ids)
                                  /\ worker[u].ph = "unsent"
                                  /\ worker' = [worker EXCEPT ![u].ph = "queued"]
  BY <1>3, <1>4, Zenon
<1> QED
  BY <1>1, <1>2, <1>5, Zenon

\* A worker's step keeps the account of its archives.
LEMMA ArchiveOfWorker ==
  ASSUME TypeOK, NEW t \in Ids, WorkerStep(t) \/ WorkerDies(t), Accounted(worker[t])
  PROVE  Accounted(worker'[t])
<1>1. worker \in [Ids -> WorkerRow] /\ worker[t] \in WorkerRow
  BY TypeFacts
<1>2. CASE ReceiveTask(t)
  <2>1. worker[t].ph = "queued" /\ worker'[t] = [worker[t] EXCEPT !.ph = "running"]
    BY <1>1, <1>2, Zenon DEF ReceiveTask, At, MoveTo
  <2> QED
    BY <1>1, <2>1 DEF Accounted, WorkerRow
<1>3. CASE WorkerConfigFails(t) \/ WorkerDies(t)
  <2>1. \E ph \in {"FAILED", "exception", "lost"} : worker'[t] = [worker[t] EXCEPT !.ph = ph]
    BY <1>1, <1>3, Zenon DEF WorkerConfigFails, WorkerDies, MoveTo
  <2> QED
    BY <1>1, <2>1, Zenon DEF Accounted, WorkerRow
<1>4. CASE UploadArchive(t)
  <2>1. /\ worker[t].ph = "running" /\ ~worker[t].s3err
        /\ \/ worker'[t] = [worker[t] EXCEPT !.made = @ + 1, !.uploaded = @ + 1, !.ph = "commit"]
           \/ worker'[t] = [worker[t] EXCEPT !.made = @ + 1, !.s3err = TRUE]
    <3>1. /\ worker[t].ph = "running" /\ ~worker[t].s3err
          /\ \/ worker' = [worker EXCEPT ![t].made = @ + 1, ![t].uploaded = @ + 1, ![t].ph = "commit"]
             \/ worker' = [worker EXCEPT ![t].made = @ + 1, ![t].s3err = TRUE]
      BY <1>4, Zenon DEF UploadArchive, At
    <3>2. CASE worker' = [worker EXCEPT ![t].made = @ + 1, ![t].uploaded = @ + 1, ![t].ph = "commit"]
      BY <1>1, <3>1, <3>2, Zenon
    <3>3. CASE worker' = [worker EXCEPT ![t].made = @ + 1, ![t].s3err = TRUE]
      BY <1>1, <3>1, <3>3, Zenon
    <3> QED
      BY <3>1, <3>2, <3>3, Zenon
  <2>2. CASE worker'[t] = [worker[t] EXCEPT !.made = @ + 1, !.uploaded = @ + 1, !.ph = "commit"]
    BY <1>1, <2>1, <2>2 DEF Accounted, WorkerRow
  <2>3. CASE worker'[t] = [worker[t] EXCEPT !.made = @ + 1, !.s3err = TRUE]
    BY <1>1, <2>1, <2>3, Zenon DEF Accounted, WorkerRow
  <2> QED
    BY <2>1, <2>2, <2>3, Zenon
<1>5. CASE DropArchive(t)
  <2>1. /\ worker[t].ph = "running" /\ worker[t].s3err
        /\ worker'[t] = [worker[t] EXCEPT !.made = @ + 1]
    BY <1>1, <1>5 DEF DropArchive, At
  <2> QED
    BY <1>1, <2>1 DEF Accounted, WorkerRow
<1>6. CASE ListArchive(t)
  <2>1. /\ worker[t].ph = "commit"
        /\ \/ worker'[t] = [worker[t] EXCEPT !.listed = @ + 1, !.ph = "running"]
           \/ worker'[t] = [worker[t] EXCEPT !.ph = "exception"]
    BY <1>1, <1>6, Zenon DEF ListArchive, At
  <2>2. CASE worker'[t] = [worker[t] EXCEPT !.listed = @ + 1, !.ph = "running"]
    BY <1>1, <2>1, <2>2 DEF Accounted, WorkerRow
  <2>3. CASE worker'[t] = [worker[t] EXCEPT !.ph = "exception"]
    BY <1>1, <2>1, <2>3, Zenon DEF Accounted, WorkerRow
  <2> QED
    BY <2>1, <2>2, <2>3, Zenon
<1>7. CASE RecordTask(t)
  <2>1. /\ worker[t].ph = "running"
        /\ \/ ~worker[t].s3err /\ worker'[t] = [worker[t] EXCEPT !.ph = "okRecorded"]
           \/ worker'[t] = [worker[t] EXCEPT !.ph = "failRecorded"]
    BY <1>1, <1>7, Zenon DEF RecordTask, At, MoveTo, StatusOf
  <2>2. CASE ~worker[t].s3err /\ worker'[t] = [worker[t] EXCEPT !.ph = "okRecorded"]
    BY <1>1, <2>1, <2>2, Zenon DEF Accounted, WorkerRow
  <2>3. CASE worker'[t] = [worker[t] EXCEPT !.ph = "failRecorded"]
    BY <1>1, <2>1, <2>3, Zenon DEF Accounted, WorkerRow
  <2> QED
    BY <2>1, <2>2, <2>3, Zenon
<1>8. CASE ReturnResult(t)
  <2>1. \/ worker[t].ph = "okRecorded" /\ worker'[t] = [worker[t] EXCEPT !.ph = "SUCCEEDED"]
        \/ worker'[t] = [worker[t] EXCEPT !.ph = "FAILED"]
    BY <1>1, <1>8 DEF ReturnResult, At, MoveTo
  <2>2. CASE worker[t].ph = "okRecorded" /\ worker'[t] = [worker[t] EXCEPT !.ph = "SUCCEEDED"]
    BY <1>1, <2>2, Zenon DEF Accounted, WorkerRow
  <2>3. CASE worker'[t] = [worker[t] EXCEPT !.ph = "FAILED"]
    BY <1>1, <2>3, Zenon DEF Accounted, WorkerRow
  <2> QED
    BY <2>1, <2>2, <2>3, Zenon
<1> QED
  BY <1>2, <1>3, <1>4, <1>5, <1>6, <1>7, <1>8, Zenon DEF WorkerStep

\* Every step keeps ArchiveInv.
LEMMA ArchiveStep ==
  ASSUME TypeOK, DriveInv, TaskInv, ArchiveInv, [Next]_vars
  PROVE  ArchiveInv'
<1>0. ASSUME SameTasks, \A t \in Ids : worker'[t] = worker[t]
      PROVE  ArchiveInv'
  BY <1>0, Zenon DEF ArchiveInv, SameTasks, Accounted
<1>1. CASE Quiet \/ Boot \/ StartJob \/ MarkRunning \/ \E j \in Jobs : StatusOnly(j)
  <2>1. CASE Quiet \/ Boot \/ StartJob \/ \E j \in Jobs : StatusOnly(j)
    BY <1>0, <2>1, QuietEffect, BootEffect, StartEffect, StatusOnlyEffect, Zenon
  <2>2. CASE MarkRunning
    <3>1. /\ worker' = worker
          /\ task' = [t \in Ids |-> IF t \in Range(cur.ids)
                                    THEN [task[t] EXCEPT !.status = "RUNNING"]
                                    ELSE task[t]]
      BY <2>2 DEF MarkRunning
    <3>2. Ids' = Ids
      BY <3>1, Zenon DEF Ids
    <3> QED
      BY <3>1, <3>2 DEF ArchiveInv, Accounted
  <2> QED
    BY <1>1, <2>1, <2>2
<1>2. CASE InsertTask
  <2>1. /\ Ids' = Ids \cup {Len(task) + 1}
        /\ \A t \in Ids : worker'[t] = worker[t]
        /\ worker'[Len(task) + 1] = Unsent
    BY <1>2, TaskOfInsert, Zenon
  <2>2. Accounted(Unsent)
    BY DEF Accounted, Unsent
  <2> QED
    BY <2>1, <2>2, Zenon DEF ArchiveInv
<1>3. CASE PublishTask
  <2>1. PICK u \in TasksOf(cur.job) : /\ worker[u].ph = "unsent"
                                      /\ worker' = [worker EXCEPT ![u].ph = "queued"]
    BY <1>3, PublishEffect, Zenon
  <2>2. worker \in [Ids -> WorkerRow] /\ u \in Ids /\ Ids' = Ids
    BY <1>3, PublishEffect, TypeFacts, Zenon DEF SameTasks, TasksOf
  <2>3. worker[u] \in WorkerRow /\ worker'[u] = [worker[u] EXCEPT !.ph = "queued"]
    BY <2>1, <2>2, Zenon
  <2>4. Accounted(worker'[u])
    BY <2>1, <2>2, <2>3, Zenon DEF ArchiveInv, Accounted, WorkerRow
  <2> QED
    BY <2>1, <2>2, <2>4, Zenon DEF ArchiveInv
<1>4. ASSUME NEW t \in Ids, WorkerStep(t) \/ WorkerDies(t)
      PROVE  ArchiveInv'
  <2>1. Ids' = Ids /\ \A u \in Ids \ {t} : worker'[u] = worker[u]
    <3>1. SameTasks /\ \A u \in Ids \ {t} : worker'[u] = worker[u]
      BY <1>4, WorkerEffect, Zenon
    <3> QED
      BY <3>1 DEF SameTasks
  <2>2. Accounted(worker'[t])
    BY <1>4, ArchiveOfWorker DEF ArchiveInv
  <2> QED
    BY <2>1, <2>2, Zenon DEF ArchiveInv
<1> QED
  BY <1>1, <1>2, <1>3, <1>4, StepCases, Zenon

==============================================================================
