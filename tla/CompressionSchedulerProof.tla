---------------------- MODULE CompressionSchedulerProof ----------------------
(***************************************************************************)
(* The conjuncts that count tasks: every step of CompressionScheduler keeps *)
(* PlanInv, BatchInv, CountInv and SucceededIsWhole; the invariant and the  *)
(* theorems that follow from it.                                            *)
(***************************************************************************)
EXTENDS CompressionSchedulerSteps, FiniteSetTheorems

-----------------------------------------------------------------------------
\* A job has finitely many tasks.
LEMMA TasksFinite ==
  ASSUME TypeOK, NEW j
  PROVE  /\ IsFiniteSet(Ids) /\ IsFiniteSet(TasksOf(j))
         /\ Made(j) \in Nat
<1>1. IsFiniteSet(1..Len(task))
  BY TypeFacts, FS_Interval
<1>2. IsFiniteSet(Ids)
  BY <1>1, TypeFacts, Zenon
<1>3. TasksOf(j) \subseteq Ids
  BY DEF TasksOf
<1>4. IsFiniteSet(TasksOf(j))
  BY <1>2, <1>3, FS_Subset, Zenon
<1> QED
  BY <1>2, <1>4, FS_CardinalityType, Zenon DEF Made

\* A step that inserts no task, and undoes no success, keeps the plan if what it
\* does to the scheduler's memory fits the rows there are.
LEMMA PlanFrom ==
  ASSUME SameTasks, DOMAIN scheduled' \subseteq Jobs,
         pc' \in Submitting => cur'.job \in Jobs,
         \A t \in Ids : worker[t].ph = "SUCCEEDED" => worker'[t].ph = "SUCCEEDED",
         pc' \in Preparing => cur'.ids = <<>> /\ Consecutive(cur'.todo, 0),
         pc' = "insert" =>
           /\ Consecutive(cur'.todo, Made(cur'.job))
           /\ Consecutive(cur'.rest, Made(cur'.job) + Len(cur'.todo))
           /\ job'[cur'.job].numTasks = Made(cur'.job) + Len(cur'.todo) + Len(cur'.rest),
         pc' \in Submitting => BatchIs(cur'.job, cur'.ids),
         \A j \in DOMAIN scheduled' : pc' # "insert" \/ j # cur'.job =>
           /\ Consecutive(scheduled'[j].rest, Made(j))
           /\ job'[j].numTasks = Made(j) + Len(scheduled'[j].rest)
           /\ BatchIs(j, scheduled'[j].batch)
  PROVE  PlanInv'
<1>1. \A j : TasksOf(j)' = TasksOf(j) /\ Made(j)' = Made(j)
  BY SameTasksOf, Zenon DEF Made
<1>2. TasksOf(cur.job)' = TasksOf(cur'.job) /\ Made(cur.job)' = Made(cur'.job)
  <2>1. TasksOf(cur.job)' = TasksOf(cur'.job)
    BY Zenon DEF TasksOf, SameTasks
  <2> QED
    BY <2>1, Zenon DEF Made
<1>3. pc' \in Preparing => cur'.ids = <<>> /\ Consecutive(cur.todo, 0)'
  BY Zenon DEF Consecutive
<1>4. pc' = "insert" =>
        /\ Consecutive(cur.todo, Made(cur.job))'
        /\ Consecutive(cur.rest, Made(cur.job) + Len(cur.todo))'
        /\ (job[cur.job].numTasks = Made(cur.job) + Len(cur.todo) + Len(cur.rest))'
  BY <1>2, Zenon DEF Consecutive
<1>5. pc' \in Submitting => BatchIs(cur.job, cur.ids)'
  <2> SUFFICES ASSUME pc' \in Submitting, NEW t \in TasksOf(cur'.job) \ Range(cur'.ids)
               PROVE  worker'[t].ph = "SUCCEEDED"
    BY <1>2, Zenon DEF BatchIs, At, Range
  <2> QED
    BY Zenon DEF BatchIs, At, TasksOf
<1>6. ASSUME NEW j \in DOMAIN scheduled', pc' # "insert" \/ j # cur'.job
      PROVE  /\ Consecutive(scheduled[j].rest, Made(j))'
             /\ (job[j].numTasks = Made(j) + Len(scheduled[j].rest))'
             /\ BatchIs(j, scheduled[j].batch)'
  <2>1. TasksOf(j)' = TasksOf(j) /\ Made(j)' = Made(j)
    BY <1>1, Zenon
  <2>2. /\ Consecutive(scheduled'[j].rest, Made(j))
        /\ job'[j].numTasks = Made(j) + Len(scheduled'[j].rest)
        /\ BatchIs(j, scheduled'[j].batch)
    BY <1>6, Zenon
  <2>3. \A t \in TasksOf(j) \ Range(scheduled'[j].batch) : worker'[t].ph = "SUCCEEDED"
    BY <2>2, Zenon DEF BatchIs, At, TasksOf
  <2> QED
    BY <2>1, <2>2, <2>3, Zenon DEF Consecutive, BatchIs, At, Range
<1> QED
  BY <1>3, <1>4, <1>5, <1>6, Zenon DEF PlanInv, Preparing, Submitting, Consecutive

\* The same for a step that leaves the scheduler's memory and where it is.
LEMMA PlanKept ==
  ASSUME TypeOK, DriveInv, PlanInv, SameTasks, UNCHANGED <<pc, cur>>,
         \A t \in Ids : worker[t].ph = "SUCCEEDED" => worker'[t].ph = "SUCCEEDED",
         \A j \in Jobs : job'[j].numTasks = job[j].numTasks,
         \A j \in DOMAIN scheduled' : j \in DOMAIN scheduled /\ scheduled'[j] = scheduled[j]
  PROVE  PlanInv'
<1>1. DOMAIN scheduled \subseteq Jobs /\ DOMAIN scheduled' \subseteq Jobs
  BY Zenon DEF TypeOK
<1>2. pc \in Submitting => cur.job \in Jobs
  BY DEF DriveInv
<1>3. pc = "insert" => pc \in Submitting
  BY Zenon DEF Submitting
<1> QED
  BY <1>1, <1>2, <1>3, PlanFrom, Zenon DEF PlanInv

\* An inserted task is the next partition of the plan.
LEMMA PlanOfInsert ==
  ASSUME TypeOK, DriveInv, TaskInv, PlanInv, InsertTask
  PROVE  PlanInv'
<1> DEFINE n == Len(task) + 1
<1>1. /\ n \notin Ids
      /\ \A t \in Ids : worker'[t] = worker[t]
      /\ cur.job \in Jobs
      /\ \A j : j # cur.job => TasksOf(j)' = TasksOf(j)
      /\ {t \in Ids' : task'[t].job = cur.job} = TasksOf(cur.job) \cup {n}
      /\ cur'.job = cur.job /\ cur'.rest = cur.rest /\ cur'.todo = Tail(cur.todo)
      /\ cur'.ids = Append(cur.ids, n)
      /\ pc = "insert" /\ UNCHANGED <<pc, job, scheduled>>
  BY TaskOfInsert, Zenon
<1>2. /\ n \in Nat /\ cur.ids \in Seq(Nat) /\ cur.todo \in Seq(Nat) /\ cur.rest \in Seq(Nat)
      /\ cur.todo # <<>>
  BY TypeFacts DEF InsertTask
<1> HIDE DEF n
<1>3. IsFiniteSet(TasksOf(cur.job)) /\ n \notin TasksOf(cur.job) /\ Made(cur.job) \in Nat
  <2>1. n \notin TasksOf(cur.job)
    BY <1>1, Zenon DEF TasksOf
  <2> QED
    BY <2>1, TasksFinite, Zenon
<1>4. TasksOf(cur.job)' = TasksOf(cur.job) \cup {n} /\ Made(cur.job)' = Made(cur.job) + 1
  <2>1. TasksOf(cur.job)' = TasksOf(cur.job) \cup {n}
    BY <1>1, Zenon DEF TasksOf
  <2> QED
    <3>1. Cardinality(TasksOf(cur.job) \cup {n}) = Cardinality(TasksOf(cur.job)) + 1
      BY <1>3, FS_AddElement, Zenon
    <3> QED
      BY <2>1, <3>1, Zenon DEF Made
<1>5. /\ Len(cur'.todo) = Len(cur.todo) - 1 /\ Len(cur.todo) \in Nat /\ Len(cur.rest) \in Nat
      /\ Len(cur.todo) > 0
      /\ \A i \in 1..Len(cur'.todo) : cur'.todo[i] = cur.todo[i + 1]
  BY <1>1, <1>2
<1>6. /\ Consecutive(cur.todo, Made(cur.job))
      /\ Consecutive(cur.rest, Made(cur.job) + Len(cur.todo))
      /\ job[cur.job].numTasks = Made(cur.job) + Len(cur.todo) + Len(cur.rest)
      /\ BatchIs(cur.job, cur.ids)
  BY <1>1 DEF PlanInv, Submitting
<1>7. Consecutive(cur.todo, Made(cur.job))'
  <2>1. \A i \in 1..Len(cur'.todo) : cur'.todo[i] = Made(cur.job) + 1 + i
    BY <1>3, <1>5, <1>6 DEF Consecutive
  <2> QED
    BY <1>4, <2>1, Zenon DEF Consecutive
<1>8. Made(cur.job)' + Len(cur'.todo) = Made(cur.job) + Len(cur.todo)
  BY <1>3, <1>4, <1>5
<1>9. Consecutive(cur.rest, Made(cur.job) + Len(cur.todo))'
  BY <1>1, <1>6, <1>8, Zenon DEF Consecutive
<1>10. (job[cur.job].numTasks = Made(cur.job) + Len(cur.todo) + Len(cur.rest))'
  BY <1>1, <1>6, <1>8, Zenon
<1>11. BatchIs(cur.job, cur.ids)'
  <2>1. Range(cur.ids) \cup {n} \subseteq Range(cur'.ids)
    <3>1. /\ Len(cur.ids) + 1 \in DOMAIN cur'.ids /\ cur'.ids[Len(cur.ids) + 1] = n
          /\ \A i \in DOMAIN cur.ids : i \in DOMAIN cur'.ids /\ cur'.ids[i] = cur.ids[i]
      BY <1>1, <1>2
    <3> QED
      BY <3>1, Zenon DEF Range
  <2>2. \A t \in TasksOf(cur.job) : worker'[t] = worker[t]
    BY <1>1 DEF TasksOf
  <2> SUFFICES ASSUME NEW t \in TasksOf(cur.job)' \ Range(cur'.ids)
               PROVE  worker'[t].ph = "SUCCEEDED"
    BY DEF BatchIs, At, Range
  <2> QED
    BY <1>4, <1>6, <2>1, <2>2, Zenon DEF BatchIs, At
<1>12. ASSUME NEW j \in DOMAIN scheduled, j # cur.job
       PROVE  /\ Consecutive(scheduled[j].rest, Made(j))'
              /\ (job[j].numTasks = Made(j) + Len(scheduled[j].rest))'
              /\ BatchIs(j, scheduled[j].batch)'
  <2>1. TasksOf(j)' = TasksOf(j) /\ Made(j)' = Made(j)
    BY <1>1, <1>12, Zenon DEF Made
  <2>2. /\ Consecutive(scheduled[j].rest, Made(j))
        /\ job[j].numTasks = Made(j) + Len(scheduled[j].rest)
        /\ BatchIs(j, scheduled[j].batch)
    BY <1>12, Zenon DEF PlanInv
  <2>3. \A t \in TasksOf(j) : worker'[t] = worker[t]
    BY <1>1, Zenon DEF TasksOf
  <2> QED
    BY <1>1, <2>1, <2>2, <2>3, Zenon DEF Consecutive, BatchIs, At, Range
<1> QED
  BY <1>1, <1>7, <1>9, <1>10, <1>11, <1>12, Zenon DEF PlanInv, Preparing, Submitting

\* The steps that move a plan between the scheduler's variables keep it.
LEMMA PlanOfQuiet ==
  ASSUME TypeOK, DriveInv, TaskInv, PlanInv, Quiet
  PROVE  PlanInv'
<1>0. /\ SameTasks /\ UNCHANGED <<job, task, worker>> /\ DOMAIN scheduled \subseteq Jobs
      /\ \A j \in DOMAIN scheduled : scheduled[j] \in Entry
  BY QuietEffect, Zenon DEF TypeOK, Entry
<1>1. CASE UNCHANGED <<cur, scheduled>> /\ (pc' = pc \/ pc' \notin Preparing \cup Submitting)
            /\ pc # "insert"
  <2>1. pc' # "insert" /\ (pc' \in Submitting => pc \in Submitting /\ cur.job \in Jobs)
    BY <1>1, Zenon DEF DriveInv, Submitting
  <2>2. pc' \in Preparing => cur.ids = <<>> /\ Consecutive(cur.todo, 0)
    BY <1>1, Zenon DEF PlanInv
  <2> QED
    BY <1>0, <1>1, <2>1, <2>2, PlanFrom, Zenon DEF PlanInv
<1>2. CASE UNCHANGED <<pc, cur, scheduled>>
  BY <1>0, <1>2, PlanKept, Zenon
<1>3. CASE AddDataset \/ CreateTables
  <2>1. /\ UNCHANGED <<cur, scheduled>> /\ pc \in {"dataset", "tables"} /\ pc' \in {"tables", "start"}
    BY <1>3, Zenon DEF AddDataset, CreateTables, memory
  <2>2. pc' \notin Submitting /\ pc \in Preparing /\ pc # "insert" /\ pc' # "insert"
    BY <2>1, Zenon DEF Submitting, Preparing
  <2> QED
    BY <1>0, <2>1, <2>2, PlanFrom, Zenon DEF PlanInv
<1>4. CASE Submitted
  <2>1. /\ cur' = cur /\ pc = "insert" /\ pc' = "mark" /\ cur.todo = <<>>
        /\ scheduled' = [j \in DOMAIN scheduled \cup {cur.job} |->
                           IF j = cur.job THEN [rest |-> cur.rest, batch |-> cur.ids]
                                          ELSE scheduled[j]]
    BY <1>4, Zenon DEF Submitted
  <2>2. cur.job \in Jobs
    BY <2>1, Zenon DEF DriveInv, Submitting
  <2>3. /\ Consecutive(cur.rest, Made(cur.job) + 0)
        /\ job[cur.job].numTasks = Made(cur.job) + 0 + Len(cur.rest)
        /\ BatchIs(cur.job, cur.ids)
    BY <2>1, Zenon DEF PlanInv, Submitting
  <2>4. Made(cur.job) \in Nat /\ Made(cur.job) + 0 = Made(cur.job)
    BY TasksFinite
  <2>5. \A j \in DOMAIN scheduled' :
          /\ Consecutive(scheduled'[j].rest, Made(j))
          /\ job[j].numTasks = Made(j) + Len(scheduled'[j].rest)
          /\ BatchIs(j, scheduled'[j].batch)
    BY <2>1, <2>3, <2>4, Zenon DEF PlanInv
  <2>6. DOMAIN scheduled' \subseteq Jobs
    BY <1>0, <2>1, <2>2, Zenon
  <2> QED
    BY <1>0, <2>1, <2>2, <2>3, <2>5, <2>6, PlanFrom, Zenon DEF Preparing, Submitting
<1>5. ASSUME NEW how \in {"down", "exited"}, Ends(how)
      PROVE  PlanInv'
  <2>1. cur' = Idle /\ DOMAIN scheduled' = {} /\ pc' \notin Preparing \cup Submitting /\ pc' # "insert"
    BY <1>5, IdleTyped, Zenon DEF Ends, Preparing, Submitting
  <2> QED
    BY <1>0, <2>1, PlanFrom, Zenon
<1>6. CASE EndPoll
  <2>1. \/ Ends("exited")
        \/ UNCHANGED <<cur, scheduled>> /\ pc' \notin Preparing \cup Submitting /\ pc # "insert"
    BY <1>6, Zenon DEF EndPoll, memory, Preparing, Submitting
  <2> QED
    BY <1>1, <1>5, <2>1, Zenon
<1>7. ASSUME NEW j \in Jobs, AcceptJob(j)
      PROVE  PlanInv'
  <2>1. PICK n \in PartCounts(j) :
          cur' = [job |-> j, todo |-> [i \in 1..n |-> i], ids |-> <<>>, rest |-> <<>>, first |-> TRUE]
    BY <1>7, Zenon DEF AcceptJob
  <2>2. n \in Nat
    BY SchedulerConstants DEF PartCounts
  <2>3. cur'.ids = <<>> /\ Consecutive(cur'.todo, 0)
    BY <2>1, <2>2 DEF Consecutive
  <2>4. pc = "schedule" /\ pc' \in {"start", "dataset"} /\ scheduled' = scheduled
    BY <1>7 DEF AcceptJob
  <2>5. pc' \notin Submitting /\ pc # "insert" /\ pc' # "insert"
    BY <2>4, Zenon DEF Submitting
  <2> QED
    BY <1>0, <2>3, <2>4, <2>5, PlanFrom, Zenon DEF PlanInv
<1>8. ASSUME NEW j \in Jobs, PollNextBatch(j)
      PROVE  PlanInv'
  <2> DEFINE split == BatchTasks(scheduled[j].rest)
  <2>1. /\ pc = "poll" /\ pc' = "insert" /\ scheduled' = scheduled /\ AllSucceeded(j)
        /\ cur' = [job |-> j, todo |-> split[1], ids |-> <<>>, rest |-> split[2], first |-> FALSE]
        /\ j \in DOMAIN scheduled
    BY <1>8, Zenon DEF PollNextBatch, TypeOK
  <2>2. /\ Consecutive(scheduled[j].rest, Made(j))
        /\ job[j].numTasks = Made(j) + Len(scheduled[j].rest)
        /\ BatchIs(j, scheduled[j].batch)
    BY <2>1, Zenon DEF PlanInv
  <2>3. scheduled[j].rest \in Seq(Nat) /\ Made(j) \in Nat
    BY <1>0, <2>1, TasksFinite, Zenon DEF Entry
  <2>4. /\ Consecutive(split[1], Made(j)) /\ Consecutive(split[2], Made(j) + Len(split[1]))
        /\ Len(scheduled[j].rest) = Len(split[1]) + Len(split[2])
        /\ split[1] \in Seq(Nat) /\ split[2] \in Seq(Nat)
    BY <2>2, <2>3, Batched, Zenon
  <2> HIDE DEF split
  <2>5. job[j].numTasks = Made(j) + Len(split[1]) + Len(split[2])
    <3> DEFINE a == Len(split[1])
               b == Len(split[2])
               r == Len(scheduled[j].rest)
    <3>1. a \in Nat /\ b \in Nat
      BY <2>4, SeqIsFunction, Zenon
    <3>2. r = a + b /\ Made(j) \in Nat /\ job[j].numTasks = Made(j) + r
      BY <2>2, <2>3, <2>4, Zenon
    <3>3. job[j].numTasks = Made(j) + a + b
      <4> HIDE DEF a, b, r
      <4> QED
        BY <3>1, <3>2
    <3> QED
      BY <3>3, Zenon
  <2>6. BatchIs(j, <<>>)
    BY <2>1, <2>2, Zenon DEF BatchIs, AllSucceeded, Outcome, At
  <2>7. /\ cur'.job = j /\ cur'.todo = split[1] /\ cur'.rest = split[2] /\ cur'.ids = <<>>
        /\ pc' \notin Preparing
    BY <2>1, Zenon DEF Preparing
  <2> QED
    BY <1>0, <2>1, <2>4, <2>5, <2>6, <2>7, PlanFrom, Zenon DEF PlanInv
<1>9. CASE UNCHANGED vars \/ Sigterm
  BY <1>2, <1>9, Zenon DEF vars, memory, Sigterm
<1>10. CASE Search \/ BeginPoll \/ \E j \in Jobs : SkipJob(j) \/ PollNotReady(j)
  <2>1. /\ UNCHANGED <<cur, scheduled>> /\ pc \in {"search", "schedule", "poll"}
        /\ pc' \in {"search", "schedule", "poll"}
    BY <1>10, Zenon DEF Search, BeginPoll, SkipJob, PollNotReady
  <2> QED
    BY <1>1, <2>1, Zenon DEF Preparing, Submitting
<1> QED
  BY <1>3, <1>4, <1>5, <1>6, <1>7, <1>8, <1>9, <1>10, Zenon DEF Quiet, Crash

\* Every step keeps PlanInv.
LEMMA PlanStep ==
  ASSUME TypeOK, DriveInv, TaskInv, PlanInv, [Next]_vars
  PROVE  PlanInv'
<1>1. CASE Boot
  <2>1. /\ SameTasks /\ UNCHANGED <<worker, cur, scheduled>>
        /\ \A j \in Jobs : job'[j].numTasks = job[j].numTasks
    BY <1>1, BootEffect, Zenon
  <2>2. pc' \notin Preparing \cup Submitting /\ pc' # "insert" /\ pc # "insert"
    BY <1>1, Zenon DEF Boot, Running, Preparing, Submitting
  <2>3. DOMAIN scheduled \subseteq Jobs
    BY DEF TypeOK
  <2> QED
    BY <2>1, <2>2, <2>3, PlanFrom, Zenon DEF PlanInv
<1>2. CASE StartJob
  <2> DEFINE split == BatchTasks(cur.todo)
  <2>1. /\ UNCHANGED <<task, worker, scheduled>> /\ SameTasks
        /\ \A j \in Jobs \ {cur.job} : job'[j] = job[j]
        /\ cur.job \in Jobs /\ cur.job \notin DOMAIN scheduled
        /\ job[cur.job].status = "PENDING"
        /\ job'[cur.job].numTasks = Len(cur.todo)
        /\ cur'.job = cur.job /\ cur'.ids = cur.ids
        /\ cur'.todo = split[1] /\ cur'.rest = split[2]
        /\ pc = "start" /\ pc' = "insert"
    BY <1>2, StartEffect, Zenon
  <2>2. cur.ids = <<>> /\ Consecutive(cur.todo, 0) /\ cur.todo \in Seq(Nat)
    BY <2>1, TypeFacts, Zenon DEF PlanInv, Preparing
  <2>3. TasksOf(cur.job) = {} /\ Made(cur.job) = 0
    <3>1. TasksOf(cur.job) = {}
      BY <2>1 DEF TaskInv, TasksOf
    <3> QED
      BY <3>1, FS_EmptySet, Zenon DEF Made
  <2>4. /\ Consecutive(split[1], 0) /\ Consecutive(split[2], 0 + Len(split[1]))
        /\ Len(cur.todo) = Len(split[1]) + Len(split[2])
        /\ split[1] \in Seq(Nat) /\ split[2] \in Seq(Nat)
    BY <2>2, Batched, Zenon
  <2> HIDE DEF split
  <2>5. job'[cur.job].numTasks = 0 + Len(split[1]) + Len(split[2])
    BY <2>1, <2>4
  <2>6. BatchIs(cur.job, cur.ids)
    BY <2>3, Zenon DEF BatchIs
  <2>7. DOMAIN scheduled \subseteq Jobs /\ pc' \notin Preparing /\ pc # "insert"
    BY <2>1, Zenon DEF TypeOK, Preparing
  <2>8. \A j \in DOMAIN scheduled :
           /\ Consecutive(scheduled[j].rest, Made(j))
           /\ job'[j].numTasks = Made(j) + Len(scheduled[j].rest)
           /\ BatchIs(j, scheduled[j].batch)
    BY <2>1, <2>7, Zenon DEF PlanInv
  <2> QED
    BY <2>1, <2>3, <2>4, <2>5, <2>6, <2>7, <2>8, PlanFrom, Zenon
<1>3. CASE PublishTask
  <2>1. /\ UNCHANGED <<job, pc, cur, scheduled>> /\ SameTasks
        /\ \E u \in TasksOf(cur.job) : /\ worker[u].ph = "unsent"
                                       /\ worker' = [worker EXCEPT ![u].ph = "queued"]
    BY <1>3, PublishEffect, Zenon
  <2>2. \A t \in Ids : worker[t].ph = "SUCCEEDED" => worker'[t].ph = "SUCCEEDED"
    BY <2>1, TypeFacts, Zenon
  <2> QED
    BY <2>1, <2>2, PlanKept, Zenon
<1>4. CASE MarkRunning
  <2>1. /\ UNCHANGED <<job, worker, scheduled>> /\ pc = "mark" /\ pc' \in {"schedule", "poll"}
        /\ task' = [t \in Ids |-> IF t \in Range(cur.ids)
                                  THEN [task[t] EXCEPT !.status = "RUNNING"]
                                  ELSE task[t]]
    BY <1>4, Zenon DEF MarkRunning
  <2>2. SameTasks
    BY <2>1, TypeFacts, Zenon DEF SameTasks, Ids, TaskRow
  <2>3. pc' \notin Preparing \cup Submitting /\ pc' # "insert" /\ pc # "insert"
    BY <2>1, Zenon DEF Preparing, Submitting
  <2>4. DOMAIN scheduled \subseteq Jobs
    BY DEF TypeOK
  <2> QED
    BY <2>1, <2>2, <2>3, <2>4, PlanFrom, Zenon DEF PlanInv
<1>5. ASSUME NEW j \in Jobs, StatusOnly(j)
      PROVE  PlanInv'
  <2>1. /\ SameTasks /\ UNCHANGED <<worker, pc, cur>>
        /\ \A k \in Jobs : job'[k].numTasks = job[k].numTasks
    BY <1>5, StatusOnlyEffect, Zenon
  <2>2. \/ scheduled' = scheduled
        \/ scheduled' = Restrict(scheduled, DOMAIN scheduled \ {j})
    BY <1>5, Zenon DEF StatusOnly, SubmitJob, CoordinatorClaims, CoordinatorFinishes, RejectJob, PollFailed,
                PollRaises, PollCompleted, HandleFailed, memory
  <2>3. \A k \in DOMAIN scheduled' : k \in DOMAIN scheduled /\ scheduled'[k] = scheduled[k]
    BY <2>2, Zenon DEF Restrict
  <2> QED
    BY <2>1, <2>3, PlanKept, Zenon
<1>6. ASSUME NEW t \in Ids, WorkerStep(t) \/ WorkerDies(t)
      PROVE  PlanInv'
  <2>1. /\ SameTasks /\ UNCHANGED <<pc, memory>>
        /\ \A u \in Ids \ {t} : worker'[u] = worker[u]
        /\ worker[t].ph \in {"queued"} \cup Working \cup Recorded
        /\ job' = job \/ job' = [job EXCEPT ![task[t].job].completed = @ + 1]
    BY <1>6, WorkerEffect, Zenon
  <2>2. \A u \in Ids : worker[u].ph = "SUCCEEDED" => worker'[u].ph = "SUCCEEDED"
    BY <2>1, Zenon DEF Working, Recorded
  <2>3. job \in [Jobs -> JobRow]
    BY TypeFacts, Zenon
  <2>4. \A j \in Jobs : job'[j].numTasks = job[j].numTasks
    <3>1. CASE job' = job
      BY <3>1, Zenon
    <3>2. CASE job' = [job EXCEPT ![task[t].job].completed = @ + 1]
      BY <2>3, <3>2, Zenon DEF JobRow
    <3> QED
      BY <2>1, <3>1, <3>2, Zenon
  <2>5. UNCHANGED <<pc, cur, scheduled>>
    BY <2>1, Zenon DEF memory
  <2> QED
    BY <2>1, <2>2, <2>4, <2>5, PlanKept, Zenon
<1> QED
  BY <1>1, <1>2, <1>3, <1>4, <1>5, <1>6, PlanOfQuiet, PlanOfInsert, StepCases, Zenon

-----------------------------------------------------------------------------
ActivePhases == {"queued"} \cup Working \cup Recorded
Active(j) == {t \in TasksOf(j) : At(t, ActivePhases)}

\* The active tasks of a job with a batch are in the batch.
LEMMA ActiveBound ==
  ASSUME NEW j \in Jobs, MaxConcurrentTasksPerJob > 0, BatchLimit
  PROVE  Cardinality(Active(j)) <= MaxConcurrentTasksPerJob
  BY Zenon DEF BatchLimit, Active, ActivePhases

\* They are finitely many.
LEMMA ActiveFinite ==
  ASSUME TypeOK, NEW j
  PROVE  IsFiniteSet(Active(j)) /\ Cardinality(Active(j)) \in Nat
<1>1. IsFiniteSet(TasksOf(j)) /\ Active(j) \subseteq TasksOf(j)
  BY TasksFinite, Zenon DEF Active
<1>2. IsFiniteSet(Active(j))
  BY <1>1, FS_Subset, Zenon
<1> QED
  BY <1>2, FS_CardinalityType, Zenon

\* A sequence has at most as many entries as it is long.
LEMMA RangeIsSmall ==
  ASSUME NEW S, NEW s \in Seq(S)
  PROVE  IsFiniteSet(Range(s)) /\ Cardinality(Range(s)) <= Len(s)
<1>1. Len(s) \in Nat /\ s \in [1..Len(s) -> Range(s)] /\ \A y \in Range(s) : \E i \in 1..Len(s) : s[i] = y
  BY DEF Range
<1>2. s \in Surjection(1..Len(s), Range(s))
  BY <1>1, Zenon DEF Surjection
<1>3. IsFiniteSet(1..Len(s)) /\ Cardinality(1..Len(s)) <= Len(s)
  <2> DEFINE n == Len(s)
  <2>1. n \in Int /\ 1 \in Int /\ n >= 0
    BY <1>1
  <2> HIDE DEF n
  <2>2. IsFiniteSet(1..n) /\ Cardinality(1..n) = IF 1 > n THEN 0 ELSE n - 1 + 1
    BY <2>1, FS_Interval, Zenon
  <2> QED
    BY <2>1, <2>2 DEF n
<1>4. IsFiniteSet(Range(s)) /\ Cardinality(Range(s)) <= Cardinality(1..Len(s))
  BY <1>2, <1>3, FS_Surjection, Zenon
<1>5. Cardinality(Range(s)) \in Nat /\ Cardinality(1..Len(s)) \in Nat
  BY <1>3, <1>4, FS_CardinalityType, Zenon
<1> QED
  BY <1>1, <1>3, <1>4, <1>5

\* No step but the publication of a message makes a task active.
LEMMA ActiveShrinks ==
  ASSUME TypeOK, DriveInv, TaskInv, [Next]_vars, ~PublishTask, NEW j \in Jobs
  PROVE  Active(j)' \subseteq Active(j)
<1>0. ASSUME SameTasks, \A t \in Ids : worker'[t].ph \in ActivePhases => worker[t].ph \in ActivePhases
      PROVE  Active(j)' \subseteq Active(j)
  <2>1. TasksOf(j)' = TasksOf(j) /\ TasksOf(j) \subseteq Ids
    BY <1>0, SameTasksOf, Zenon DEF TasksOf
  <2> QED
    BY <1>0, <2>1, Zenon DEF Active, At
<1>1. CASE Quiet \/ Boot \/ StartJob \/ \E k \in Jobs : StatusOnly(k)
  <2>1. SameTasks /\ worker' = worker
    BY <1>1, QuietEffect, BootEffect, StartEffect, StatusOnlyEffect, Zenon
  <2> QED
    BY <1>0, <2>1, Zenon
<1>2. CASE MarkRunning
  <2>1. /\ worker' = worker
        /\ task' = [t \in Ids |-> IF t \in Range(cur.ids)
                                  THEN [task[t] EXCEPT !.status = "RUNNING"]
                                  ELSE task[t]]
    BY <1>2, Zenon DEF MarkRunning
  <2>2. SameTasks
    BY <2>1, TypeFacts, Zenon DEF SameTasks, Ids, TaskRow
  <2> QED
    BY <1>0, <2>1, <2>2, Zenon
<1>3. CASE InsertTask
  <2> DEFINE n == Len(task) + 1
  <2>1. /\ \A t \in Ids : worker'[t] = worker[t]
        /\ worker'[n] = Unsent
        /\ \A k : k # cur.job => TasksOf(k)' = TasksOf(k)
        /\ {t \in Ids' : task'[t].job = cur.job} = TasksOf(cur.job) \cup {n}
    BY <1>3, TaskOfInsert, Zenon
  <2> HIDE DEF n
  <2>2. TasksOf(j)' \subseteq TasksOf(j) \cup {n} /\ TasksOf(j) \subseteq Ids
    <3>1. CASE j = cur.job
      BY <2>1, <3>1, Zenon DEF TasksOf
    <3>2. CASE j # cur.job
      <4>1. TasksOf(j)' = TasksOf(j)
        BY <2>1, <3>2, Zenon
      <4> QED
        BY <4>1, Zenon DEF TasksOf
    <3> QED
      BY <3>1, <3>2, Zenon
  <2>3. worker'[n].ph \notin ActivePhases
    BY <2>1 DEF Unsent, ActivePhases, Working, Recorded
  <2> QED
    BY <2>1, <2>2, <2>3, Zenon DEF Active, At
<1>4. ASSUME NEW t \in Ids, WorkerStep(t) \/ WorkerDies(t)
      PROVE  Active(j)' \subseteq Active(j)
  <2>1. /\ SameTasks /\ \A u \in Ids \ {t} : worker'[u] = worker[u]
        /\ worker[t].ph \in ActivePhases
    BY <1>4, WorkerEffect, Zenon DEF ActivePhases
  <2>2. \A u \in Ids : worker'[u].ph \in ActivePhases => worker[u].ph \in ActivePhases
    BY <2>1, Zenon
  <2> QED
    BY <1>0, <2>1, <2>2, Zenon
<1> QED
  BY <1>1, <1>2, <1>3, <1>4, StepCases, Zenon

\* A published task belongs to a batch within the limit.
LEMMA LimitOfPublish ==
  ASSUME TypeOK, DriveInv, TaskInv, PlanInv, BatchInv, PublishTask, MaxConcurrentTasksPerJob > 0,
         NEW j \in Jobs, TypeOK'
  PROVE  Cardinality(Active(j)') <= MaxConcurrentTasksPerJob
<1>1. /\ UNCHANGED <<job, task, pc, cur, scheduled>> /\ SameTasks /\ pc = "insert" /\ cur.todo = <<>>
  BY PublishEffect, Zenon
<1>2. PICK u \in TasksOf(cur.job) : /\ u \in Range(cur.ids)
                                    /\ worker[u].ph = "unsent"
                                    /\ worker' = [worker EXCEPT ![u].ph = "queued"]
  BY PublishEffect, Zenon
<1>3. TasksOf(j)' = TasksOf(j) /\ TasksOf(j) \subseteq Ids
  BY <1>1, SameTasksOf, Zenon DEF TasksOf
<1>4. \A t \in Ids \ {u} : worker'[t] = worker[t]
  BY <1>2, TypeFacts, Zenon
<1>5. CASE j = cur.job
  <2>1. \A t \in TasksOf(j) \ Range(cur.ids) : worker[t].ph = "SUCCEEDED"
    BY <1>1, <1>5, Zenon DEF PlanInv, Submitting, BatchIs, At
  <2>2. "SUCCEEDED" \notin ActivePhases
    BY DEF ActivePhases, Working, Recorded
  <2>3. Active(j)' \subseteq Range(cur.ids)
    BY <1>2, <1>3, <1>4, <2>1, <2>2, Zenon DEF Active, At
  <2>4. cur.ids \in Seq(Nat) /\ Len(cur.ids) \in Nat /\ Len(cur.ids) + 0 <= MaxConcurrentTasksPerJob
    BY <1>1, TypeFacts DEF BatchInv, Submitting, BatchSize
  <2>5. IsFiniteSet(Range(cur.ids)) /\ Cardinality(Range(cur.ids)) <= Len(cur.ids)
    BY <2>4, RangeIsSmall, Zenon
  <2>6. Cardinality(Active(j)') <= Cardinality(Range(cur.ids)) /\ IsFiniteSet(Active(j)')
    BY <2>3, <2>5, FS_Subset, Zenon
  <2>7. Cardinality(Active(j)') \in Nat /\ Cardinality(Range(cur.ids)) \in Nat
    BY <2>5, <2>6, FS_CardinalityType, Zenon
  <2> QED
    BY <2>4, <2>5, <2>6, <2>7, SchedulerConstants
<1>6. CASE j # cur.job
  <2>1. u \notin TasksOf(j)
    BY <1>2, <1>6, Zenon DEF TasksOf
  <2>2. Active(j)' = Active(j)
    BY <1>3, <1>4, <2>1, Zenon DEF Active, At
  <2> QED
    BY <2>2, ActiveBound, Zenon DEF BatchInv
<1> QED
  BY <1>5, <1>6, Zenon

\* Every step keeps BatchInv, and so BatchLimit.
LEMMA BatchStep ==
  ASSUME TypeOK, DriveInv, TaskInv, PlanInv, BatchInv, [Next]_vars, TypeOK'
  PROVE  BatchInv'
<1>1. BatchLimit'
  <2> SUFFICES ASSUME MaxConcurrentTasksPerJob > 0, NEW j \in Jobs
               PROVE  Cardinality(Active(j)') <= MaxConcurrentTasksPerJob
    BY Zenon DEF BatchLimit, Active, ActivePhases
  <2>1. CASE PublishTask
    BY <2>1, LimitOfPublish, Zenon
  <2>2. CASE ~PublishTask
    <3>1. Active(j)' \subseteq Active(j)
      BY <2>2, ActiveShrinks, Zenon
    <3>2. IsFiniteSet(Active(j)) /\ Cardinality(Active(j)) \in Nat
      BY ActiveFinite, Zenon
    <3>3. Cardinality(Active(j)') <= Cardinality(Active(j)) /\ IsFiniteSet(Active(j)')
      BY <3>1, <3>2, FS_Subset, Zenon
    <3>4. Cardinality(Active(j)') \in Nat
      BY <3>3, FS_CardinalityType, Zenon
    <3>5. Cardinality(Active(j)) <= MaxConcurrentTasksPerJob
      BY ActiveBound, Zenon DEF BatchInv
    <3> QED
      BY <3>2, <3>3, <3>4, <3>5, SchedulerConstants
  <2> QED
    BY <2>1, <2>2, Zenon
<1>0. MaxConcurrentTasksPerJob \in Nat
  BY SchedulerConstants, Zenon
<1>2. ASSUME MaxConcurrentTasksPerJob > 0, pc' \in Submitting
      PROVE  BatchSize' <= MaxConcurrentTasksPerJob
  <2>1. CASE pc \in Submitting /\ cur' = cur
    <3>1. BatchSize' = BatchSize
      BY <2>1 DEF BatchSize
    <3> QED
      BY <1>2, <2>1, <3>1, Zenon DEF BatchInv
  <2>2. CASE StartJob
    <3>1. cur'.ids = <<>> /\ cur'.todo = BatchTasks(cur.todo)[1]
      BY <2>2, StartEffect, Zenon DEF PlanInv, Preparing
    <3>2. /\ Len(BatchTasks(cur.todo)[1]) <= MaxConcurrentTasksPerJob
          /\ BatchTasks(cur.todo)[1] \in Seq(Nat)
      <4>1. cur.todo \in Seq(Nat)
        BY TypeFacts, Zenon
      <4>2. /\ MaxConcurrentTasksPerJob > 0
                 => Len(BatchTasks(cur.todo)[1]) <= MaxConcurrentTasksPerJob
            /\ BatchTasks(cur.todo)[1] \in Seq(Nat)
        BY <4>1, Batched, Zenon
      <4> QED
        BY <1>2, <4>2, Zenon
    <3>5. BatchSize' = Len(BatchTasks(cur.todo)[1]) /\ Len(BatchTasks(cur.todo)[1]) \in Nat
      <4> DEFINE b == BatchTasks(cur.todo)[1]
      <4>1. b \in Seq(Nat) /\ cur'.ids = <<>> /\ cur'.todo = b
        BY <3>1, <3>2, Zenon
      <4> HIDE DEF b
      <4>2. Len(b) \in Nat
        BY <4>1, SeqIsFunction, Zenon
      <4>3. BatchSize' = 0 + Len(b)
        BY <4>1, Zenon DEF BatchSize
      <4> QED
        BY <4>2, <4>3 DEF b
    <3> QED
      BY <3>2, <3>5, Zenon
  <2>3. CASE \E j \in Jobs : PollNextBatch(j)
    <3>1. PICK j \in Jobs : PollNextBatch(j)
      BY <2>3, Zenon
    <3>2. cur'.ids = <<>> /\ cur'.todo = BatchTasks(scheduled[j].rest)[1] /\ j \in DOMAIN scheduled
      BY <3>1, Zenon DEF PollNextBatch, TypeOK
    <3>3. scheduled[j].rest \in Seq(Nat)
      BY <3>2, Zenon DEF TypeOK
    <3>4. /\ Len(BatchTasks(scheduled[j].rest)[1]) <= MaxConcurrentTasksPerJob
          /\ BatchTasks(scheduled[j].rest)[1] \in Seq(Nat)
      <4>1. /\ MaxConcurrentTasksPerJob > 0
                 => Len(BatchTasks(scheduled[j].rest)[1]) <= MaxConcurrentTasksPerJob
            /\ BatchTasks(scheduled[j].rest)[1] \in Seq(Nat)
        BY <3>3, Batched, Zenon
      <4> QED
        BY <1>2, <4>1, Zenon
    <3>5. BatchSize' = Len(BatchTasks(scheduled[j].rest)[1]) /\ Len(BatchTasks(scheduled[j].rest)[1]) \in Nat
      <4> DEFINE b == BatchTasks(scheduled[j].rest)[1]
      <4>1. b \in Seq(Nat) /\ cur'.ids = <<>> /\ cur'.todo = b
        BY <3>2, <3>4, Zenon
      <4> HIDE DEF b
      <4>2. Len(b) \in Nat
        BY <4>1, SeqIsFunction, Zenon
      <4>3. BatchSize' = 0 + Len(b)
        BY <4>1, Zenon DEF BatchSize
      <4> QED
        BY <4>2, <4>3 DEF b
    <3> QED
      BY <3>4, <3>5, Zenon
  <2>4. CASE InsertTask
    <3>1. /\ cur'.todo = Tail(cur.todo) /\ cur'.ids = Append(cur.ids, Len(task) + 1)
          /\ pc = "insert" /\ cur.todo # <<>>
      BY <2>4, TaskOfInsert, Zenon DEF InsertTask
    <3>2. cur.ids \in Seq(Nat) /\ cur.todo \in Seq(Nat) /\ Len(task) + 1 \in Nat
      BY TypeFacts
    <3> DEFINE a == Len(cur.ids)
               b == Len(cur.todo)
    <3>3. a \in Nat /\ b \in Nat /\ BatchSize = a + b /\ BatchSize' = (a + 1) + (b - 1)
      <4>1. /\ Len(cur'.todo) = b - 1 /\ Len(cur'.ids) = a + 1
            /\ a \in Nat /\ b \in Nat
        BY <3>1, <3>2
      <4> QED
        BY <4>1, Zenon DEF BatchSize
    <3>4. BatchSize <= MaxConcurrentTasksPerJob
      BY <1>0, <1>2, <3>1, Zenon DEF BatchInv, Submitting
    <3> HIDE DEF a, b
    <3>5. BatchSize' = BatchSize
      BY <3>3
    <3> QED
      BY <3>4, <3>5, Zenon
  <2>5. ASSUME UNCHANGED <<pc, cur>> PROVE pc \in Submitting /\ cur' = cur
    BY <1>2, <2>5, Zenon
  <2>6. CASE Boot \/ MarkRunning \/ Quiet
    <3>1. CASE UNCHANGED vars \/ Sigterm \/ \E j \in Jobs : SkipJob(j) \/ PollNotReady(j)
      BY <2>1, <2>5, <3>1, Zenon DEF vars, memory, Sigterm, SkipJob, PollNotReady
    <3>2. CASE Submitted
      BY <2>1, <3>2, Zenon DEF Submitted, Submitting
    <3>3. CASE Boot \/ MarkRunning \/ Search \/ BeginPoll \/ EndPoll \/ AddDataset \/ CreateTables
                \/ Crash \/ \E j \in Jobs : AcceptJob(j)
      BY <1>2, <3>3, Zenon DEF Boot, MarkRunning, Search, BeginPoll, EndPoll, AddDataset, CreateTables,
                        Crash, AcceptJob, Ends, Submitting
    <3> QED
      BY <2>3, <2>6, <3>1, <3>2, <3>3, Zenon DEF Quiet
  <2>7. ASSUME NEW j \in Jobs, StatusOnly(j) PROVE UNCHANGED <<pc, cur>>
    BY <2>7, StatusOnlyEffect, Zenon
  <2>8. ASSUME NEW t \in Ids, WorkerStep(t) \/ WorkerDies(t) PROVE UNCHANGED <<pc, cur>>
    <3>1. UNCHANGED <<pc, memory>>
      BY <2>8, WorkerEffect, Zenon
    <3> QED
      BY <3>1, Zenon DEF memory
  <2>9. PublishTask => UNCHANGED <<pc, cur>>
    BY Zenon DEF PublishTask, memory
  <2> QED
    BY <2>1, <2>2, <2>4, <2>5, <2>6, <2>7, <2>8, <2>9, StepCases, Zenon
<1> QED
  BY <1>0, <1>1, <1>2, Zenon DEF BatchInv, Submitting

-----------------------------------------------------------------------------
Failed(j) == \E t \in TasksOf(j) : At(t, {"exception", "lost"})
Counted(j) ==
  /\ {task[t].part : t \in TasksOf(j)} = 1..Made(j)
  /\ Failed(j) \/ job[j].completed = Cardinality(OkTasks(j))

\* A step that neither inserts a task nor counts one.
LEMMA CountKept ==
  ASSUME SameTasks, NEW j \in Jobs, Counted(j), job'[j].completed = job[j].completed,
         \A t \in TasksOf(j) :
           \/ worker'[t].ph \in {"exception", "lost"}
           \/ /\ worker'[t].ph \in {"okRecorded", "SUCCEEDED"}
                   <=> worker[t].ph \in {"okRecorded", "SUCCEEDED"}
              /\ worker[t].ph \in {"exception", "lost"} => worker'[t].ph \in {"exception", "lost"}
  PROVE  Counted(j)'
<1>1. TasksOf(j)' = TasksOf(j) /\ TasksOf(j) \subseteq Ids
  BY SameTasksOf, Zenon DEF TasksOf
<1>2. Made(j)' = Made(j)
  BY <1>1, Zenon DEF Made
<1>3. \A t \in TasksOf(j) : task'[t].part = task[t].part
  BY <1>1 DEF SameTasks
<1>4. {task'[t].part : t \in TasksOf(j)'} = {task[t].part : t \in TasksOf(j)}
  BY <1>1, <1>3, Zenon
<1>5. CASE \E t \in TasksOf(j) : worker'[t].ph \in {"exception", "lost"}
  <2>1. Failed(j)'
    BY <1>1, <1>5, Zenon DEF Failed, At
  <2> QED
    BY <1>2, <1>4, <2>1, Zenon DEF Counted
<1>6. CASE ~\E t \in TasksOf(j) : worker'[t].ph \in {"exception", "lost"}
  <2>1. ~Failed(j)
    BY <1>6, Zenon DEF Failed, At
  <2>2. OkTasks(j)' = OkTasks(j)
    BY <1>1, <1>6, Zenon DEF OkTasks, At
  <2> QED
    BY <1>2, <1>4, <2>1, <2>2, Zenon DEF Counted
<1> QED
  BY <1>5, <1>6, Zenon

\* An inserted task takes the next partition and counts for nothing yet.
LEMMA CountOfInsert ==
  ASSUME TypeOK, DriveInv, PlanInv, InsertTask, NEW j \in Jobs, Counted(j)
  PROVE  Counted(j)'
<1> DEFINE n == Len(task) + 1
<1>1. /\ n \notin Ids
      /\ \A t \in Ids : task'[t] = task[t] /\ worker'[t] = worker[t]
      /\ task'[n] = [job |-> cur.job, part |-> Head(cur.todo), status |-> "PENDING"]
      /\ worker'[n] = Unsent
      /\ \A k : k # cur.job => TasksOf(k)' = TasksOf(k)
      /\ {t \in Ids' : task'[t].job = cur.job} = TasksOf(cur.job) \cup {n}
      /\ pc = "insert" /\ job' = job
  BY TaskOfInsert, Zenon
<1> HIDE DEF n
<1>2. TasksOf(j) \subseteq Ids
  BY DEF TasksOf
<1>3. CASE j # cur.job
  <2>1. TasksOf(j)' = TasksOf(j)
    BY <1>1, <1>3, Zenon
  <2>2. {task'[t].part : t \in TasksOf(j)'} = {task[t].part : t \in TasksOf(j)}
    BY <1>1, <1>2, <2>1, Zenon
  <2>3. OkTasks(j)' = OkTasks(j) /\ (Failed(j) => Failed(j)') /\ Made(j)' = Made(j)
    BY <1>1, <1>2, <2>1, Zenon DEF OkTasks, Failed, At, Made
  <2> QED
    BY <1>1, <2>2, <2>3, Zenon DEF Counted
<1>4. CASE j = cur.job
  <2>1. TasksOf(j)' = TasksOf(j) \cup {n}
    BY <1>1, <1>4, Zenon DEF TasksOf
  <2>2. Made(j)' = Made(j) + 1 /\ Made(j) \in Nat
    <3>1. IsFiniteSet(TasksOf(j)) /\ n \notin TasksOf(j) /\ Made(j) \in Nat
      <4>1. n \notin TasksOf(j)
        BY <1>1, <1>2, Zenon
      <4> QED
        BY <4>1, TasksFinite, Zenon
    <3>2. Cardinality(TasksOf(j) \cup {n}) = Cardinality(TasksOf(j)) + 1
      BY <3>1, FS_AddElement, Zenon
    <3> QED
      BY <2>1, <3>1, <3>2, Zenon DEF Made
  <2>3. task'[n].part = Made(j) + 1
    <3>1. cur.todo \in Seq(Nat) /\ cur.todo # <<>> /\ Consecutive(cur.todo, Made(j))
      BY <1>1, <1>4, TypeFacts, Zenon DEF InsertTask, PlanInv
    <3>2. Head(cur.todo) = cur.todo[1] /\ 1 \in 1..Len(cur.todo)
      BY <3>1
    <3> QED
      BY <1>1, <3>1, <3>2 DEF Consecutive
  <2>4. {task'[t].part : t \in TasksOf(j)'} = 1..Made(j)'
    <3>1. {task'[t].part : t \in TasksOf(j) \cup {n}} = {task[t].part : t \in TasksOf(j)} \cup {task'[n].part}
      BY <1>1, <1>2
    <3>2. 1..(Made(j) + 1) = 1..Made(j) \cup {Made(j) + 1}
      BY <2>2
    <3> QED
      BY <2>1, <2>2, <2>3, <3>1, <3>2, Zenon DEF Counted
  <2>5. worker'[n].ph = "unsent"
    BY <1>1 DEF Unsent
  <2>6. OkTasks(j)' = OkTasks(j) /\ (Failed(j) => Failed(j)')
    BY <1>1, <1>2, <2>1, <2>5, Zenon DEF OkTasks, Failed, At
  <2> QED
    BY <1>1, <2>4, <2>6, Zenon DEF Counted
<1> QED
  BY <1>3, <1>4, Zenon

\* A worker's step counts its task exactly when it records its success.
LEMMA CountOfWorker ==
  ASSUME TypeOK, NEW t \in Ids, WorkerStep(t) \/ WorkerDies(t), NEW j \in Jobs, Counted(j)
  PROVE  Counted(j)'
<1>0. /\ {task[u].part : u \in TasksOf(j)} = 1..Made(j)
      /\ Failed(j) \/ job[j].completed = Cardinality(OkTasks(j))
  BY DEF Counted
<1>1. /\ SameTasks
      /\ \A u \in Ids \ {t} : worker'[u] = worker[u]
      /\ worker[t].ph \in {"queued"} \cup Working \cup Recorded
      /\ \/ /\ job' = [job EXCEPT ![task[t].job].completed = @ + 1]
            /\ worker[t].ph = "running" /\ worker'[t].ph = "okRecorded"
         \/ /\ job' = job
            /\ \/ worker'[t].ph \in {"exception", "lost"}
               \/ worker'[t].ph \in {"okRecorded", "SUCCEEDED"}
                    <=> worker[t].ph \in {"okRecorded", "SUCCEEDED"}
  BY WorkerEffect, Zenon
<1>2. TasksOf(j) \subseteq Ids /\ TasksOf(j)' = TasksOf(j)
  BY <1>1, SameTasksOf, Zenon DEF TasksOf
<1>3. job \in [Jobs -> JobRow] /\ task \in [Ids -> TaskRow]
  BY TypeFacts, Zenon
<1>4. worker[t].ph \notin {"exception", "lost"}
  BY <1>1, Zenon DEF Working, Recorded
<1>5. CASE t \notin TasksOf(j)
  <2>1. task[t].job # j
    BY <1>5, Zenon DEF TasksOf
  <2>2. job'[j].completed = job[j].completed
    BY <1>1, <1>3, <2>1, Zenon DEF JobRow
  <2> QED
    BY <1>1, <1>2, <1>5, <2>2, CountKept, Zenon
<1>6. CASE t \in TasksOf(j) /\ job' = job
  <2>1. \A u \in TasksOf(j) :
           \/ worker'[u].ph \in {"exception", "lost"}
           \/ /\ worker'[u].ph \in {"okRecorded", "SUCCEEDED"}
                   <=> worker[u].ph \in {"okRecorded", "SUCCEEDED"}
              /\ worker[u].ph \in {"exception", "lost"} => worker'[u].ph \in {"exception", "lost"}
    <3>1. CASE job' # [job EXCEPT ![task[t].job].completed = @ + 1]
      BY <1>1, <1>2, <1>4, <1>6, <3>1, Zenon
    <3>2. CASE job' = [job EXCEPT ![task[t].job].completed = @ + 1]
      <4>1. job[j].completed = job[j].completed + 1 /\ job[j].completed \in Nat
        BY <1>3, <1>6, <3>2 DEF JobRow, TasksOf
      <4> QED
        BY <4>1
    <3> QED
      BY <3>1, <3>2, Zenon
  <2> QED
    BY <1>1, <1>6, <2>1, CountKept, Zenon
<1>7. CASE t \in TasksOf(j) /\ job' # job
  <2>1. /\ job' = [job EXCEPT ![task[t].job].completed = @ + 1] /\ task[t].job = j
        /\ worker[t].ph = "running" /\ worker'[t].ph = "okRecorded"
    BY <1>1, <1>7, Zenon DEF TasksOf
  <2>2. job'[j].completed = job[j].completed + 1
    BY <1>3, <2>1, Zenon DEF JobRow
  <2>3. OkTasks(j)' = OkTasks(j) \cup {t} /\ t \notin OkTasks(j)
    BY <1>1, <1>2, <1>7, <2>1, Zenon DEF OkTasks, At
  <2>4. IsFiniteSet(OkTasks(j))
    <3>1. OkTasks(j) \subseteq TasksOf(j)
      BY DEF OkTasks
    <3> QED
      BY <3>1, TasksFinite, FS_Subset, Zenon
  <2>5. Cardinality(OkTasks(j)') = Cardinality(OkTasks(j)) + 1
    BY <2>3, <2>4, FS_AddElement, Zenon
  <2>6. Failed(j) => Failed(j)'
    BY <1>1, <1>2, <1>4, Zenon DEF Failed, At
  <2>7. Made(j)' = Made(j)
    BY <1>2, Zenon DEF Made
  <2>8. {task'[u].part : u \in TasksOf(j)'} = {task[u].part : u \in TasksOf(j)}
    <3>1. \A u \in TasksOf(j) : task'[u].part = task[u].part
      BY <1>1, <1>2, Zenon DEF SameTasks
    <3> QED
      BY <1>2, <3>1, Zenon
  <2> QED
    <3>1. Failed(j)' \/ job'[j].completed = Cardinality(OkTasks(j)')
      BY <1>0, <2>2, <2>5, <2>6, Zenon
    <3>2. {task'[u].part : u \in TasksOf(j)'} = 1..Made(j)'
      BY <1>0, <2>7, <2>8, Zenon
    <3> QED
      BY <3>1, <3>2, Zenon DEF Counted
<1> QED
  BY <1>5, <1>6, <1>7, Zenon

\* Every step keeps CountInv.
LEMMA CountStep ==
  ASSUME TypeOK, DriveInv, TaskInv, PlanInv, CountInv, [Next]_vars
  PROVE  CountInv'
<1> SUFFICES ASSUME NEW j \in Jobs PROVE Counted(j)'
  BY Zenon DEF CountInv, Counted, Failed
<1>0. Counted(j) /\ TasksOf(j) \subseteq Ids
  BY DEF CountInv, Counted, Failed, TasksOf
<1>1. CASE Quiet \/ Boot \/ StartJob
  <2>1. SameTasks /\ worker' = worker /\ job'[j].completed = job[j].completed
    BY <1>1, QuietEffect, BootEffect, StartEffect, Zenon
  <2> QED
    BY <1>0, <2>1, CountKept, Zenon
<1>2. ASSUME NEW k \in Jobs, StatusOnly(k) PROVE Counted(j)'
  <2>1. SameTasks /\ worker' = worker /\ job'[j].completed = job[j].completed
    BY <1>2, StatusOnlyEffect, Zenon
  <2> QED
    BY <1>0, <2>1, CountKept, Zenon
<1>3. CASE MarkRunning
  <2>1. /\ UNCHANGED <<job, worker>>
        /\ task' = [t \in Ids |-> IF t \in Range(cur.ids)
                                  THEN [task[t] EXCEPT !.status = "RUNNING"]
                                  ELSE task[t]]
    BY <1>3, Zenon DEF MarkRunning
  <2>2. SameTasks
    BY <2>1, TypeFacts, Zenon DEF SameTasks, Ids, TaskRow
  <2> QED
    BY <1>0, <2>1, <2>2, CountKept, Zenon
<1>4. CASE PublishTask
  <2>1. SameTasks /\ job' = job
    BY <1>4, PublishEffect, Zenon
  <2>2. PICK u \in TasksOf(cur.job) : /\ worker[u].ph = "unsent"
                                      /\ worker' = [worker EXCEPT ![u].ph = "queued"]
    BY <1>4, PublishEffect, Zenon
  <2>3. \A t \in Ids : worker'[t] = worker[t] \/ (t = u /\ worker'[t].ph = "queued")
    BY <2>2, TypeFacts, Zenon DEF WorkerRow
  <2>4. \A t \in TasksOf(j) :
           /\ worker'[t].ph \in {"okRecorded", "SUCCEEDED"} <=> worker[t].ph \in {"okRecorded", "SUCCEEDED"}
           /\ worker[t].ph \in {"exception", "lost"} => worker'[t].ph \in {"exception", "lost"}
    BY <1>0, <2>2, <2>3, Zenon
  <2> QED
    BY <1>0, <2>1, <2>4, CountKept, Zenon
<1> QED
  BY <1>0, <1>1, <1>2, <1>3, <1>4, CountOfInsert, CountOfWorker, StepCases, Zenon

-----------------------------------------------------------------------------
Whole(j) ==
  /\ Cardinality(TasksOf(j)) = job[j].numTasks
  /\ {task[t].part : t \in TasksOf(j)} = 1..job[j].numTasks
  /\ \A t \in TasksOf(j) : At(t, {"SUCCEEDED"})
  /\ job[j].completed = job[j].numTasks

\* Nothing about a whole job changes in a step that touches neither its tasks nor
\* the counts of its row.
LEMMA WholeKept ==
  ASSUME NEW j \in Jobs, Whole(j), TasksOf(j)' = TasksOf(j),
         \A t \in TasksOf(j) : task'[t].part = task[t].part /\ worker'[t].ph = worker[t].ph,
         job'[j].numTasks = job[j].numTasks, job'[j].completed = job[j].completed
  PROVE  Whole(j)'
<1>1. {task'[t].part : t \in TasksOf(j)'} = {task[t].part : t \in TasksOf(j)}
  OBVIOUS
<1> QED
  BY <1>1, Zenon DEF Whole, At

\* The tasks of a job are the same when no row is added.
LEMMA SameKept ==
  ASSUME SameTasks, NEW j \in Jobs
  PROVE  /\ TasksOf(j)' = TasksOf(j) /\ TasksOf(j) \subseteq Ids
         /\ \A t \in TasksOf(j) : task'[t].part = task[t].part
<1>1. TasksOf(j)' = TasksOf(j) /\ TasksOf(j) \subseteq Ids
  BY SameTasksOf, Zenon DEF TasksOf
<1> QED
  BY <1>1, Zenon DEF SameTasks

\* Workers whose task has a result, and rows of ended jobs, are left alone.
LEMMA WholeOfEnded ==
  ASSUME TypeOK, DriveInv, TaskInv, [Next]_vars, NEW j \in Jobs,
         job[j].status = "SUCCEEDED", ~CoordinatorOwns(j), Whole(j)
  PROVE  Whole(j)'
<1>0. \A t \in TasksOf(j) : worker[t].ph = "SUCCEEDED"
  BY Zenon DEF Whole, At
<1>1. CASE Quiet
  <2>1. UNCHANGED <<job, task, worker>> /\ SameTasks
    BY <1>1, QuietEffect, Zenon
  <2> QED
    BY <2>1, SameKept, WholeKept, Zenon
<1>2. CASE Boot
  <2>1. /\ SameTasks /\ worker' = worker
        /\ job'[j].numTasks = job[j].numTasks /\ job'[j].completed = job[j].completed
    BY <1>2, BootEffect, Zenon
  <2> QED
    BY <2>1, SameKept, WholeKept, Zenon
<1>3. CASE StartJob
  <2>1. SameTasks /\ worker' = worker /\ job'[j] = job[j]
    BY <1>3, StartEffect, Zenon
  <2> QED
    BY <2>1, SameKept, WholeKept, Zenon
<1>4. CASE InsertTask
  <2>1. /\ \A t \in Ids : task'[t] = task[t] /\ worker'[t] = worker[t]
        /\ \A k : k # cur.job => TasksOf(k)' = TasksOf(k)
        /\ pc = "insert" /\ job' = job
    BY <1>4, TaskOfInsert, Zenon
  <2>2. cur.job # j
    BY <2>1, Zenon DEF DriveInv, Submitting
  <2>3. TasksOf(j)' = TasksOf(j) /\ TasksOf(j) \subseteq Ids
    BY <2>1, <2>2, Zenon DEF TasksOf
  <2>4. \A t \in TasksOf(j) : task'[t].part = task[t].part /\ worker'[t].ph = worker[t].ph
    BY <2>1, <2>3, Zenon
  <2> QED
    BY <2>1, <2>3, <2>4, WholeKept, Zenon
<1>5. CASE PublishTask
  <2>1. SameTasks /\ job' = job
    BY <1>5, PublishEffect, Zenon
  <2>2. PICK u \in TasksOf(cur.job) : /\ worker[u].ph = "unsent"
                                      /\ worker' = [worker EXCEPT ![u].ph = "queued"]
    BY <1>5, PublishEffect, Zenon
  <2>3. \A t \in TasksOf(j) : worker'[t] = worker[t]
    BY <1>0, <2>2, TypeFacts, Zenon DEF TasksOf
  <2> QED
    BY <2>1, <2>3, SameKept, WholeKept, Zenon
<1>6. CASE MarkRunning
  <2>1. /\ UNCHANGED <<job, worker>>
        /\ task' = [t \in Ids |-> IF t \in Range(cur.ids)
                                  THEN [task[t] EXCEPT !.status = "RUNNING"]
                                  ELSE task[t]]
    BY <1>6, Zenon DEF MarkRunning
  <2>2. SameTasks
    BY <2>1, TypeFacts, Zenon DEF SameTasks, Ids, TaskRow
  <2> QED
    BY <2>1, <2>2, SameKept, WholeKept, Zenon
<1>7. ASSUME NEW k \in Jobs, StatusOnly(k) PROVE Whole(j)'
  <2>1. /\ SameTasks /\ worker' = worker
        /\ job'[j].numTasks = job[j].numTasks /\ job'[j].completed = job[j].completed
    BY <1>7, StatusOnlyEffect, Zenon
  <2> QED
    BY <2>1, SameKept, WholeKept, Zenon
<1>8. ASSUME NEW u \in Ids, WorkerStep(u) \/ WorkerDies(u) PROVE Whole(j)'
  <2>1. /\ SameTasks
        /\ \A t \in Ids \ {u} : worker'[t] = worker[t]
        /\ worker[u].ph \in {"queued"} \cup Working \cup Recorded
        /\ job' = job \/ job' = [job EXCEPT ![task[u].job].completed = @ + 1]
    BY <1>8, WorkerEffect, Zenon
  <2>2. u \notin TasksOf(j)
    BY <1>0, <2>1, Zenon DEF Working, Recorded
  <2>3. job'[j] = job[j]
    BY <2>1, <2>2, TypeFacts, Zenon DEF TasksOf
  <2>4. \A t \in TasksOf(j) : worker'[t].ph = worker[t].ph
    BY <2>1, <2>2, Zenon DEF TasksOf
  <2> QED
    BY <2>1, <2>3, <2>4, SameKept, WholeKept, Zenon
<1> QED
  BY <1>1, <1>2, <1>3, <1>4, <1>5, <1>6, <1>7, <1>8, StepCases, Zenon

\* _complete_compression_job runs when no task remains and the last batch has
\* succeeded; the plan and the counts say that this is all of the job.
LEMMA WholeOfCompleted ==
  ASSUME TypeOK, DriveInv, TaskInv, PlanInv, CountInv, NEW j \in Jobs, PollCompleted(j)
  PROVE  Whole(j)'
<1>1. /\ pc = "poll" /\ j \in DOMAIN scheduled /\ scheduled[j].rest = <<>>
      /\ AllSucceeded(j) /\ UNCHANGED <<task, worker>>
  BY DEF PollCompleted, TypeOK
<1>2. job'[j].numTasks = job[j].numTasks /\ job'[j].completed = job[j].completed
  BY TypeFacts, Zenon DEF PollCompleted, SetStatus, JobRow
<1>3. job[j].numTasks = Made(j) + Len(scheduled[j].rest) /\ BatchIs(j, scheduled[j].batch)
  BY <1>1, Zenon DEF PlanInv
<1>4. Made(j) \in Nat
  BY TasksFinite, Zenon
<1>5. job[j].numTasks = Made(j)
  BY <1>1, <1>3, <1>4
<1>6. \A t \in TasksOf(j) : worker[t].ph = "SUCCEEDED"
  <2> SUFFICES ASSUME NEW t \in TasksOf(j) PROVE worker[t].ph = "SUCCEEDED"
    OBVIOUS
  <2>1. CASE t \in Range(scheduled[j].batch)
    <3>1. worker[t].ph \in Outcome(j)
      BY <2>1, Zenon DEF Outcome
    <3> QED
      BY <1>1, <3>1, Zenon DEF AllSucceeded
  <2>2. CASE t \notin Range(scheduled[j].batch)
    BY <1>3, <2>2, Zenon DEF BatchIs, At
  <2> QED
    BY <2>1, <2>2, Zenon
<1>7. OkTasks(j) = TasksOf(j) /\ \A t \in TasksOf(j) : ~At(t, {"exception", "lost"})
  BY <1>6, Zenon DEF OkTasks, At
<1>8. job[j].completed = Made(j) /\ {task[t].part : t \in TasksOf(j)} = 1..Made(j)
  BY <1>7, Zenon DEF CountInv, Made
<1>9. Whole(j)
  BY <1>5, <1>6, <1>8, Zenon DEF Whole, Made, At
<1>10. SameTasks
  BY <1>1, Zenon DEF SameTasks, Ids
<1> QED
  BY <1>1, <1>2, <1>9, <1>10, SameKept, WholeKept, Zenon

\* Every step keeps SucceededIsWhole: a job becomes SUCCEEDED only in
\* PollCompleted, and nothing of it changes later.
LEMMA WholeStep ==
  ASSUME TypeOK, DriveInv, TaskInv, PlanInv, CountInv, SucceededIsWhole, [Next]_vars, DriveInv'
  PROVE  SucceededIsWhole'
<1> SUFFICES ASSUME NEW j \in Jobs, job'[j].status = "SUCCEEDED", ~job'[j].spider
             PROVE  Whole(j)'
  BY Zenon DEF SucceededIsWhole, Whole
<1>1. ~CoordinatorOwns(j) /\ ~job[j].spider
  BY Zenon DEF DriveInv, CoordinatorOwns
<1>2. CASE job[j].status = "SUCCEEDED"
  <2>1. Whole(j)
    BY <1>1, <1>2, Zenon DEF SucceededIsWhole, Whole
  <2> QED
    BY <1>1, <1>2, <2>1, WholeOfEnded, Zenon
<1>3. CASE job[j].status # "SUCCEEDED"
  <2>1. CASE Quiet \/ InsertTask \/ PublishTask \/ MarkRunning
    BY <1>3, <2>1, QuietEffect, Zenon DEF InsertTask, PublishTask, MarkRunning, db
  <2>2. CASE Boot \/ StartJob
    BY <1>3, <2>2, BootEffect, StartEffect, Zenon
  <2>3. ASSUME NEW k \in Jobs, StatusOnly(k) PROVE PollCompleted(j)
    BY <1>1, <1>3, <2>3, StatusOnlyEffect, Zenon
  <2>4. ASSUME NEW t \in Ids, WorkerStep(t) \/ WorkerDies(t) PROVE FALSE
    <3>1. job' = job \/ job' = [job EXCEPT ![task[t].job].completed = @ + 1]
      BY <2>4, WorkerEffect, Zenon
    <3>2. job'[j].status = job[j].status
      <4>1. job \in [Jobs -> JobRow]
        BY TypeFacts, Zenon
      <4>2. CASE job' = job
        BY <4>2, Zenon
      <4>3. CASE job' = [job EXCEPT ![task[t].job].completed = @ + 1]
        BY <4>1, <4>3, Zenon DEF JobRow
      <4> QED
        BY <3>1, <4>2, <4>3, Zenon
    <3> QED
      BY <1>3, <3>2, Zenon
  <2> QED
    BY <2>1, <2>2, <2>3, <2>4, StepCases, WholeOfCompleted, Zenon
<1> QED
  BY <1>2, <1>3, Zenon

-----------------------------------------------------------------------------
\* Rows are typed, no row is RUNNING and no task exists at the start.
LEMMA InvInit ==
  ASSUME Init
  PROVE  CSInv
<1>1. /\ TypeOK /\ Ids = {} /\ pc = "down" /\ cur = Idle /\ DOMAIN scheduled = {} /\ fetched = {}
      /\ \A j \in Jobs : /\ job[j].status = "NONE" /\ job[j].completed = 0
                         /\ job[j].spider = FALSE
  BY TypeInit DEF Init, Ids, NoEntries
<1>2. DriveInv
  BY <1>1, Zenon DEF DriveInv, Running, Preparing, Submitting
<1>3. TaskInv
  BY <1>1 DEF TaskInv, KilledTasksStopped, Idle
<1>4. ArchiveInv
  BY <1>1, Zenon DEF ArchiveInv
<1>5. PlanInv
  BY <1>1, Zenon DEF PlanInv, Preparing, Submitting
<1>6. \A j \in Jobs : TasksOf(j) = {} /\ Made(j) = 0
  BY <1>1, FS_EmptySet, Zenon DEF TasksOf, Made
<1>7. BatchInv
  <2>1. \A j \in Jobs : {t \in TasksOf(j) : At(t, {"queued"} \cup Working \cup Recorded)} = {}
    BY <1>6
  <2> QED
    <3>1. Cardinality({}) = 0 /\ 0 <= MaxConcurrentTasksPerJob
      BY FS_EmptySet, SchedulerConstants
    <3>2. BatchLimit
      BY <2>1, <3>1, Zenon DEF BatchLimit
    <3> QED
      BY <1>1, <3>2, Zenon DEF BatchInv, Submitting
<1>8. CountInv
  <2>1. \A j \in Jobs : OkTasks(j) = {} /\ {task[t].part : t \in TasksOf(j)} = {}
    BY <1>6, Zenon DEF OkTasks
  <2> QED
    <3>1. Cardinality({}) = 0 /\ 1..0 = {}
      BY FS_EmptySet
    <3>2. \A j \in Jobs : 1..Made(j) = {} /\ Cardinality(OkTasks(j)) = 0
      BY <1>6, <2>1, <3>1, Zenon
    <3>3. \A j \in Jobs : /\ {task[t].part : t \in TasksOf(j)} = 1..Made(j)
                          /\ job[j].completed = Cardinality(OkTasks(j))
      <4>1. \A j \in Jobs : {task[t].part : t \in TasksOf(j)} = 1..Made(j)
        BY <2>1, <3>2, Zenon
      <4>2. \A j \in Jobs : job[j].completed = Cardinality(OkTasks(j))
        BY <1>1, <3>2, Zenon
      <4> QED
        BY <4>1, <4>2, Zenon
    <3> QED
      BY <3>3, Zenon DEF CountInv
<1>9. SucceededIsWhole
  BY <1>1, Zenon DEF SucceededIsWhole
<1> QED
  BY <1>1, <1>2, <1>3, <1>4, <1>5, <1>7, <1>8, <1>9, Zenon DEF CSInv

\* CSInv is inductive.
LEMMA InvStep ==
  ASSUME CSInv, [Next]_vars
  PROVE  CSInv'
<1>1. /\ TypeOK /\ DriveInv /\ TaskInv /\ ArchiveInv /\ PlanInv /\ BatchInv /\ CountInv
      /\ SucceededIsWhole
  BY Zenon DEF CSInv
<1>2. TypeOK'
  BY <1>1, TypeStep, Zenon
<1>3. DriveInv'
  BY <1>1, DriveStep, Zenon
<1>4. TaskInv'
  BY <1>1, TaskStep, Zenon
<1>5. ArchiveInv'
  BY <1>1, ArchiveStep, Zenon
<1>6. PlanInv'
  BY <1>1, PlanStep, Zenon
<1>7. BatchInv'
  BY <1>1, <1>2, BatchStep, Zenon
<1>8. CountInv'
  BY <1>1, CountStep, Zenon
<1>9. SucceededIsWhole'
  BY <1>1, <1>3, WholeStep, Zenon
<1> QED
  BY <1>2, <1>3, <1>4, <1>5, <1>6, <1>7, <1>8, <1>9, Zenon DEF CSInv

\* The inductive invariant holds in every reachable state, whatever the jobs, their
\* kinds, the batch limit and the bounds are.
THEOREM InvariantHolds == Spec => []CSInv
<1>1. Init => CSInv
  BY InvInit, Zenon
<1>2. CSInv /\ [Next]_vars => CSInv'
  BY InvStep
<1> QED
  BY <1>1, <1>2, PTL DEF Spec

\* While the scheduler runs every RUNNING row that no coordinator drives is one it
\* holds, and it exits only when there is none: a crash, kill_hanging_jobs at the
\* next start, or a SIGTERM leaves no RUNNING row to nobody.
THEOREM EveryJobIsDriven == Spec => []JobsAreDriven
<1>1. CSInv => JobsAreDriven
  <2> SUFFICES ASSUME CSInv PROVE JobsAreDriven
    OBVIOUS
  <2>1. TypeOK /\ DriveInv
    BY Zenon DEF CSInv
  <2>2. \A j \in HangingJobs : j \in Jobs /\ job[j].status = "RUNNING" /\ ~CoordinatorOwns(j)
    BY <2>1, Zenon DEF HangingJobs, DriveInv
  <2>3. RunningIsTracked
    BY <2>1, <2>2, Zenon DEF RunningIsTracked, DriveInv
  <2>4. ExitIsDrained
    BY <2>1, <2>2, Zenon DEF ExitIsDrained, DriveInv
  <2> QED
    BY <2>1, <2>3, <2>4, Zenon DEF JobsAreDriven
<1> QED
  BY <1>1, InvariantHolds, PTL

\* A job marked SUCCEEDED by _complete_compression_job is whole: one task for each
\* of its partitions, all of them successful and all of them counted, over any
\* number of batches and whatever crashed or was retried on the way.
THEOREM SuccessIsWhole == Spec => []SucceededIsWhole
<1>1. CSInv => SucceededIsWhole
  BY Zenon DEF CSInv
<1> QED
  BY <1>1, InvariantHolds, PTL

\* At most max_concurrent_tasks_per_job tasks of a job are queued or being run, and
\* no task row of a KILLED job says RUNNING.
THEOREM TasksStayBounded == Spec => []TasksAreBounded
<1>1. CSInv => TasksAreBounded
  BY Zenon DEF CSInv, BatchInv, TaskInv, TasksAreBounded
<1> QED
  BY <1>1, InvariantHolds, PTL

\* The metadata lists an archive only after its upload, and lists all the archives of
\* a task that run_clp reports as SUCCEEDED.
THEOREM ArchivesStayListed == Spec => []ArchivesAreListed
<1>1. CSInv => ArchivesAreListed
  BY DEF CSInv, ArchiveInv, Accounted, ArchivesAreListed, ListedIsUploaded, SuccessListsAll, At
<1> QED
  BY <1>1, InvariantHolds, PTL

\* No step changes a final status, and no step of the scheduler changes the row of a
\* job the coordinator handles, although none of the UPDATEs has a condition on the
\* status it overwrites.
THEOREM RowsStayKept == Spec => RowsAreKept
<1>1. CSInv /\ [Next]_vars => FinalStep
  BY StatusStep, Zenon DEF CSInv, FinalStep, Final
<1>2. CSInv /\ [Next]_vars => CoordinatorStep
  BY StatusStep DEF CSInv, CoordinatorStep
<1> QED
  BY <1>1, <1>2, InvariantHolds, PTL DEF Spec, RowsAreKept, CoordinatorJobsKept, FinalIsFinal

==============================================================================
