----------------------------- MODULE LogIngestorQueues -----------------------------
(***************************************************************************)
(* The rows of SQS listeners: every step of LogIngestor keeps SqsInv, from which*)
(* SqsIngestsOnce follows.                                                 *)
(***************************************************************************)
EXTENDS LogIngestorSteps, FiniteSetTheorems

-----------------------------------------------------------------------------
(***************************************************************************)
(* What SQS listeners recorded                                             *)
(***************************************************************************)

\* Counting tasks.
LEMMA WorkerSets ==
    ASSUME NEW W \in SUBSET Workers
    PROVE  /\ Cardinality(W) \in Nat
           /\ W = {} => Cardinality(W) = 0
           /\ \A w \in W : Cardinality(W) >= 1 /\ Cardinality(W \ {w}) = Cardinality(W) - 1
           /\ \A w \in Workers : w \notin W => Cardinality(W \cup {w}) = Cardinality(W) + 1
<1>1. IsFiniteSet(W) /\ Cardinality(W) \in Nat
  BY FinitenessAssumption, FS_Subset, FS_CardinalityType, Zenon
<1>2. Cardinality(W) = 0 <=> W = {}
  BY <1>1, FS_EmptySet, Zenon
<1>3. \A w \in W : Cardinality(W \ {w}) = Cardinality(W) - 1
  BY <1>1, FS_RemoveElement, Zenon
<1>4. \A w \in Workers : w \notin W => Cardinality(W \cup {w}) = Cardinality(W) + 1
  BY <1>1, FS_AddElement, Zenon
<1> QED BY <1>1, <1>2, <1>3, <1>4

\* How many tasks are about to record key k.
Ingests(j, k) == Cardinality(Ingesting(j, k))

\* That is a number, before and after a step.
LEMMA IngestsIsNat == \A j, k : Ingests(j, k) \in Nat /\ Ingests(j, k)' \in Nat
<1>1. \A j, k : Ingesting(j, k) \in SUBSET Workers /\ Ingesting(j, k)' \in SUBSET Workers
  BY Zenon DEF Ingesting
<1> QED BY <1>1, WorkerSets, Zenon DEF Ingests

\* No row is added for the key, and a message that nobody processes any more has
\* seen one fault for each of its rows.
LEMMA SqsKeyKept ==
    ASSUME TypeOK, NEW j \in Jobs, NEW k \in Keys, SqsKey(j, k),
           Ingests(j, k)' <= Ingests(j, k),
           \A n \in Copies : Recorded(j, k, n)' <=> Recorded(j, k, n),
           k \in queue'[j] /\ AllFailed(j, k)' =>
              (k \in queue[j] /\ AllFailed(j, k)) \/ faults' = faults + 1 \/ Ingests(j, k) >= 1,
           k \in queue[j] /\ k \in Relevant /\ k \notin queue'[j] => \E n \in Copies : Recorded(j, k, n),
           objects' = objects, faults' = faults \/ faults' = faults + 1
    PROVE  SqsKey(j, k)'
<1>1. /\ Ingests(j, k) \in Nat /\ Ingests(j, k)' \in Nat /\ faults \in Nat /\ faults' \in Nat
      /\ Copies \subseteq Nat
  BY IngestsIsNat DEF TypeOK, Copies
<1>2. \A n \in Copies : Recorded(j, k, n)' => n + Ingests(j, k) <= 1 + faults
  BY Zenon DEF SqsKey, Ingests
<1>3. Ingests(j, k)' <= 1 + faults'
  <2>1. Ingests(j, k) <= 1 + faults
    BY Zenon DEF SqsKey, Ingests
  <2> QED BY <1>1, <2>1
<1>4. ASSUME NEW n \in Copies, Recorded(j, k, n)'
      PROVE  n + Ingests(j, k)' <= 1 + faults'
  BY <1>1, <1>2, <1>4
<1>5. ASSUME k \in queue'[j], AllFailed(j, k)', NEW n \in Copies, Recorded(j, k, n)'
      PROVE  n <= faults'
  <2>1. n \in Nat /\ n + Ingests(j, k) <= 1 + faults
    BY <1>1, <1>2, <1>5, Zenon
  <2>2. CASE k \in queue[j] /\ AllFailed(j, k)
    <3>1. n <= faults
      BY <1>5, <2>2, Zenon DEF SqsKey
    <3> QED BY <1>1, <2>1, <3>1
  <2>3. CASE faults' = faults + 1 \/ Ingests(j, k) >= 1
    BY <1>1, <2>1, <2>3
  <2> QED BY <1>5, <2>2, <2>3, Zenon
<1>6. /\ \A n \in Copies : Recorded(j, k, n)' => k <= objects'
      /\ k \in Relevant /\ k <= objects' /\ k \notin queue'[j] => \E n \in Copies : Recorded(j, k, n)'
  BY Zenon DEF SqsKey
<1> QED BY <1>3, <1>4, <1>5, <1>6, Zenon DEF SqsKey, Ingests

\* A task that was ingesting the key recorded it.
LEMMA SqsKeyRecorded ==
    ASSUME TypeOK, NEW j \in Jobs, NEW k \in Keys, SqsKey(j, k), k <= objects,
           Ingests(j, k) >= 1, Ingests(j, k)' = Ingests(j, k) - 1,
           \A n \in Copies : Recorded(j, k, n) => Recorded(j, k, n)',
           \A n \in Copies : Recorded(j, k, n)' =>
              Recorded(j, k, n) \/ \A m \in 1..(n - 1) : Recorded(j, k, m),
           ~AllFailed(j, k)' \/ faults' = faults + 1,
           UNCHANGED <<queue, objects>>, faults' = faults \/ faults' = faults + 1
    PROVE  SqsKey(j, k)'
<1>1. /\ Ingests(j, k) \in Nat /\ Ingests(j, k)' \in Nat /\ faults \in Nat /\ faults' \in Nat
      /\ Copies = 1..MaxCopies /\ MaxCopies \in Nat
  BY IngestsIsNat, BoundsAssumption DEF TypeOK, Copies
<1>2. Ingests(j, k) <= 1 + faults
  BY Zenon DEF SqsKey, Ingests
<1>3. ASSUME NEW n \in Copies, Recorded(j, k, n)'
      PROVE  n + Ingests(j, k)' <= 1 + faults
  <2>1. \A m \in Copies : Recorded(j, k, m) => m + Ingests(j, k) <= 1 + faults
    BY Zenon DEF SqsKey, Ingests
  <2>2. CASE Recorded(j, k, n)
    BY <1>1, <2>1, <2>2
  <2>3. CASE n = 1
    BY <1>1, <1>2, <2>3
  <2>4. CASE n # 1 /\ \A m \in 1..(n - 1) : Recorded(j, k, m)
    <3>1. n - 1 \in 1..(n - 1) /\ n - 1 \in Copies
      BY <1>1, <2>4
    <3>2. (n - 1) + Ingests(j, k) <= 1 + faults
      BY <2>1, <2>4, <3>1, Zenon
    <3> QED BY <1>1, <3>2
  <2> QED BY <1>3, <2>2, <2>3, <2>4, Zenon
<1>4. ASSUME k \in queue'[j], AllFailed(j, k)', NEW n \in Copies, Recorded(j, k, n)'
      PROVE  n <= faults'
  <2>1. faults' = faults + 1
    BY <1>4, Zenon
  <2> QED BY <1>1, <1>3, <1>4, <2>1
<1>5. Ingests(j, k)' <= 1 + faults'
  BY <1>1, <1>2
<1>6. ASSUME NEW n \in Copies, Recorded(j, k, n)'
      PROVE  n + Ingests(j, k)' <= 1 + faults'
  BY <1>1, <1>3, <1>6
<1>7. k \in Relevant /\ k <= objects' /\ k \notin queue'[j] => \E n \in Copies : Recorded(j, k, n)'
  BY Zenon DEF SqsKey
<1> QED BY <1>4, <1>5, <1>6, <1>7, Zenon DEF SqsKey, Ingests

\* A message was received: for the first time, after those who had it failed, or
\* because of a fault.
LEMMA SqsKeyReceived ==
    ASSUME TypeOK, NEW j \in Jobs, NEW k \in Keys, SqsKey(j, k), k \in queue[j],
           Ingests(j, k)' = Ingests(j, k) + 1,
           \/ faults' = faults /\ AllFailed(j, k) /\ Ingests(j, k) = 0
           \/ faults' = faults + 1,
           ~AllFailed(j, k)',
           UNCHANGED <<rstatus, queue, objects>>
    PROVE  SqsKey(j, k)'
<1>1. /\ Ingests(j, k) \in Nat /\ Ingests(j, k)' \in Nat /\ faults \in Nat /\ faults' \in Nat
      /\ Copies \subseteq Nat
  BY IngestsIsNat DEF TypeOK, Copies
<1>2. \A n \in Copies : Recorded(j, k, n)' <=> Recorded(j, k, n)
  BY Zenon DEF Recorded
<1>3. /\ Ingests(j, k) <= 1 + faults
      /\ \A n \in Copies : Recorded(j, k, n) => n + Ingests(j, k) <= 1 + faults
      /\ AllFailed(j, k) => \A n \in Copies : Recorded(j, k, n) => n <= faults
      /\ \A n \in Copies : Recorded(j, k, n) => k <= objects
  BY Zenon DEF SqsKey, Ingests
<1>4. Ingests(j, k)' <= 1 + faults'
  BY <1>1, <1>3
<1>5. ASSUME NEW n \in Copies, Recorded(j, k, n)'
      PROVE  n + Ingests(j, k)' <= 1 + faults'
  <2>1. n \in Nat /\ n + Ingests(j, k) <= 1 + faults /\ (AllFailed(j, k) => n <= faults)
    BY <1>1, <1>2, <1>3, <1>5, Zenon
  <2> QED BY <1>1, <2>1
<1>6. \A n \in Copies : Recorded(j, k, n)' => k <= objects'
  BY <1>2, <1>3, Zenon
<1> QED BY <1>4, <1>5, <1>6, Zenon DEF SqsKey, Ingests

\* Nothing happens to messages, tasks or rows, except that idle tasks may start.
LEMMA SqsFrame ==
    ASSUME TypeOK, SqsInv, UNCHANGED <<wkeys, queue, objects>>,
           faults' = faults \/ faults' = faults + 1,
           \A r \in Rows : rstatus'[r] = "absent" <=> rstatus[r] = "absent",
           \A w \in Workers : wpc'[w] = wpc[w] \/ (wpc[w] = "none" /\ wpc'[w] = "fetch")
    PROVE  SqsInv'
<1>1. \A j \in Jobs, k \in Keys, n \in Copies : Recorded(j, k, n)' <=> Recorded(j, k, n)
  <2>1. \A j \in Jobs, k \in Keys, n \in Copies : <<j, k, n>> \in Rows
    BY Zenon DEF Rows
  <2> QED BY <2>1 DEF Recorded
<1>2. ASSUME NEW j \in Jobs, NEW k \in Keys, SqsKey(j, k) PROVE SqsKey(j, k)'
  <2>1. Ingesting(j, k)' = Ingesting(j, k)
    BY Zenon DEF Ingesting
  <2>2. Ingests(j, k)' <= Ingests(j, k)
    BY <2>1, IngestsIsNat DEF Ingests
  <2>3. AllFailed(j, k)' => AllFailed(j, k)
    BY Zenon DEF AllFailed
  <2> QED BY <1>1, <1>2, <2>2, <2>3, SqsKeyKept, Zenon
<1>3. ASSUME NEW w \in Workers, SqsTask(w) PROVE SqsTask(w)'
  <2>1. JobOf[w] \in Jobs /\ wkeys[w] \subseteq Keys
    BY WorkersAssumption DEF TypeOK
  <2> QED BY <1>1, <1>3, <2>1, Zenon DEF SqsTask
<1> QED BY <1>2, <1>3, Zenon DEF SqsInv

\* A crash is a fault, and afterwards no task processes anything.
LEMMA SqsOfCrash == TypeOK /\ SqsInv /\ Crash => SqsInv'
<1> SUFFICES ASSUME TypeOK, SqsInv, Crash PROVE SqsInv'
  OBVIOUS
<1>1. /\ UNCHANGED <<rstatus, queue, objects>> /\ faults' = faults + 1
      /\ wkeys' = [w \in Workers |-> {}] /\ wpc' = [w \in Workers |-> "none"]
  BY Zenon DEF Crash, Fault, db, ext
<1>2. ASSUME NEW j \in Jobs, NEW k \in Keys, SqsKey(j, k) PROVE SqsKey(j, k)'
  <2>1. Ingesting(j, k)' = {}
    BY <1>1, Zenon DEF Ingesting
  <2>2. Ingests(j, k)' = 0
    BY <2>1, FS_EmptySet, Zenon DEF Ingests
  <2>3. Ingests(j, k)' <= Ingests(j, k)
    BY <2>2, IngestsIsNat
  <2>4. \A n \in Copies : Recorded(j, k, n)' <=> Recorded(j, k, n)
    BY <1>1, Zenon DEF Recorded
  <2> QED BY <1>1, <1>2, <2>3, <2>4, SqsKeyKept, Zenon
<1>3. ASSUME NEW w \in Workers PROVE SqsTask(w)'
  BY <1>1, Zenon DEF SqsTask
<1> QED BY <1>1, <1>2, <1>3, Zenon DEF SqsInv

\* A new object has no row and no task yet.
LEMMA SqsOfPut == TypeOK /\ SqsInv /\ PutObject => SqsInv'
<1> SUFFICES ASSUME TypeOK, SqsInv, PutObject PROVE SqsInv'
  OBVIOUS
<1>1. /\ UNCHANGED <<rstatus, wkeys, wpc, faults>> /\ objects' = objects + 1
      /\ queue' = [j \in Jobs |-> IF Kind[j] = "sqs" THEN queue[j] \cup {objects + 1} ELSE queue[j]]
  BY Zenon DEF PutObject, NoFault, db, tasks
<1>2. objects \in Nat /\ Keys \subseteq Nat
  BY DEF TypeOK, Keys
<1>3. ASSUME NEW j \in Jobs, Kind[j] = "sqs", NEW k \in Keys PROVE SqsKey(j, k)'
  <2>1. SqsKey(j, k) /\ k \in Nat
    BY <1>2, <1>3, Zenon DEF SqsInv
  <2>2. /\ Ingests(j, k)' = Ingests(j, k) /\ (AllFailed(j, k)' <=> AllFailed(j, k))
        /\ \A n \in Copies : Recorded(j, k, n)' <=> Recorded(j, k, n)
    BY <1>1, Zenon DEF Ingests, Ingesting, AllFailed, Recorded
  <2>3. queue'[j] = queue[j] \cup {objects + 1}
    BY <1>1, <1>3, Zenon
  <2>4. /\ \A n \in Copies : Recorded(j, k, n)' => k <= objects
        /\ Ingests(j, k)' <= 1 + faults'
        /\ \A n \in Copies : Recorded(j, k, n)' => n + Ingests(j, k)' <= 1 + faults'
    BY <1>1, <2>1, <2>2, Zenon DEF SqsKey, Ingests
  <2>5. \A n \in Copies : Recorded(j, k, n)' => k <= objects'
    BY <1>1, <1>2, <2>1, <2>4
  <2>6. k \in queue'[j] /\ AllFailed(j, k)' => \A n \in Copies : Recorded(j, k, n)' => n <= faults'
    <3>1. CASE k \in queue[j]
      BY <1>1, <2>1, <2>2, <3>1, Zenon DEF SqsKey
    <3>2. CASE k = objects + 1
      BY <1>2, <2>4, <3>2
    <3> QED BY <2>3, <3>1, <3>2, Zenon
  <2>7. k \in Relevant /\ k <= objects' /\ k \notin queue'[j] => \E n \in Copies : Recorded(j, k, n)'
    <3>1. k <= objects' /\ k \notin queue'[j] => k <= objects /\ k \notin queue[j]
      BY <1>1, <1>2, <2>1, <2>3
    <3> QED BY <2>1, <2>2, <3>1, Zenon DEF SqsKey
  <2> QED BY <2>4, <2>5, <2>6, <2>7, Zenon DEF SqsKey, Ingests
<1>4. ASSUME NEW w \in Workers, SqsTask(w) PROVE SqsTask(w)'
  <2>1. 1..objects \subseteq 1..objects'
    BY <1>1, <1>2
  <2> QED BY <1>1, <1>4, <2>1, Zenon DEF SqsTask, Recorded
<1>5. \A j \in Jobs : Kind[j] = "sqs" => queue'[j] \subseteq 1..objects'
  <2> SUFFICES ASSUME NEW j \in Jobs, Kind[j] = "sqs" PROVE queue'[j] \subseteq 1..objects'
    OBVIOUS
  <2>1. queue'[j] = queue[j] \cup {objects + 1} /\ queue[j] \subseteq 1..objects
    BY <1>1, Zenon DEF SqsInv
  <2> QED BY <1>1, <1>2, <2>1
<1> QED BY <1>3, <1>4, <1>5, Zenon DEF SqsInv

\* How a step of a task changes the number of tasks that ingest a key.
LEMMA IngestsOfTask ==
    ASSUME TypeOK, NEW w \in Workers, TaskEffect(w), NEW j \in Jobs, NEW k \in Keys
    PROVE  /\ w \notin Ingesting(j, k)' /\ w \in Ingesting(j, k) =>
                Ingests(j, k) >= 1 /\ Ingests(j, k)' = Ingests(j, k) - 1
           /\ (w \in Ingesting(j, k)' <=> w \in Ingesting(j, k)) => Ingests(j, k)' = Ingests(j, k)
           /\ w \in Ingesting(j, k)' /\ w \notin Ingesting(j, k) =>
                Ingests(j, k)' = Ingests(j, k) + 1
<1>1. Ingesting(j, k) \in SUBSET Workers /\ Ingesting(j, k)' \in SUBSET Workers
  BY Zenon DEF Ingesting
<1>2. \A v \in Workers : v # w => (v \in Ingesting(j, k)' <=> v \in Ingesting(j, k))
  BY TaskIsLocal DEF Ingesting
<1>3. CASE w \notin Ingesting(j, k)' /\ w \in Ingesting(j, k)
  <2>1. Ingesting(j, k)' = Ingesting(j, k) \ {w}
    BY <1>1, <1>2, <1>3
  <2> QED BY <1>1, <1>3, <2>1, WorkerSets, Zenon DEF Ingests
<1>4. CASE w \in Ingesting(j, k)' <=> w \in Ingesting(j, k)
  <2>1. Ingesting(j, k)' = Ingesting(j, k)
    BY <1>1, <1>2, <1>4
  <2> QED BY <1>4, <2>1, Zenon DEF Ingests
<1>5. CASE w \in Ingesting(j, k)' /\ w \notin Ingesting(j, k)
  <2>1. Ingesting(j, k)' = Ingesting(j, k) \cup {w}
    BY <1>1, <1>2, <1>5, Zenon
  <2> QED BY <1>1, <1>5, <2>1, WorkerSets, Zenon DEF Ingests
<1> QED BY <1>3, <1>4, <1>5, Zenon

\* A step of a task removes no row, and adds rows of its own job only.
LEMMA RecordedOfTask ==
    ASSUME TypeOK, NEW w \in Workers, TaskEffect(w),
           NEW j \in Jobs, NEW k \in Keys, NEW n \in Copies
    PROVE  /\ Recorded(j, k, n) => Recorded(j, k, n)'
           /\ j # JobOf[w] \/ rstatus' = rstatus => (Recorded(j, k, n)' <=> Recorded(j, k, n))
<1>1. <<j, k, n>> \in Rows /\ <<j, k, n>>[1] = j
  BY Zenon DEF Rows
<1>2. CASE rstatus' = rstatus
  BY <1>2, Zenon DEF Recorded
<1>3. ASSUME NEW K, rstatus' = [r \in Rows |-> IF r \in FreshRows(JobOf[w], K)
                                              THEN "buffered" ELSE rstatus[r]]
      PROVE  /\ Recorded(j, k, n) => Recorded(j, k, n)'
             /\ j # JobOf[w] => (Recorded(j, k, n)' <=> Recorded(j, k, n))
  <2>1. <<j, k, n>> \in FreshRows(JobOf[w], K) => j = JobOf[w]
    BY <1>1, Zenon DEF FreshRows
  <2> QED BY <1>1, <1>3, <2>1, Zenon DEF Recorded
<1> QED BY <1>2, <1>3, Zenon DEF TaskEffect

\* Its keys, once the transaction with them commits, have a row; a new row
\* follows rows of the same key.
LEMMA RecordedOfIngest ==
    ASSUME TypeOK, NEW j \in Jobs, NEW K \in SUBSET Keys, NEW k \in Keys,
           rstatus' = [r \in Rows |-> IF r \in FreshRows(j, K) THEN "buffered" ELSE rstatus[r]]
    PROVE  /\ \A n \in Copies : Recorded(j, k, n)' =>
                 Recorded(j, k, n) \/ \A m \in 1..(n - 1) : Recorded(j, k, m)
           /\ k \notin K => \A n \in Copies : Recorded(j, k, n)' <=> Recorded(j, k, n)
           /\ k \in K => \E n \in Copies : Recorded(j, k, n)'
<1>1. \A n \in Copies : <<j, k, n>> \in Rows /\ <<j, k, n>>[1] = j /\ <<j, k, n>>[2] = k
                        /\ <<j, k, n>>[3] = n
  BY Zenon DEF Rows
<1>2. ASSUME NEW n \in Copies, Recorded(j, k, n)'
      PROVE  Recorded(j, k, n) \/ \A m \in 1..(n - 1) : Recorded(j, k, m)
  BY <1>1, <1>2, Zenon DEF Recorded, FreshRows
<1>3. ASSUME k \notin K, NEW n \in Copies PROVE Recorded(j, k, n)' <=> Recorded(j, k, n)
  BY <1>1, <1>3, Zenon DEF Recorded, FreshRows
<1>4. ASSUME k \in K PROVE \E n \in Copies : Recorded(j, k, n)'
  <2>1. 1 \in Copies /\ 1..(1 - 1) = {}
    BY BoundsAssumption DEF Copies
  <2>2. Recorded(j, k, 1)'
    BY <1>1, <1>4, <2>1, Zenon DEF Recorded, FreshRows
  <2> QED BY <2>1, <2>2, Zenon
<1> QED BY <1>2, <1>3, <1>4, Zenon

\* What the tasks of other jobs see.
LEMMA SqsKeyOfOther ==
    ASSUME TypeOK, SqsInv, NEW w \in Workers, TaskEffect(w),
           NEW j \in Jobs, Kind[j] = "sqs", j # JobOf[w], NEW k \in Keys
    PROVE  SqsKey(j, k)'
<1>1. SqsKey(j, k) /\ JobOf[w] \in Jobs
  BY WorkersAssumption, Zenon DEF SqsInv
<1>2. Ingests(j, k)' = Ingests(j, k)
  BY IngestsOfTask, Zenon DEF Ingesting
<1>3. AllFailed(j, k)' => AllFailed(j, k)
  BY TaskIsLocal, Zenon DEF AllFailed
<1>4. queue'[j] = queue[j]
  BY DEF TaskEffect, TypeOK
<1>5. \A n \in Copies : Recorded(j, k, n)' <=> Recorded(j, k, n)
  BY RecordedOfTask, Zenon
<1>6. objects' = objects /\ (faults' = faults \/ faults' = faults + 1)
  BY Zenon DEF TaskEffect
<1>7. Ingests(j, k)' <= Ingests(j, k)
  BY <1>2, IngestsIsNat
<1> QED BY <1>1, <1>3, <1>4, <1>5, <1>6, <1>7, SqsKeyKept, Zenon

\* A step of a task that records nothing, takes no message and drops the one
\* with key k only if it is done with it.
LEMMA SqsKeyOfQuiet ==
    ASSUME TypeOK, SqsInv, NEW w \in Workers, TaskEffect(w), Kind[JobOf[w]] = "sqs", NEW k \in Keys,
           \A n \in Copies : Recorded(JobOf[w], k, n)' <=> Recorded(JobOf[w], k, n),
           k \in wkeys'[w] /\ wpc'[w] = "ingest" => k \in wkeys[w] /\ wpc[w] = "ingest",
           k \in queue'[JobOf[w]] => k \in queue[JobOf[w]],
           \/ k \in wkeys'[w] /\ wpc'[w] # "fail"
           \/ k \in wkeys[w] => wpc[w] \in {"fail", "ingest"}
           \/ k \notin queue'[JobOf[w]]
           \/ faults' = faults + 1,
           k \in queue[JobOf[w]] /\ k \notin queue'[JobOf[w]] => k \in wkeys[w] /\ wpc[w] = "delete"
    PROVE  SqsKey(JobOf[w], k)'
<1> DEFINE j == JobOf[w]
<1>1. j \in Jobs /\ SqsKey(j, k) /\ SqsTask(w)
  BY WorkersAssumption, Zenon DEF SqsInv
<1>2. Ingests(j, k)' <= Ingests(j, k)
  <2>1. w \in Ingesting(j, k)' => w \in Ingesting(j, k)
    BY Zenon DEF Ingesting
  <2>2. \/ Ingests(j, k)' = Ingests(j, k)
        \/ Ingests(j, k) >= 1 /\ Ingests(j, k)' = Ingests(j, k) - 1
    BY <1>1, <2>1, IngestsOfTask, Zenon
  <2> QED BY <2>2, IngestsIsNat
<1>3. objects' = objects /\ (faults' = faults \/ faults' = faults + 1)
  BY Zenon DEF TaskEffect
<1>4. ASSUME k \in queue'[j], AllFailed(j, k)'
      PROVE  (k \in queue[j] /\ AllFailed(j, k)) \/ faults' = faults + 1 \/ Ingests(j, k) >= 1
  <2>1. CASE k \in wkeys[w] /\ wpc[w] = "ingest"
    <3>1. w \in Ingesting(j, k) /\ Ingesting(j, k) \in SUBSET Workers
      BY <2>1, Zenon DEF Ingesting
    <3> QED BY <3>1, WorkerSets, Zenon DEF Ingests
  <2>2. CASE k \in wkeys[w] => wpc[w] = "fail"
    <3>1. AllFailed(j, k)
      BY <1>4, <2>2, TaskIsLocal, Zenon DEF AllFailed
    <3> QED BY <1>4, <3>1, Zenon
  <2>3. CASE k \in wkeys'[w] /\ wpc'[w] # "fail"
    BY <1>4, <2>3, Zenon DEF AllFailed
  <2> QED BY <1>4, <2>1, <2>2, <2>3, Zenon
<1>5. ASSUME k \in queue[j], k \in Relevant, k \notin queue'[j]
      PROVE  \E n \in Copies : Recorded(j, k, n)
  BY <1>1, <1>5, Zenon DEF SqsTask
<1> HIDE DEF j
<1>6. \A n \in Copies : Recorded(j, k, n)' <=> Recorded(j, k, n)
  BY Zenon DEF j
<1> QED BY <1>1, <1>2, <1>3, <1>4, <1>5, <1>6, SqsKeyKept, Zenon DEF j

\* A task receives messages.
LEMMA SqsKeyOfReceive ==
    ASSUME TypeOK, SqsInv, NEW w \in Workers, ReceiveMessages(w), NEW k \in Keys
    PROVE  SqsKey(JobOf[w], k)'
<1> DEFINE j == JobOf[w]
<1>1. j \in Jobs /\ Kind[j] = "sqs" /\ SqsKey(j, k) /\ SqsTask(w)
  BY WorkersAssumption, Zenon DEF SqsInv, ReceiveMessages
<1>2. PICK K \in SUBSET queue[j] :
         /\ IF K \cap InFlight(j) = {} THEN faults' = faults ELSE faults' = faults + 1
         /\ wkeys' = [wkeys EXCEPT ![w] = K]
         /\ wpc' = [wpc EXCEPT ![w] = AfterReceive(K)]
  BY Zenon DEF ReceiveMessages, Goto, NoFault, Fault
<1>3. TaskEffect(w)
  BY TaskEffects, Zenon DEF TaskStep
<1>4. wpc[w] = "fetch" /\ wkeys[w] = {} /\ UNCHANGED <<rstatus, queue, objects>>
  BY <1>1, Zenon DEF SqsTask, ReceiveMessages, Fetching, db, ext
<1>5. wkeys'[w] = K /\ wpc'[w] = AfterReceive(K) /\ AfterReceive(K) \in {"delete", "ingest"}
  BY <1>2 DEF TypeOK, AfterReceive
<1>6. \A n \in Copies : Recorded(j, k, n)' <=> Recorded(j, k, n)
  BY <1>4, Zenon DEF Recorded
<1>7. CASE k \notin K \/ AfterReceive(K) = "delete"
  BY <1>1, <1>3, <1>4, <1>5, <1>6, <1>7, SqsKeyOfQuiet, Zenon
<1>8. CASE k \in K /\ AfterReceive(K) = "ingest"
  <2>1. w \in Ingesting(j, k)' /\ w \notin Ingesting(j, k)
    BY <1>4, <1>5, <1>8, Zenon DEF Ingesting
  <2>2. Ingests(j, k)' = Ingests(j, k) + 1
    BY <1>1, <1>3, <2>1, IngestsOfTask, Zenon
  <2>3. ~AllFailed(j, k)'
    BY <1>5, <1>8, Zenon DEF AllFailed
  <2>4. ASSUME K \cap InFlight(j) = {} PROVE AllFailed(j, k) /\ Ingests(j, k) = 0
    <3>1. \A v \in Workers : JobOf[v] = j => k \notin wkeys[v]
      BY <1>8, <2>4, Zenon DEF InFlight, WorkersOf
    <3>2. Ingesting(j, k) = {}
      BY <3>1, Zenon DEF Ingesting
    <3> QED BY <3>1, <3>2, FS_EmptySet, Zenon DEF AllFailed, Ingests
  <2>5. \/ faults' = faults /\ AllFailed(j, k) /\ Ingests(j, k) = 0
        \/ faults' = faults + 1
    BY <1>2, <2>4, Zenon
  <2>6. k \in queue[j]
    BY <1>8
  <2> HIDE DEF j
  <2> QED BY <1>1, <1>4, <2>2, <2>3, <2>5, <2>6, SqsKeyReceived, Zenon DEF j
<1> QED BY <1>5, <1>7, <1>8, Zenon

\* The transaction of a task commits.
LEMMA SqsKeyOfCommit ==
    ASSUME TypeOK, SqsInv, NEW w \in Workers, TaskEffect(w), Kind[JobOf[w]] = "sqs", NEW k \in Keys,
           wpc[w] = "ingest", UNCHANGED <<queue, wkeys>>,
           RecordObjects(JobOf[w], wkeys[w] \cap Relevant),
           wpc'[w] = "send" \/ (wpc'[w] = "fail" /\ faults' = faults + 1)
    PROVE  SqsKey(JobOf[w], k)'
<1> DEFINE j == JobOf[w]
           K == wkeys[w] \cap Relevant
<1>1. j \in Jobs /\ SqsKey(j, k) /\ SqsTask(w) /\ K \in SUBSET Keys
  BY WorkersAssumption, Zenon DEF SqsInv, TypeOK
<1>2. rstatus' = [r \in Rows |-> IF r \in FreshRows(j, K) THEN "buffered" ELSE rstatus[r]]
  BY Zenon DEF RecordObjects
<1>3. CASE k \notin wkeys[w]
  <2>1. \A n \in Copies : Recorded(j, k, n)' <=> Recorded(j, k, n)
    BY <1>1, <1>2, <1>3, RecordedOfIngest, Zenon
  <2> QED BY <1>3, <2>1, SqsKeyOfQuiet, Zenon
<1>4. CASE k \in wkeys[w]
  <2>1. w \in Ingesting(j, k) /\ w \notin Ingesting(j, k)'
    BY <1>4, Zenon DEF Ingesting
  <2>2. Ingests(j, k) >= 1 /\ Ingests(j, k)' = Ingests(j, k) - 1
    BY <1>1, <2>1, IngestsOfTask, Zenon
  <2>3. ~AllFailed(j, k)' \/ faults' = faults + 1
    BY <1>4, Zenon DEF AllFailed
  <2>4. objects' = objects /\ (faults' = faults \/ faults' = faults + 1) /\ k <= objects
    <3>1. objects' = objects /\ (faults' = faults \/ faults' = faults + 1)
      BY Zenon DEF TaskEffect
    <3>2. k \in 1..objects /\ objects \in Keys \cup {0}
      BY <1>1, <1>4, Zenon DEF SqsTask, TypeOK
    <3> QED BY <3>1, <3>2 DEF Keys
  <2>5. \A n \in Copies : Recorded(j, k, n) => Recorded(j, k, n)'
    BY <1>1, RecordedOfTask, Zenon
  <2>6. \A n \in Copies : Recorded(j, k, n)' =>
           Recorded(j, k, n) \/ \A m \in 1..(n - 1) : Recorded(j, k, m)
    BY <1>1, <1>2, RecordedOfIngest, Zenon
  <2> HIDE DEF j
  <2> QED BY <1>1, <2>2, <2>3, <2>4, <2>5, <2>6, SqsKeyRecorded, Zenon DEF j
<1> QED BY <1>3, <1>4, Zenon

\* What the steps of an SQS task do to its place in the loop and its messages.
LEMMA SqsMoves ==
    ASSUME TypeOK, NEW w \in Workers, Kind[JobOf[w]] = "sqs"
    PROVE  /\ SendRows(w) =>
                /\ wpc[w] = "send" /\ wpc'[w] = "delete"
                /\ UNCHANGED <<rstatus, queue, wkeys>>
           /\ DeleteMessages(w) \/ DeleteFails(w) =>
                wpc[w] = "delete" /\ wkeys'[w] = {} /\ rstatus' = rstatus
           /\ CancelTask(w) \/ FailTask(w) => wkeys'[w] = {} /\ UNCHANGED <<rstatus, queue>>
           /\ Ingest(w) \/ IngestFails(w) =>
                /\ wpc[w] = "ingest" /\ UNCHANGED <<queue, wkeys>>
                /\ \/ wpc'[w] = "fail" /\ rstatus' = rstatus
                   \/ /\ RecordObjects(JobOf[w], wkeys[w] \cap Relevant)
                      /\ wpc'[w] = "send" \/ (wpc'[w] = "fail" /\ faults' = faults + 1)
<1>1. /\ \A pc : Goto(w, pc) => wpc'[w] = pc
      /\ \A K : wkeys' = [wkeys EXCEPT ![w] = K] => wkeys'[w] = K
  <2>1. DOMAIN wpc = Workers /\ DOMAIN wkeys = Workers
    BY Zenon DEF TypeOK
  <2> QED BY <2>1, Zenon DEF Goto
<1>2. ASSUME SendRows(w)
      PROVE  wpc[w] = "send" /\ wpc'[w] = "delete" /\ UNCHANGED <<rstatus, queue, wkeys>>
  <2>1. wpc[w] = "send" /\ Goto(w, "delete") /\ UNCHANGED <<rstatus, queue, wkeys>>
    BY <1>2, Zenon DEF SendRows, db, ext
  <2> QED BY <1>1, <2>1, Zenon
<1>3. ASSUME DeleteMessages(w) \/ DeleteFails(w)
      PROVE  wpc[w] = "delete" /\ wkeys'[w] = {} /\ rstatus' = rstatus
  <2>1. wpc[w] = "delete" /\ wkeys' = [wkeys EXCEPT ![w] = {}] /\ rstatus' = rstatus
    BY <1>3, Zenon DEF DeleteMessages, DeleteFails, db
  <2> QED BY <1>1, <2>1, Zenon
<1>4. ASSUME CancelTask(w) \/ FailTask(w)
      PROVE  wkeys'[w] = {} /\ UNCHANGED <<rstatus, queue>>
  <2>1. wkeys' = [wkeys EXCEPT ![w] = {}] /\ UNCHANGED <<rstatus, queue>>
    BY <1>4, Zenon DEF CancelTask, FailTask, EndTask, db, ext
  <2> QED BY <1>1, <2>1, Zenon
<1>5. ASSUME Ingest(w) \/ IngestFails(w)
      PROVE  /\ wpc[w] = "ingest" /\ UNCHANGED <<queue, wkeys>>
             /\ \/ wpc'[w] = "fail" /\ rstatus' = rstatus
                \/ /\ RecordObjects(JobOf[w], wkeys[w] \cap Relevant)
                   /\ wpc'[w] = "send" \/ (wpc'[w] = "fail" /\ faults' = faults + 1)
  <2>1. wpc[w] = "ingest" /\ UNCHANGED <<queue, wkeys>>
    BY <1>5, Zenon DEF Ingest, IngestFails, ext
  <2>2. \/ Goto(w, "fail") /\ rstatus' = rstatus
        \/ /\ RecordObjects(JobOf[w], wkeys[w] \cap Relevant)
           /\ Goto(w, "send") \/ (Goto(w, "fail") /\ faults' = faults + 1)
    BY <1>5, Zenon DEF Ingest, IngestFails, Fault
  <2> QED BY <1>1, <2>1, <2>2, Zenon
<1> QED BY <1>2, <1>3, <1>4, <1>5, Zenon

\* What a step of a task does to a key of its own job.
LEMMA SqsKeyOfTask ==
    ASSUME TypeOK, SqsInv, NEW w \in Workers, TaskStep(w) \/ TaskFault(w),
           Kind[JobOf[w]] = "sqs", NEW k \in Keys
    PROVE  SqsKey(JobOf[w], k)'
<1> DEFINE j == JobOf[w]
<1>1. j \in Jobs /\ SqsTask(w) /\ TaskEffect(w)
  BY WorkersAssumption, TaskEffects, Zenon DEF SqsInv
<1> USE DEF db, ext, NoFault, Fault, Goto
<1>2. CASE ReceiveMessages(w)
  BY <1>2, SqsKeyOfReceive, Zenon
<1>3. CASE ScanPage(w)
  BY <1>3, Zenon DEF ScanPage
<1>4. CASE FetchFails(w)
  <2>1. wkeys[w] = {} /\ UNCHANGED <<rstatus, queue, wkeys>>
    BY <1>1, <1>4, Zenon DEF FetchFails, Fetching, SqsTask
  <2>2. \A n \in Copies : Recorded(j, k, n)' <=> Recorded(j, k, n)
    BY <2>1, Zenon DEF Recorded
  <2> QED BY <1>1, <2>1, <2>2, SqsKeyOfQuiet, Zenon
<1>5. CASE CancelTask(w) \/ FailTask(w)
  <2>1. UNCHANGED <<rstatus, queue>> /\ wkeys'[w] = {} /\ (wkeys[w] = {} \/ wpc[w] = "fail")
    <3>1. wkeys[w] = {} \/ wpc[w] = "fail"
      BY <1>1, <1>5, Zenon DEF CancelTask, FailTask, CancellationPoints, SqsTask
    <3> QED BY <1>5, <3>1, SqsMoves, Zenon
  <2>2. \A n \in Copies : Recorded(j, k, n)' <=> Recorded(j, k, n)
    BY <2>1, Zenon DEF Recorded
  <2> QED BY <1>1, <2>1, <2>2, SqsKeyOfQuiet, Zenon
<1>6. CASE SendRows(w)
  <2>1. UNCHANGED <<rstatus, queue, wkeys>> /\ wpc[w] = "send" /\ wpc'[w] = "delete"
    BY <1>6, SqsMoves, Zenon
  <2>2. \A n \in Copies : Recorded(j, k, n)' <=> Recorded(j, k, n)
    BY <2>1, Zenon DEF Recorded
  <2> QED BY <1>1, <2>1, <2>2, SqsKeyOfQuiet, Zenon
<1>7. CASE DeleteMessages(w)
  <2>1. /\ rstatus' = rstatus /\ wkeys'[w] = {} /\ wpc[w] = "delete"
        /\ queue'[j] = queue[j] \ wkeys[w]
    <3>1. DOMAIN queue = Jobs
      BY Zenon DEF TypeOK
    <3>2. queue' = [queue EXCEPT ![j] = @ \ wkeys[w]]
      BY <1>7, Zenon DEF DeleteMessages
    <3>3. queue'[j] = queue[j] \ wkeys[w]
      BY <1>1, <3>1, <3>2, Zenon
    <3> QED BY <1>7, <3>3, SqsMoves, Zenon
  <2>2. \A n \in Copies : Recorded(j, k, n)' <=> Recorded(j, k, n)
    BY <2>1, Zenon DEF Recorded
  <2> QED BY <1>1, <2>1, <2>2, SqsKeyOfQuiet, Zenon
<1>8. CASE DeleteFails(w)
  <2>1. /\ rstatus' = rstatus /\ wkeys'[w] = {} /\ wpc[w] = "delete" /\ faults' = faults + 1
    BY <1>8, SqsMoves, Zenon DEF DeleteFails
  <2>2. PICK D \in SUBSET wkeys[w] : queue' = [queue EXCEPT ![j] = @ \ D]
    BY <1>8, Zenon DEF DeleteFails
  <2>3. queue'[j] = queue[j] \ D
    BY <1>1, <2>2, Zenon DEF TypeOK
  <2>4. \A n \in Copies : Recorded(j, k, n)' <=> Recorded(j, k, n)
    BY <2>1, Zenon DEF Recorded
  <2> QED BY <1>1, <2>1, <2>3, <2>4, SqsKeyOfQuiet, Zenon
<1>9. CASE Ingest(w) \/ IngestFails(w)
  <2>1. wpc[w] = "ingest" /\ UNCHANGED <<queue, wkeys>>
    BY <1>9, SqsMoves, Zenon
  <2>2. CASE wpc'[w] = "fail" /\ rstatus' = rstatus
    <3>1. \A n \in Copies : Recorded(j, k, n)' <=> Recorded(j, k, n)
      BY <2>2, Zenon DEF Recorded
    <3> QED BY <1>1, <2>1, <2>2, <3>1, SqsKeyOfQuiet, Zenon
  <2>3. CASE /\ RecordObjects(j, wkeys[w] \cap Relevant)
             /\ wpc'[w] = "send" \/ (wpc'[w] = "fail" /\ faults' = faults + 1)
    BY <1>1, <2>1, <2>3, SqsKeyOfCommit, Zenon
  <2> QED BY <1>9, <2>2, <2>3, SqsMoves, Zenon
<1> QED BY Zenon, <1>2, <1>3, <1>4, <1>5, <1>6, <1>7, <1>8, <1>9 DEF TaskStep, TaskFault

\* The keys of a task that sends or deletes have been recorded.
LEMMA SqsTaskOfTask ==
    ASSUME TypeOK, SqsInv, NEW w \in Workers, TaskStep(w) \/ TaskFault(w),
           NEW v \in Workers, Kind[JobOf[v]] = "sqs"
    PROVE  SqsTask(v)'
<1>1. SqsTask(v) /\ TaskEffect(w) /\ JobOf[v] \in Jobs /\ JobOf[w] \in Jobs /\ wkeys[v] \subseteq Keys
  BY WorkersAssumption, TaskEffects, Zenon DEF SqsInv, TypeOK
<1>2. \A k \in Keys, n \in Copies : Recorded(JobOf[v], k, n) => Recorded(JobOf[v], k, n)'
  BY <1>1, RecordedOfTask, Zenon
<1>3. objects' = objects
  BY <1>1, Zenon DEF TaskEffect
<1>4. CASE v # w \/ (UNCHANGED wkeys /\ wpc'[v] = wpc[v])
  <2>1. wpc'[v] = wpc[v] /\ wkeys'[v] = wkeys[v]
    BY <1>1, <1>4, TaskIsLocal, Zenon
  <2> QED BY <1>1, <1>2, <1>3, <2>1, Zenon DEF SqsTask
<1> USE DEF Goto
<1>5. CASE v = w
  <2>0. wkeys[w] \subseteq Keys /\ SqsTask(w) /\ Kind[JobOf[w]] = "sqs"
    BY <1>1, <1>5, Zenon
  <2>1. ASSUME wkeys'[w] = {} PROVE SqsTask(w)'
    BY <2>1, Zenon DEF SqsTask
  <2>2. ASSUME wkeys'[w] = wkeys[w], wpc'[w] = "fail" PROVE SqsTask(w)'
    BY <1>3, <2>0, <2>2, Zenon DEF SqsTask
  <2>3. CASE ReceiveMessages(w)
    <3>1. PICK K \in SUBSET queue[JobOf[w]] : /\ wkeys' = [wkeys EXCEPT ![w] = K]
                                              /\ wpc' = [wpc EXCEPT ![w] = AfterReceive(K)]
      BY <2>3, Zenon DEF ReceiveMessages
    <3>2. wkeys'[w] = K /\ wpc'[w] = AfterReceive(K) /\ K \subseteq 1..objects
      BY <1>1, <2>0, <3>1, Zenon DEF TypeOK, SqsInv
    <3>3. /\ AfterReceive(K) \in {"delete", "ingest"}
          /\ AfterReceive(K) = "delete" => K \cap Relevant = {}
      BY Zenon DEF AfterReceive
    <3> QED BY <1>3, <1>5, <3>2, <3>3, Zenon DEF SqsTask
  <2>4. CASE ScanPage(w)
    BY <2>0, <2>4, Zenon DEF ScanPage
  <2>5. CASE FetchFails(w)
    BY <1>5, <2>2, <2>5, Zenon DEF FetchFails, TypeOK
  <2>6. CASE CancelTask(w) \/ FailTask(w)
    BY <1>5, <2>0, <2>1, <2>6, SqsMoves, Zenon
  <2>7. CASE SendRows(w)
    <3>1. wkeys' = wkeys /\ wpc[w] = "send" /\ wpc'[w] = "delete"
      BY <2>0, <2>7, SqsMoves, Zenon
    <3> QED BY <1>2, <1>3, <1>5, <2>0, <3>1, Zenon DEF SqsTask
  <2>8. CASE DeleteMessages(w) \/ DeleteFails(w)
    BY <1>5, <2>0, <2>1, <2>8, SqsMoves, Zenon
  <2>9. CASE Ingest(w) \/ IngestFails(w)
    <3>1. wkeys' = wkeys /\ wpc'[w] \in {"send", "fail"}
      BY <2>0, <2>9, SqsMoves, Zenon
    <3>2. wpc'[w] = "send" => RecordObjects(JobOf[w], wkeys[w] \cap Relevant)
      <4>1. wpc'[w] = "send" => wpc'[w] # "fail"
        BY Zenon
      <4> QED BY <2>0, <2>9, <4>1, SqsMoves, Zenon
    <3>3. ASSUME wpc'[w] = "send", NEW k \in wkeys[w] \cap Relevant
          PROVE  \E n \in Copies : Recorded(JobOf[w], k, n)'
      <4> DEFINE K == wkeys[w] \cap Relevant
      <4>1. rstatus' = [r \in Rows |-> IF r \in FreshRows(JobOf[w], K) THEN "buffered" ELSE rstatus[r]]
        BY <3>2, <3>3, Zenon DEF RecordObjects
      <4>2. K \in SUBSET Keys /\ k \in K /\ k \in Keys
        BY <2>0, Zenon
      <4> HIDE DEF K
      <4> QED BY <1>1, <4>1, <4>2, RecordedOfIngest, Zenon
    <3> QED BY <1>3, <1>5, <2>0, <3>1, <3>3, Zenon DEF SqsTask
  <2> QED BY Zenon, <1>5, <2>3, <2>4, <2>5, <2>6, <2>7, <2>8, <2>9 DEF TaskStep, TaskFault
<1> QED BY <1>4, <1>5, Zenon

\* A step of a task keeps the invariant.
LEMMA SqsOfTask ==
    ASSUME TypeOK, SqsInv, NEW w \in Workers, TaskStep(w) \/ TaskFault(w)
    PROVE  SqsInv'
<1>1. TaskEffect(w) /\ JobOf[w] \in Jobs
  BY WorkersAssumption, TaskEffects, Zenon
<1>2. ASSUME NEW j \in Jobs, Kind[j] = "sqs", NEW k \in Keys PROVE SqsKey(j, k)'
  <2>1. CASE j = JobOf[w]
    BY <1>2, <2>1, SqsKeyOfTask, Zenon
  <2>2. CASE j # JobOf[w]
    BY <1>1, <1>2, <2>2, SqsKeyOfOther, Zenon
  <2> QED BY <2>1, <2>2, Zenon
<1>3. ASSUME NEW v \in Workers, Kind[JobOf[v]] = "sqs" PROVE SqsTask(v)'
  BY <1>3, SqsTaskOfTask, Zenon
<1>4. ASSUME NEW j \in Jobs, Kind[j] = "sqs" PROVE queue'[j] \subseteq 1..objects'
  <2>1. queue[j] \subseteq 1..objects /\ objects' = objects
    BY <1>1, <1>4, Zenon DEF SqsInv, TaskEffect
  <2>2. queue'[j] \subseteq queue[j]
    BY <1>1 DEF TaskEffect, TypeOK
  <2> QED BY <2>1, <2>2, Zenon
<1> QED BY <1>2, <1>3, <1>4, Zenon DEF SqsInv

\* Every step keeps the bound on the rows of an SQS listener.
LEMMA SqsStep == TypeOK /\ LifeInv /\ CountInv /\ SqsInv /\ [Next]_vars => SqsInv'
<1> SUFFICES ASSUME TypeOK, LifeInv, CountInv, SqsInv, [Next]_vars PROVE SqsInv'
  OBVIOUS
<1> DEFINE Still == \A w \in Workers : wpc'[w] = wpc[w] \/ (wpc[w] = "none" /\ wpc'[w] = "fetch")
           SameRows == \A r \in Rows : rstatus'[r] = "absent" <=> rstatus[r] = "absent"
           OneFault == faults' = faults \/ faults' = faults + 1
<1>1. ASSUME UNCHANGED <<wkeys, queue, objects>>, OneFault, SameRows, Still PROVE SqsInv'
  BY <1>1, SqsFrame, Zenon
<1> USE DEF db, ext, tasks, mgr
<1>2. CASE ManagerStep
  <2>1. Resting /\ Undisturbed
    BY <1>2, ManagerMovesNothing, ManagerDisturbsNone, Zenon
  <2>2. Still
    BY <2>1, Zenon DEF Undisturbed
  <2> QED BY <1>1, <2>1, <2>2, Zenon DEF Resting
<1>3. CASE Crash
  BY <1>3, SqsOfCrash, Zenon
<1>4. CASE Boot
  BY <1>1, <1>4, Zenon DEF Boot, NoFault
<1>5. ASSUME NEW i \in Jobs, RefillBuffer(i) PROVE SqsInv'
  <2>1. UNCHANGED <<wkeys, queue, objects, rstatus, wpc>> /\ OneFault
    BY <1>5, Zenon DEF RefillBuffer, NoFault, Fault
  <2> QED BY <1>1, <2>1, Zenon
<1>6. ASSUME NEW i \in Jobs, ListenerStep(i) PROVE SqsInv'
  BY <1>1, <1>6, ListenerEffects, Zenon DEF ListenerEffect
<1>7. ASSUME NEW w \in Workers, TaskStep(w) \/ TaskFault(w) PROVE SqsInv'
  BY <1>7, SqsOfTask, Zenon
<1>8. CASE OutsideStep
  <2>1. UNCHANGED <<wpc, wkeys>>
    BY <1>8, OutsideEffects, Zenon
  <2>2. CASE PutObject
    BY <2>2, SqsOfPut
  <2>3. CASE UNCHANGED vars
    BY <1>1, <2>3, Zenon DEF vars
  <2>4. ASSUME NEW c \in CompressionIds, CompressionEnds(c) PROVE SqsInv'
    BY <1>1, <2>4, Zenon DEF CompressionEnds, NoFault
  <2>5. ASSUME NEW R \in subs, NEW c \in CompressionIds,
               SubmitForCompression(R, c) \/ SubmitFails(R, c)
        PROVE  SqsInv'
    <3>1. \/ rstatus' = rstatus
          \/ /\ \A r \in R : rstatus[r] = "buffered"
             /\ rstatus' = [r \in Rows |-> IF r \in R THEN "submitted" ELSE rstatus[r]]
      BY <2>5, Zenon DEF SubmitForCompression, SubmitFails, InsertCompressionJob
    <3>2. SameRows
      BY <3>1, Zenon
    <3>3. UNCHANGED <<queue, objects>> /\ OneFault
      BY <2>5, Zenon DEF SubmitForCompression, SubmitFails, NoFault, Fault
    <3> QED BY <1>1, <2>1, <3>2, <3>3, Zenon
  <2>6. ASSUME NEW p \in waiters, WaitForCompression(p[1], p[2]) \/ WaitFails(p[1], p[2])
        PROVE  SqsInv'
    <3>1. p[1] \in CompressionIds /\ (rstatus' = rstatus \/ RecordCompressionResult(p[1], p[2]))
      BY <2>6 DEF WaitForCompression, WaitFails, TypeOK
    <3>2. SameRows
      BY <3>1, ResultKeepsBuffered, Zenon
    <3>3. UNCHANGED <<queue, objects>> /\ OneFault
      BY <2>6, Zenon DEF WaitForCompression, WaitFails, NoFault, Fault
    <3> QED BY <1>1, <2>1, <3>2, <3>3, Zenon
  <2> QED BY Zenon, <1>8, <2>2, <2>3, <2>4, <2>5, <2>6 DEF OutsideStep
<1> QED BY Zenon, StepKinds, <1>2, <1>3, <1>4, <1>5, <1>6, <1>7, <1>8 DEF ManagerStep

\* The run's property follows: the copies of a key are numbered from 1, so there
\* are at most as many as the last number.
LEMMA SqsImpliesIngestsOnce == TypeOK /\ SqsInv => SqsIngestsOnce
<1> SUFFICES ASSUME TypeOK, SqsInv, NEW j \in Jobs, Kind[j] = "sqs"
             PROVE  /\ \A k \in ((1..objects) \cap Relevant) \ queue[j] :
                          \E r \in RowsOf(j) : r[2] = k
                    /\ \A k \in Keys : Cardinality({r \in RowsOf(j) : r[2] = k}) <= 1 + faults
  BY Zenon DEF SqsIngestsOnce, DeletedIsIngested, DuplicatesNeedFaults
<1>1. \A k \in Keys : SqsKey(j, k)
  BY DEF SqsInv
<1>2. ASSUME NEW k \in ((1..objects) \cap Relevant) \ queue[j] PROVE \E r \in RowsOf(j) : r[2] = k
  <2>1. k \in Keys /\ k <= objects
    BY BoundsAssumption DEF TypeOK, Keys
  <2>2. PICK n \in Copies : Recorded(j, k, n)
    BY <1>1, <2>1, Zenon DEF SqsKey
  <2>3. <<j, k, n>> \in Rows /\ <<j, k, n>>[1] = j /\ <<j, k, n>>[2] = k
    BY <2>1, Zenon DEF Rows
  <2>4. <<j, k, n>> \in RowsOf(j)
    BY <2>2, <2>3, Zenon DEF RowsOf, Recorded
  <2> QED BY <2>3, <2>4, Zenon
<1>3. ASSUME NEW k \in Keys PROVE Cardinality({r \in RowsOf(j) : r[2] = k}) <= 1 + faults
  <2> DEFINE S == {r \in RowsOf(j) : r[2] = k}
             f == [r \in S |-> r[3]]
  <2>1. faults \in Nat
    BY Zenon DEF TypeOK
  <2>2. \A r \in S : r \in Rows /\ r = <<j, k, r[3]>> /\ r[3] \in Copies /\ Recorded(j, k, r[3])
    BY RowParts, Zenon DEF RowsOf, Recorded
  <2>3. \A n \in Copies : Recorded(j, k, n) => n \in 1..(1 + faults)
    <3> SUFFICES ASSUME NEW n \in Copies, Recorded(j, k, n) PROVE n \in 1..(1 + faults)
      OBVIOUS
    <3>1. n + Ingests(j, k) <= 1 + faults
      BY <1>1, Zenon DEF SqsKey, Ingests
    <3>2. n \in Nat /\ n >= 1 /\ Ingests(j, k) \in Nat
      BY IngestsIsNat DEF Copies
    <3> QED BY <2>1, <3>1, <3>2
  <2>4. f \in Injection(S, 1..(1 + faults))
    <3>1. f \in [S -> 1..(1 + faults)]
      BY <2>2, <2>3, Zenon
    <3>2. \A r, s \in S : f[r] = f[s] => r = s
      BY <2>2, Zenon
    <3> QED BY <3>1, <3>2, Zenon DEF Injection, IsInjective
  <2>5. IsFiniteSet(1..(1 + faults)) /\ Cardinality(1..(1 + faults)) = 1 + faults
    <3>1. 1 \in Int /\ 1 + faults \in Int /\ ~(1 > 1 + faults) /\ (1 + faults) - 1 + 1 = 1 + faults
      BY <2>1
    <3> DEFINE b == 1 + faults
    <3>2. b \in Int /\ ~(1 > b) /\ b - 1 + 1 = b
      BY <3>1, Zenon
    <3> HIDE DEF b
    <3>3. IsFiniteSet(1..b) /\ Cardinality(1..b) = b
      BY <3>2, FS_Interval
    <3> QED BY <3>3, Zenon DEF b
  <2> DEFINE T == 1..(1 + faults)
  <2>6. f \in Injection(S, T) /\ IsFiniteSet(T) /\ Cardinality(T) = 1 + faults
    BY <2>4, <2>5, Zenon
  <2> HIDE DEF f, S, T
  <2>7. Cardinality(S) <= Cardinality(T)
    BY <2>6, FS_Injection, Zenon
  <2> QED BY <2>6, <2>7, Zenon DEF S
<1> QED BY <1>2, <1>3, Zenon
=============================================================================
