----------------------------- MODULE LogIngestorCounts -----------------------------
(***************************************************************************)
(* Types, the counts of compressed rows and the rows of scanners: every step*)
(* of LogIngestor keeps TypeOK, CountInv, CompressedCount and              *)
(* ScannedExactlyOnce.                                                     *)
(***************************************************************************)
EXTENDS LogIngestorSteps, FiniteSetTheorems, WellFoundedInduction

-----------------------------------------------------------------------------
\* A nonempty set of keys has a last one, and Last names it.
LEMMA LastOfKeys ==
    ASSUME NEW K \in SUBSET Keys, K # {}
    PROVE  Last(K) \in K /\ \A l \in K : l <= Last(K)
<1> DEFINE T == {MaxKey - k : k \in K}
           Less == {ss \in Nat \X Nat : ss[1] < ss[2]}
<1>1. K \subseteq Nat /\ \A k \in K : k <= MaxKey /\ MaxKey - k \in Nat
  BY BoundsAssumption DEF Keys
<1>2. T \subseteq Nat /\ T # {}
  BY <1>1, Zenon
<1>3. Less = OpToRel(<, Nat)
  BY Zenon DEF OpToRel
<1>4. PICK x \in T : \A y \in T : ~(<<y, x>> \in Less)
  <2> HIDE DEF T, Less
  <2>1. IsWellFoundedOn(Less, Nat)
    BY <1>3, NatLessThanWellFounded
  <2> QED BY <1>2, <2>1, WFMin, Zenon
<1>5. ASSUME NEW y \in T PROVE x <= y
  <2> HIDE DEF T
  <2>1. x \in Nat /\ y \in Nat /\ <<y, x>> \notin Less
    BY <1>2, <1>4, Zenon
  <2> QED BY <2>1
<1>6. PICK k \in K : x = MaxKey - k
  BY <1>4
<1>7. ASSUME NEW l \in K PROVE l <= k
  <2>1. x <= MaxKey - l
    BY <1>5, Zenon
  <2> QED BY <2>1, <1>6, <1>1, BoundsAssumption
<1> QED BY <1>7 DEF Last

\* The rows are finitely many, and so is every set of them.
LEMMA RowsFinite == \A R \in SUBSET Rows : IsFiniteSet(R) /\ Cardinality(R) \in Nat
<1>1. IsFiniteSet(Keys) /\ IsFiniteSet(Copies)
  BY BoundsAssumption, FS_Interval DEF Keys, Copies
<1>2. IsFiniteSet(Keys \X Copies)
  BY <1>1, FS_Product, Zenon
<1>3. IsFiniteSet(Jobs \X (Keys \X Copies))
  BY <1>2, FinitenessAssumption, FS_Product, Zenon
<1> DEFINE f == [p \in Jobs \X (Keys \X Copies) |-> <<p[1], p[2][1], p[2][2]>>]
<1>4. f \in Surjection(Jobs \X (Keys \X Copies), Rows)
  <2>1. f \in [Jobs \X (Keys \X Copies) -> Rows]
    BY DEF Rows
  <2>2. ASSUME NEW r \in Rows PROVE \E p \in Jobs \X (Keys \X Copies) : f[p] = r
    <3>1. <<r[1], <<r[2], r[3]>>>> \in Jobs \X (Keys \X Copies)
      BY DEF Rows
    <3>2. f[<<r[1], <<r[2], r[3]>>>>] = r
      BY <3>1 DEF Rows
    <3> QED BY <3>1, <3>2, Zenon
  <2> QED BY <2>1, <2>2, Zenon DEF Surjection
<1>5. IsFiniteSet(Rows)
  <2> HIDE DEF f
  <2> QED BY <1>3, <1>4, FS_Surjection, Zenon
<1> QED BY <1>5, FS_Subset, FS_CardinalityType, Zenon

-----------------------------------------------------------------------------
\* What ingest writes, if its transaction commits.
LEMMA RecordedTypes ==
    ASSUME TypeOK, ScanInv, NEW w \in Workers, wpc[w] = "ingest",
           RecordObjects(JobOf[w], wkeys[w] \cap Relevant)
    PROVE  rstatus' \in [Rows -> RowStatuses] /\ last_key' \in [Jobs -> Keys \cup {0}]
<1> DEFINE K == wkeys[w] \cap Relevant
<1>1. /\ JobOf[w] \in Jobs /\ K \in SUBSET Keys
      /\ rstatus \in [Rows -> RowStatuses] /\ last_key \in [Jobs -> Keys \cup {0}]
  BY WorkersAssumption, Zenon DEF TypeOK
<1>2. Kind[JobOf[w]] = "scanner" => K # {}
  BY DEF ScanInv, ScanTask
<1>3. Kind[JobOf[w]] = "scanner" => Last(K) \in Keys
  BY <1>1, <1>2, LastOfKeys, Zenon
<1>4. rstatus' = [r \in Rows |-> IF r \in FreshRows(JobOf[w], K) THEN "buffered" ELSE rstatus[r]]
  BY Zenon DEF RecordObjects
<1>5. rstatus' \in [Rows -> RowStatuses]
  BY <1>1, <1>4, Zenon DEF RowStatuses
<1>6. \/ last_key' = last_key
      \/ Kind[JobOf[w]] = "scanner" /\ last_key' = [last_key EXCEPT ![JobOf[w]] = Last(K)]
  BY Zenon DEF RecordObjects
<1>7. last_key' \in [Jobs -> Keys \cup {0}]
  BY <1>1, <1>3, <1>6, Zenon
<1> QED BY <1>5, <1>7, Zenon

\* What the end of a compression job writes.
LEMMA ResultTypes ==
    ASSUME TypeOK, NEW p \in waiters, RecordCompressionResult(p[1], p[2])
    PROVE  rstatus' \in [Rows -> RowStatuses] /\ num_compressed' \in [Jobs -> Nat]
<1>1. p[2] \in Nat
  BY Zenon DEF TypeOK
<1>2. rstatus' \in [Rows -> RowStatuses]
  BY DEF TypeOK, RecordCompressionResult, RowStatuses
<1>3. \/ num_compressed' = num_compressed
      \/ \E i : num_compressed' = [num_compressed EXCEPT ![i] = @ + p[2]]
  BY Zenon DEF RecordCompressionResult
<1>4. num_compressed' \in [Jobs -> Nat]
  BY <1>1, <1>3 DEF TypeOK
<1> QED BY <1>2, <1>4, Zenon

\* What the submission of a compression job writes.
InsertedTypes ==
    /\ cstatus \in [CompressionIds -> {"absent", "pending", "succeeded", "failed"}]
    /\ rstatus \in [Rows -> RowStatuses]
    /\ rcjob \in [Rows -> CompressionIds \cup {NoCompression}]

\* What a shutdown request does to the table of instances, the tokens and the requests
\* keeps their types.
LEMMA ShutdownTypes ==
    ASSUME NEW q \in Requests, NEW j \in Jobs, ShutdownRequest(q, j), table \subseteq Jobs,
           cancel \in [Jobs -> BOOLEAN],
           rpc \in [Requests -> {"free", "join", "listener", "status", "end", "lookup", "fail"}],
           rjob \in [Requests -> Jobs \cup {NoJob}]
    PROVE  /\ table' \subseteq Jobs /\ cancel' \in [Jobs -> BOOLEAN]
           /\ rpc' \in [Requests -> {"free", "join", "listener", "status", "end", "lookup", "fail"}]
           /\ rjob' \in [Requests -> Jobs \cup {NoJob}]
<1>1. /\ table' \subseteq Jobs /\ cancel' \in [Jobs -> BOOLEAN]
      /\ rjob' \in [Requests -> Jobs \cup {NoJob}]
  BY Zenon DEF ShutdownRequest
<1>2. Advance(q, "join") \/ Advance(q, "lookup")
  BY Zenon DEF ShutdownRequest
<1> QED BY <1>1, <1>2, Zenon DEF Advance

\* The submission of a compression job keeps those types.
LEMMA InsertTypes ==
    ASSUME TypeOK, NEW R, NEW c \in CompressionIds, InsertCompressionJob(R, c)
    PROVE  InsertedTypes'
<1>1. InsertedTypes
  BY Zenon DEF TypeOK, InsertedTypes
<1>2. cstatus' \in [CompressionIds -> {"absent", "pending", "succeeded", "failed"}]
  BY <1>1, Zenon DEF InsertCompressionJob, InsertedTypes
<1>3. rstatus' \in [Rows -> RowStatuses]
  BY <1>1, Zenon DEF InsertCompressionJob, InsertedTypes, RowStatuses
<1>4. rcjob' \in [Rows -> CompressionIds \cup {NoCompression}]
  BY <1>1, Zenon DEF InsertCompressionJob, InsertedTypes
<1> QED BY <1>2, <1>3, <1>4, Zenon DEF InsertedTypes

\* Every step keeps the types; recording a page needs that the page has a last key.
LEMMA TypeStep == TypeOK /\ ScanInv /\ [Next]_vars => TypeOK'
<1> SUFFICES ASSUME TypeOK, ScanInv, [Next]_vars PROVE TypeOK'
  OBVIOUS
<1> USE DEF TypeOK, db, ext, reqs, mgr, tasks, listeners, coroutines
<1>1. CASE PutObject
  BY <1>1, BoundsAssumption DEF PutObject, NoFault, Keys
<1>2. ASSUME NEW c \in CompressionIds, CompressionEnds(c) PROVE TypeOK'
  BY <1>2 DEF CompressionEnds, NoFault
<1>3. CASE Crash
  <2>1. /\ up' \in BOOLEAN
        /\ rec' \in [Jobs -> {"none", "requested", "running", "inactive", "create"}]
        /\ reg' \in [Jobs -> {"none", "create", "fail"}]
        /\ table' \subseteq Jobs
        /\ rpc' \in [Requests -> {"free", "join", "listener", "status", "end", "lookup", "fail"}]
        /\ rjob' \in [Requests -> Jobs \cup {NoJob}]
    BY <1>3, Zenon DEF Crash
  <2>2. /\ wpc' \in [Workers -> {"none", "fetch", "ingest", "send", "delete", "fail"}]
        /\ wkeys' \in [Workers -> SUBSET Keys]
        /\ wrows' \in [Workers -> SUBSET Rows]
        /\ cursor' \in [Jobs -> Keys \cup {0}]
        /\ cancel' \in [Jobs -> BOOLEAN]
    BY <1>3, Zenon DEF Crash
  <2>3. /\ lst' \in [Jobs -> {"none", "run", "cancel", "closing"}]
        /\ chan' \in [Jobs -> SUBSET SUBSET Rows]
        /\ buf' \in [Jobs -> SUBSET Rows]
        /\ timer' \in [Jobs -> BOOLEAN]
        /\ subs' \subseteq SUBSET Rows
        /\ waiters' \subseteq CompressionIds \X Nat
    BY <1>3, Zenon DEF Crash
  <2>4. faults' \in Nat
    BY <1>3 DEF Crash, Fault
  <2> QED BY <1>3, <2>1, <2>2, <2>3, <2>4, Zenon DEF Crash
<1>4. CASE Boot
  <2>1. UnfinishedCompressionJobs \subseteq CompressionIds \X Nat
    <3>1. \A c \in CompressionIds : Cardinality(SubmittedWith(c)) \in Nat
      BY RowsFinite, Zenon DEF SubmittedWith
    <3> QED BY <3>1 DEF UnfinishedCompressionJobs
  <2>2. \A j \in Jobs : LoadedAs(jstatus[j]) \in {"none", "requested", "running", "inactive"}
    BY Zenon DEF LoadedAs, JobStatuses
  <2> QED BY <1>4, <2>1, <2>2, Zenon DEF Boot, NoFault
<1>5. ASSUME NEW j \in Jobs, RegisterJob(j) PROVE TypeOK'
  BY <1>5, Zenon DEF RegisterJob, NoFault, JobStatuses
<1>6. ASSUME NEW j \in Jobs, CreateInstance(j) PROVE TypeOK'
  <2>1. UpdateJobStatus(j, "running") => jstatus' \in [Jobs -> JobStatuses]
    BY DEF UpdateJobStatus, JobStatuses
  <2>2. ASSUME NEW k \in Keys \cup {0}, SpawnInstance(j, k)
        PROVE  /\ jstatus' \in [Jobs -> JobStatuses]
               /\ table' \subseteq Jobs
               /\ wpc' \in [Workers -> {"none", "fetch", "ingest", "send", "delete", "fail"}]
               /\ wkeys' \in [Workers -> SUBSET Keys]
               /\ wrows' \in [Workers -> SUBSET Rows]
               /\ cursor' \in [Jobs -> Keys \cup {0}]
               /\ cancel' \in [Jobs -> BOOLEAN]
    BY <2>1, <2>2, Zenon DEF SpawnInstance
  <2>3. /\ reg' \in [Jobs -> {"none", "create", "fail"}]
        /\ jstatus' \in [Jobs -> JobStatuses]
        /\ table' \subseteq Jobs
        /\ wpc' \in [Workers -> {"none", "fetch", "ingest", "send", "delete", "fail"}]
        /\ wkeys' \in [Workers -> SUBSET Keys]
        /\ wrows' \in [Workers -> SUBSET Rows]
        /\ cursor' \in [Jobs -> Keys \cup {0}]
        /\ cancel' \in [Jobs -> BOOLEAN]
    <3>1. reg' \in [Jobs -> {"none", "create", "fail"}]
      BY <1>6, Zenon DEF CreateInstance
    <3>2. CASE SpawnInstance(j, 0)
      BY <3>1, <3>2, <2>2, Zenon
    <3>3. CASE (UpdateJobStatus(j, "running") \/ UNCHANGED jstatus) /\ UNCHANGED <<table, tasks>>
      <4>1. jstatus' \in [Jobs -> JobStatuses]
        BY <3>3, <2>1, Zenon
      <4> QED BY <3>1, <3>3, <4>1, Zenon
    <3> QED BY <1>6, <3>2, <3>3, Zenon DEF CreateInstance
  <2>4. faults' \in Nat
    BY <1>6 DEF CreateInstance, NoFault, Fault
  <2> QED BY <1>6, <2>3, <2>4, Zenon DEF CreateInstance
<1>7. ASSUME NEW j \in Jobs, RegisterFails(j) PROVE TypeOK'
  BY <1>7 DEF RegisterFails, DropContext, UpdateJobStatus, NoFault, Fault, JobStatuses
<1>8. ASSUME NEW j \in Jobs, RefillBuffer(j) PROVE TypeOK'
  <2>1. RowsWith(j, "buffered") \in SUBSET Rows
    BY Zenon DEF RowsWith, RowsOf
  <2>2. chan' \in [Jobs -> SUBSET SUBSET Rows] /\ faults' \in Nat
    BY <1>8, <2>1 DEF RefillBuffer, NoFault, Fault
  <2>3. lst' \in [Jobs -> {"none", "run", "cancel", "closing"}]
    <3>1. lst' = lst \/ DropContext(j)
      BY <1>8, Zenon DEF RefillBuffer
    <3> QED BY <3>1 DEF DropContext
  <2>4. rec' \in [Jobs -> {"none", "requested", "running", "inactive", "create"}]
    BY <1>8, Zenon DEF RefillBuffer
  <2> QED BY <1>8, <2>2, <2>3, <2>4 DEF RefillBuffer
<1>9. ASSUME NEW j \in Jobs, RecoverInstance(j) PROVE TypeOK'
  <2>1. UpdateJobStatus(j, "running") => jstatus' \in [Jobs -> JobStatuses]
    BY DEF UpdateJobStatus, JobStatuses
  <2>2. ASSUME NEW k \in Keys \cup {0}, SpawnInstance(j, k)
        PROVE  /\ jstatus' \in [Jobs -> JobStatuses]
               /\ table' \subseteq Jobs
               /\ wpc' \in [Workers -> {"none", "fetch", "ingest", "send", "delete", "fail"}]
               /\ wkeys' \in [Workers -> SUBSET Keys]
               /\ wrows' \in [Workers -> SUBSET Rows]
               /\ cursor' \in [Jobs -> Keys \cup {0}]
               /\ cancel' \in [Jobs -> BOOLEAN]
    BY <2>1, <2>2 DEF SpawnInstance
  <2>3. DropContext(j) => lst' \in [Jobs -> {"none", "run", "cancel", "closing"}]
    BY DEF DropContext
  <2>4. /\ rec' \in [Jobs -> {"none", "requested", "running", "inactive", "create"}]
        /\ lst' \in [Jobs -> {"none", "run", "cancel", "closing"}]
        /\ jstatus' \in [Jobs -> JobStatuses]
        /\ table' \subseteq Jobs
        /\ wpc' \in [Workers -> {"none", "fetch", "ingest", "send", "delete", "fail"}]
        /\ wkeys' \in [Workers -> SUBSET Keys]
        /\ wrows' \in [Workers -> SUBSET Rows]
        /\ cursor' \in [Jobs -> Keys \cup {0}]
        /\ cancel' \in [Jobs -> BOOLEAN]
        /\ faults' \in Nat
    BY <1>9, <2>1, <2>2, <2>3 DEF RecoverInstance, NoFault, Fault
  <2> QED BY <1>9, <2>4, Zenon DEF RecoverInstance
<1>10. ASSUME NEW j \in Jobs, LoadFails(j) PROVE TypeOK'
  <2>1. UpdateJobStatus(j, "failed") => jstatus' \in [Jobs -> JobStatuses]
    BY DEF UpdateJobStatus, JobStatuses
  <2>2. /\ jstatus' \in [Jobs -> JobStatuses]
        /\ rec' \in [Jobs -> {"none", "requested", "running", "inactive", "create"}]
        /\ lst' \in [Jobs -> {"none", "run", "cancel", "closing"}]
    BY <1>10, <2>1, Zenon DEF LoadFails
  <2>3. faults' \in Nat
    BY <1>10 DEF LoadFails, Fault
  <2> QED BY <1>10, <2>2, <2>3, Zenon DEF LoadFails
<1>11. ASSUME NEW j \in Jobs, ReceiveEntries(j) PROVE TypeOK'
  <2>1. PICK m \in chan[j] : \E F \in Flushes(buf[j], m) :
          /\ chan' = [chan EXCEPT ![j] = @ \ {m}]
          /\ subs' = subs \cup F
          /\ buf' = [buf EXCEPT ![j] = (buf[j] \cup m) \ UNION F]
          /\ timer' = [timer EXCEPT ![j] = Armed(buf[j], (buf[j] \cup m) \ UNION F, F, @)]
    BY <1>11, Zenon DEF ReceiveEntries
  <2>2. PICK F \in Flushes(buf[j], m) :
          /\ chan' = [chan EXCEPT ![j] = @ \ {m}]
          /\ subs' = subs \cup F
          /\ buf' = [buf EXCEPT ![j] = (buf[j] \cup m) \ UNION F]
          /\ timer' = [timer EXCEPT ![j] = Armed(buf[j], (buf[j] \cup m) \ UNION F, F, @)]
    BY <2>1, Zenon
  <2>3. m \subseteq Rows /\ buf[j] \subseteq Rows
    OBVIOUS
  <2>4. F \subseteq SUBSET Rows
    BY <2>3 DEF Flushes
  <2>5. subs' \subseteq SUBSET Rows
    BY <2>2, <2>4, Zenon
  <2>6. chan' \in [Jobs -> SUBSET SUBSET Rows] /\ buf' \in [Jobs -> SUBSET Rows]
    BY <2>2, <2>3, Zenon
  <2>7. timer' \in [Jobs -> BOOLEAN]
    BY <2>2, Zenon DEF Armed
  <2> QED BY <1>11, <2>5, <2>6, <2>7 DEF ReceiveEntries, NoFault
<1>12. ASSUME NEW j \in Jobs, TimerFires(j) PROVE TypeOK'
  BY <1>12 DEF TimerFires, Submission, NoFault
<1>13. ASSUME NEW j \in Jobs, ListenerCancelled(j) PROVE TypeOK'
  BY <1>13 DEF ListenerCancelled, EndListener, Submission, NoFault
<1>14. ASSUME NEW j \in Jobs, ListenerClosed(j) PROVE TypeOK'
  BY <1>14 DEF ListenerClosed, EndListener, Submission, NoFault
<1>15. ASSUME NEW q \in Requests, NEW j \in Jobs, ShutdownRequest(q, j) PROVE TypeOK'
  <2>1. /\ table' \subseteq Jobs /\ cancel' \in [Jobs -> BOOLEAN]
        /\ rpc' \in [Requests -> {"free", "join", "listener", "status", "end", "lookup", "fail"}]
        /\ rjob' \in [Requests -> Jobs \cup {NoJob}]
    BY <1>15, ShutdownTypes, Zenon
  <2> QED BY <1>15, <2>1, Zenon DEF ShutdownRequest, NoFault
<1>16. ASSUME NEW q \in Requests, JoinInstance(q) PROVE TypeOK'
  BY <1>16, Zenon DEF JoinInstance, Advance, NoFault
<1>17. ASSUME NEW q \in Requests, JoinListener(q) PROVE TypeOK'
  BY <1>17 DEF JoinListener, Advance, NoFault
<1>18. ASSUME NEW q \in Requests, CheckBeforeEnd(q) PROVE TypeOK'
  BY <1>18 DEF CheckBeforeEnd, Advance, NoFault
<1>19. ASSUME NEW q \in Requests, EndJob(q) PROVE TypeOK'
  BY <1>19, Zenon DEF EndJob, Advance, UpdateJobStatus, NoFault, JobStatuses
<1>20. ASSUME NEW q \in Requests, LookUpStatus(q) PROVE TypeOK'
  BY <1>20 DEF LookUpStatus, Advance, NoFault
<1>21. ASSUME NEW q \in Requests, TryFail(q) PROVE TypeOK'
  BY <1>21, Zenon DEF TryFail, Advance, UpdateJobStatus, NoFault, JobStatuses
<1>22. ASSUME NEW q \in Requests, RequestFails(q) PROVE TypeOK'
  BY <1>22 DEF RequestFails, Advance, UpdateJobStatus, Fault, JobStatuses
<1>23. ASSUME NEW w \in Workers, ScanPage(w) PROVE TypeOK'
  BY <1>23, BoundsAssumption DEF ScanPage, Goto, NoFault
<1>24. ASSUME NEW w \in Workers, ReceiveMessages(w) PROVE TypeOK'
  <2>1. JobOf[w] \in Jobs
    BY WorkersAssumption, Zenon
  <2>2. PICK K \in SUBSET queue[JobOf[w]] :
           /\ IF K \cap InFlight(JobOf[w]) = {} THEN NoFault ELSE Fault("aws")
           /\ wkeys' = [wkeys EXCEPT ![w] = K]
           /\ Goto(w, AfterReceive(K))
    BY <1>24, Zenon DEF ReceiveMessages
  <2>3. K \in SUBSET Keys
    BY <2>1, Zenon
  <2>4. wkeys' \in [Workers -> SUBSET Keys]
    BY <2>2, <2>3, Zenon
  <2>5. wpc' \in [Workers -> {"none", "fetch", "ingest", "send", "delete", "fail"}]
    BY <2>2, Zenon DEF Goto, AfterReceive
  <2>6. faults' \in Nat
    BY <2>2 DEF NoFault, Fault
  <2> QED BY <1>24, <2>4, <2>5, <2>6, Zenon DEF ReceiveMessages
<1>25. ASSUME NEW w \in Workers, FetchFails(w) PROVE TypeOK'
  BY <1>25 DEF FetchFails, Goto, Fault
<1>26. ASSUME NEW w \in Workers, Ingest(w) PROVE TypeOK'
  <2>1. wpc[w] = "ingest" /\ FreshRows(JobOf[w], wkeys[w] \cap Relevant) \subseteq Rows
    BY <1>26, Zenon DEF Ingest, FreshRows
  <2>2. rstatus' \in [Rows -> RowStatuses] /\ last_key' \in [Jobs -> Keys \cup {0}]
    BY <1>26, <2>1, RecordedTypes, Zenon DEF Ingest
  <2>3. wpc' \in [Workers -> {"none", "fetch", "ingest", "send", "delete", "fail"}]
    BY <1>26 DEF Ingest, Goto
  <2>4. wrows' \in [Workers -> SUBSET Rows]
    <3>1. \/ wrows' = wrows
          \/ wrows' = [wrows EXCEPT ![w] = FreshRows(JobOf[w], wkeys[w] \cap Relevant)]
      BY <1>26, Zenon DEF Ingest
    <3> QED BY <2>1, <3>1
  <2> QED BY <1>26, <2>2, <2>3, <2>4, Zenon DEF Ingest, NoFault
<1>27. ASSUME NEW w \in Workers, IngestFails(w) PROVE TypeOK'
  <2>1. wpc[w] = "ingest"
    BY <1>27, Zenon DEF IngestFails
  <2>2. rstatus' \in [Rows -> RowStatuses] /\ last_key' \in [Jobs -> Keys \cup {0}]
    BY <1>27, <2>1, RecordedTypes, Zenon DEF IngestFails
  <2>3. /\ wpc' \in [Workers -> {"none", "fetch", "ingest", "send", "delete", "fail"}]
        /\ faults' \in Nat
    BY <1>27 DEF IngestFails, Goto, Fault
  <2> QED BY <1>27, <2>2, <2>3, Zenon DEF IngestFails
<1>28. ASSUME NEW w \in Workers, SendRows(w) PROVE TypeOK'
  <2>1. JobOf[w] \in Jobs
    BY WorkersAssumption
  <2>2. Kind[JobOf[w]] = "scanner" => Last(wkeys[w]) \in Keys
    BY <1>28, LastOfKeys, Zenon DEF ScanInv, ScanTask, SendRows
  <2>3. wpc' \in [Workers -> {"none", "fetch", "ingest", "send", "delete", "fail"}]
    BY <1>28 DEF SendRows, Goto
  <2>4. /\ chan' \in [Jobs -> SUBSET SUBSET Rows]
        /\ wrows' \in [Workers -> SUBSET Rows]
    BY <1>28, <2>1 DEF SendRows
  <2>5. /\ cursor' \in [Jobs -> Keys \cup {0}]
        /\ wkeys' \in [Workers -> SUBSET Keys]
    <3>1. CASE Kind[JobOf[w]] = "scanner"
      <4>1. /\ cursor' = [cursor EXCEPT ![JobOf[w]] = Last(wkeys[w])]
            /\ wkeys' = [wkeys EXCEPT ![w] = {}]
        BY <1>28, <3>1, Zenon DEF SendRows
      <4> QED BY <2>2, <3>1, <4>1, Zenon
    <3>2. CASE Kind[JobOf[w]] # "scanner"
      BY <1>28, <3>2, Zenon DEF SendRows
    <3> QED BY <3>1, <3>2, Zenon
  <2> QED BY <1>28, <2>3, <2>4, <2>5, Zenon DEF SendRows, NoFault
<1>29. ASSUME NEW w \in Workers, DeleteMessages(w) PROVE TypeOK'
  BY <1>29, Zenon DEF DeleteMessages, Goto, NoFault
<1>30. ASSUME NEW w \in Workers, DeleteFails(w) PROVE TypeOK'
  <2>1. queue' \in [Jobs -> SUBSET Keys]
    <3>1. PICK D : queue' = [queue EXCEPT ![JobOf[w]] = @ \ D]
      BY <1>30, Zenon DEF DeleteFails
    <3> QED BY <3>1, Zenon
  <2>2. wkeys' \in [Workers -> SUBSET Keys] /\ faults' \in Nat
    BY <1>30 DEF DeleteFails, Fault
  <2>3. wpc' \in [Workers -> {"none", "fetch", "ingest", "send", "delete", "fail"}]
    BY <1>30 DEF DeleteFails, Goto
  <2> QED BY <1>30, <2>1, <2>2, <2>3, Zenon DEF DeleteFails
<1>31. ASSUME NEW w \in Workers, CancelTask(w) PROVE TypeOK'
  BY <1>31, Zenon DEF CancelTask, EndTask, Goto, NoFault
<1>32. ASSUME NEW w \in Workers, FailTask(w) PROVE TypeOK'
  BY <1>32 DEF FailTask, EndTask, Goto, UpdateJobStatus, NoFault, Fault, JobStatuses
<1>33. ASSUME NEW R \in subs, NEW c \in CompressionIds, SubmitForCompression(R, c) PROVE TypeOK'
  <2>1. InsertCompressionJob(R, c) => InsertedTypes'
    BY InsertTypes, Zenon
  <2>2. InsertedTypes'
    BY <1>33, <2>1, Zenon DEF SubmitForCompression, InsertedTypes
  <2>3. <<c, Cardinality(R)>> \in CompressionIds \X Nat
    BY RowsFinite
  <2>4. waiters' \subseteq CompressionIds \X Nat
    <3>1. waiters' = waiters \/ waiters' = waiters \cup {<<c, Cardinality(R)>>}
      BY <1>33, Zenon DEF SubmitForCompression
    <3> QED BY <2>3, <3>1, Zenon
  <2> QED BY <1>33, <2>2, <2>4, Zenon DEF SubmitForCompression, InsertedTypes, NoFault
<1>34. ASSUME NEW R \in subs, NEW c \in CompressionIds, SubmitFails(R, c) PROVE TypeOK'
  <2>1. InsertCompressionJob(R, c) => InsertedTypes'
    BY InsertTypes, Zenon
  <2>2. InsertedTypes'
    <3>1. UNCHANGED <<cstatus, rstatus, rcjob>> \/ InsertCompressionJob(R, c)
      BY <1>34, Zenon DEF SubmitFails
    <3> QED BY <2>1, <3>1, Zenon DEF InsertedTypes
  <2>3. faults' \in Nat
    BY <1>34 DEF SubmitFails, Fault
  <2> QED BY <1>34, <2>2, <2>3, Zenon DEF SubmitFails, InsertedTypes
<1>35. ASSUME NEW p \in waiters, WaitForCompression(p[1], p[2]) PROVE TypeOK'
  <2>1. RecordCompressionResult(p[1], p[2]) =>
           rstatus' \in [Rows -> RowStatuses] /\ num_compressed' \in [Jobs -> Nat]
    BY ResultTypes, Zenon
  <2> QED BY <1>35, <2>1 DEF WaitForCompression, NoFault
<1>36. ASSUME NEW p \in waiters, WaitFails(p[1], p[2]) PROVE TypeOK'
  <2>1. RecordCompressionResult(p[1], p[2]) =>
           rstatus' \in [Rows -> RowStatuses] /\ num_compressed' \in [Jobs -> Nat]
    BY ResultTypes, Zenon
  <2> QED BY <1>36, <2>1 DEF WaitFails, Fault
<1>37. CASE UNCHANGED vars
  BY <1>37, Zenon DEF vars
<1> QED BY <1>37, <1>1, <1>2, <1>3, <1>4, <1>5, <1>6, <1>7, <1>8, <1>9, <1>10, <1>11, <1>12,
   <1>13, <1>14, <1>15, <1>16, <1>17, <1>18, <1>19, <1>20, <1>21, <1>22, <1>23, <1>24, <1>25,
   <1>26, <1>27, <1>28, <1>29, <1>30, <1>31, <1>32, <1>33, <1>34, <1>35, <1>36, Zenon DEF Next, vars,
   RecoveryStep, RegisterStep, RequestStep, TaskStep, TaskFault, ListenerStep, SubmitStep,
   WaitStep

-----------------------------------------------------------------------------
(***************************************************************************)
(* Compression jobs and their rows                                         *)
(***************************************************************************)

\* A coroutine waits for a compression job whose rows are all submitted, and it
\* knows their number.
WaiterOk(p) ==
    /\ With(p[1]) # {}
    /\ \A r \in With(p[1]) : rstatus[r] = "submitted"
    /\ p[2] = Cardinality(With(p[1]))

\* The compressed rows of a job.
Compressed(j) == {r \in Rows : r[1] = j /\ rstatus[r] = "compressed"}

\* The compressed rows of a job, by status.
LEMMA CompressedRows ==
    \A j \in Jobs : /\ RowsWith(j, "compressed") = Compressed(j)
                    /\ RowsWith(j, "compressed")' = Compressed(j)'
  BY DEF RowsWith, RowsOf, Compressed

\* Rows are added or none changes, a compression job may end, and a coroutine
\* waits for what it submitted.
LEMMA CountKept ==
    ASSUME TypeOK, CountInv, CompressedCount,
           UNCHANGED <<rcjob, num_compressed>>,
           \A r \in Rows : rstatus'[r] = rstatus[r] \/ (rstatus[r] = "absent" /\ rstatus'[r] = "buffered"),
           \A c \in CompressionIds : cstatus'[c] = cstatus[c]
                                     \/ (cstatus[c] = "pending" /\ cstatus'[c] # "absent"),
           \A p \in waiters' : p[1] \in CompressionIds /\ (p \in waiters \/ WaiterOk(p))
    PROVE  CountInv' /\ CompressedCount'
<1>1. \A c : With(c)' = With(c)
  BY Zenon DEF With
<1>2. \A r \in Rows : rcjob[r] # NoCompression =>
         rstatus'[r] = rstatus[r] /\ rcjob[r] \in CompressionIds
  <2>1. rcjob \in [Rows -> CompressionIds \cup {NoCompression}]
    BY Zenon DEF TypeOK
  <2>2. \A r \in Rows : rcjob[r] # NoCompression => rstatus[r] # "absent"
    BY DEF CountInv
  <2> QED BY <2>1, <2>2, Zenon
<1>3. /\ \A r \in Rows : rstatus'[r] \in {"absent", "buffered"} <=> rcjob[r] = NoCompression
      /\ \A r \in Rows : rcjob[r] # NoCompression => cstatus'[rcjob[r]] # "absent"
      /\ \A r, s \in Rows : rcjob[r] = rcjob[s] /\ rcjob[r] # NoCompression =>
            r[1] = s[1] /\ rstatus'[r] = rstatus'[s]
  <2>1. ASSUME NEW r \in Rows
        PROVE  rstatus'[r] \in {"absent", "buffered"} <=> rcjob[r] = NoCompression
    <3>1. rstatus[r] \in {"absent", "buffered"} <=> rcjob[r] = NoCompression
      BY Zenon DEF CountInv
    <3>2. rstatus'[r] = rstatus[r] \/ (rstatus[r] = "absent" /\ rstatus'[r] = "buffered")
      OBVIOUS
    <3> QED BY <3>1, <3>2, Zenon
  <2>2. ASSUME NEW r \in Rows, rcjob[r] # NoCompression PROVE cstatus'[rcjob[r]] # "absent"
    <3>1. rcjob[r] \in CompressionIds /\ cstatus[rcjob[r]] # "absent"
      BY <1>2, <2>2, Zenon DEF CountInv
    <3> QED BY <3>1, Zenon
  <2>3. ASSUME NEW r \in Rows, NEW s \in Rows, rcjob[r] = rcjob[s], rcjob[r] # NoCompression
        PROVE  r[1] = s[1] /\ rstatus'[r] = rstatus'[s]
    <3>1. rstatus'[r] = rstatus[r] /\ rstatus'[s] = rstatus[s]
      BY <1>2, <2>3, Zenon
    <3>2. r[1] = s[1] /\ rstatus[r] = rstatus[s]
      BY <2>3 DEF CountInv
    <3> QED BY <3>1, <3>2, Zenon
  <2> QED BY <2>1, <2>2, <2>3, Zenon
<1>4. ASSUME NEW p \in waiters' PROVE WaiterOk(p)'
  <2>1. WaiterOk(p) /\ p[1] # NoCompression
    BY <1>4, NullAssumption, Zenon DEF CountInv, WaiterOk
  <2>2. \A r \in With(p[1]) : rstatus'[r] = "submitted"
    BY <1>2, <2>1, Zenon DEF WaiterOk, With
  <2> QED BY <1>1, <2>1, <2>2, Zenon DEF WaiterOk
<1>5. CountInv'
  BY <1>3, <1>4 DEF CountInv, WaiterOk
<1>6. \A r \in Rows : rstatus'[r] \in {"compressed", "failed"} =>
         rstatus'[r] = rstatus[r] /\ cstatus'[rcjob[r]] = cstatus[rcjob[r]]
  <2> SUFFICES ASSUME NEW r \in Rows, rstatus'[r] \in {"compressed", "failed"}
               PROVE  rstatus'[r] = rstatus[r] /\ cstatus'[rcjob[r]] = cstatus[rcjob[r]]
    OBVIOUS
  <2>1. rstatus'[r] = rstatus[r]
    OBVIOUS
  <2>2. rcjob[r] \in CompressionIds
    BY <2>1 DEF CountInv, TypeOK
  <2>3. cstatus[rcjob[r]] \in {"succeeded", "failed"}
    BY <2>1, Zenon DEF CompressedCount
  <2> QED BY <2>1, <2>2, <2>3, Zenon
<1>7. \A j \in Jobs : Compressed(j)' = Compressed(j)
  <2> SUFFICES ASSUME NEW r \in Rows PROVE rstatus'[r] = "compressed" <=> rstatus[r] = "compressed"
    BY Zenon DEF Compressed
  <2> QED OBVIOUS
<1>8. \A j \in Jobs : num_compressed'[j] = Cardinality(RowsWith(j, "compressed")')
  BY <1>7, CompressedRows DEF CompressedCount
<1>9. CompressedCount'
  BY <1>6, <1>8 DEF CompressedCount
<1> QED BY <1>5, <1>9, Zenon

\* A submitted batch becomes the rows of a new compression job.
LEMMA CountOfSubmit ==
    ASSUME TypeOK, CountInv, CompressedCount, NEW R \in SUBSET Rows, R # {},
           NEW c \in CompressionIds, \A r, s \in R : r[1] = s[1],
           \A r \in R : rstatus[r] = "buffered",
           InsertCompressionJob(R, c), num_compressed' = num_compressed,
           waiters' \subseteq waiters \cup {<<c, Cardinality(R)>>}
    PROVE  CountInv' /\ CompressedCount'
<1>1. /\ cstatus[c] = "absent"
      /\ cstatus'[c] = "pending"
      /\ \A d \in CompressionIds : d # c => cstatus'[d] = cstatus[d]
  BY DEF InsertCompressionJob, TypeOK
<1>2. /\ \A r \in R : rstatus'[r] = "submitted" /\ rcjob'[r] = c
      /\ \A r \in Rows : r \notin R => rstatus'[r] = rstatus[r] /\ rcjob'[r] = rcjob[r]
  BY Zenon DEF InsertCompressionJob
<1>3. /\ \A r \in R : rcjob[r] = NoCompression
      /\ \A r \in Rows : rcjob[r] # c
      /\ c # NoCompression
  BY <1>1, NullAssumption DEF CountInv
<1>4. With(c)' = R
  BY <1>2, <1>3 DEF With
<1>5. \A d \in CompressionIds : d # c => With(d)' = With(d)
  BY <1>2, <1>3, NullAssumption DEF With
<1>6. /\ \A r \in Rows : rstatus'[r] \in {"absent", "buffered"} <=> rcjob'[r] = NoCompression
      /\ \A r \in Rows : rcjob'[r] # NoCompression => cstatus'[rcjob'[r]] # "absent"
  <2> SUFFICES ASSUME NEW r \in Rows
               PROVE  /\ rstatus'[r] \in {"absent", "buffered"} <=> rcjob'[r] = NoCompression
                      /\ rcjob'[r] # NoCompression => cstatus'[rcjob'[r]] # "absent"
    OBVIOUS
  <2>1. CASE r \in R
    BY <1>1, <1>2, <1>3, <2>1, Zenon
  <2>2. CASE r \notin R
    <3>1. rcjob[r] \in CompressionIds \cup {NoCompression}
      BY DEF TypeOK
    <3> QED BY <1>1, <1>2, <1>3, <2>2, <3>1 DEF CountInv
  <2> QED BY <2>1, <2>2, Zenon
<1>7. \A r, s \in Rows : rcjob'[r] = rcjob'[s] /\ rcjob'[r] # NoCompression =>
         r[1] = s[1] /\ rstatus'[r] = rstatus'[s]
  BY <1>2, <1>3 DEF CountInv
<1>8. ASSUME NEW p \in waiters' PROVE WaiterOk(p)'
  <2>1. CASE p = <<c, Cardinality(R)>>
    BY <1>2, <1>4, <2>1, Zenon DEF WaiterOk
  <2>2. CASE p \in waiters
    <3>1. p[1] \in CompressionIds /\ WaiterOk(p)
      BY <2>2 DEF TypeOK, CountInv, WaiterOk
    <3>2. p[1] # c
      BY <1>3, <3>1, Zenon DEF WaiterOk, With
    <3>3. \A r \in With(p[1]) : rstatus'[r] = "submitted"
      <4>1. \A r \in With(p[1]) : r \in Rows /\ r \notin R
        BY <1>3, <3>1, NullAssumption, Zenon DEF With
      <4> QED BY <1>2, <3>1, <4>1, Zenon DEF WaiterOk
    <3> QED BY <1>5, <3>1, <3>2, <3>3, Zenon DEF WaiterOk
  <2> QED BY <2>1, <2>2, Zenon
<1>9. CountInv'
  BY <1>6, <1>7, <1>8, Zenon DEF CountInv, WaiterOk
<1>10. \A r \in Rows : rstatus'[r] \in {"compressed", "failed"} =>
          /\ rstatus'[r] = rstatus[r] /\ rcjob'[r] = rcjob[r]
          /\ cstatus'[rcjob[r]] = cstatus[rcjob[r]]
  <2> SUFFICES ASSUME NEW r \in Rows, rstatus'[r] \in {"compressed", "failed"}
               PROVE  /\ rstatus'[r] = rstatus[r] /\ rcjob'[r] = rcjob[r]
                      /\ cstatus'[rcjob[r]] = cstatus[rcjob[r]]
    OBVIOUS
  <2>1. r \notin R
    BY <1>2, Zenon
  <2>2. rcjob[r] \in CompressionIds
    <3>1. rstatus[r] \notin {"absent", "buffered"}
      BY <1>2, <2>1, Zenon
    <3>2. rcjob[r] # NoCompression
      BY <3>1 DEF CountInv
    <3> QED BY <3>2 DEF TypeOK
  <2> QED BY <1>1, <1>2, <1>3, <2>1, <2>2, Zenon
<1>11. \A j \in Jobs : Compressed(j)' = Compressed(j)
  <2> SUFFICES ASSUME NEW r \in Rows PROVE rstatus'[r] = "compressed" <=> rstatus[r] = "compressed"
    BY Zenon DEF Compressed
  <2> QED BY <1>2, Zenon
<1>12. \A j \in Jobs : num_compressed'[j] = Cardinality(RowsWith(j, "compressed")')
  <2> SUFFICES ASSUME NEW j \in Jobs
               PROVE  num_compressed'[j] = Cardinality(RowsWith(j, "compressed")')
    BY Zenon
  <2>1. RowsWith(j, "compressed")' = RowsWith(j, "compressed")
    BY <1>11, CompressedRows, Zenon
  <2>2. num_compressed'[j] = num_compressed[j]
    BY Zenon
  <2>3. num_compressed[j] = Cardinality(RowsWith(j, "compressed"))
    BY Zenon DEF CompressedCount
  <2> QED BY <2>1, <2>2, <2>3, Zenon
<1>13. CompressedCount'
  BY <1>10, <1>12 DEF CompressedCount
<1> QED BY <1>9, <1>13, Zenon

\* A result is recorded for all rows of the compression job, and only once.
LEMMA CountOfResult ==
    ASSUME TypeOK, CountInv, CompressedCount, NEW p \in waiters,
           cstatus[p[1]] \in {"succeeded", "failed"},
           RecordCompressionResult(p[1], p[2]),
           waiters' = waiters \ {p}, UNCHANGED <<rcjob, cstatus>>
    PROVE  CountInv' /\ CompressedCount'
<1> DEFINE c == p[1]
           R == With(c)
<1>1. c \in CompressionIds /\ c # NoCompression /\ WaiterOk(p)
  BY NullAssumption DEF TypeOK, CountInv, WaiterOk
<1>2. R \in SUBSET Rows /\ R # {} /\ (\A r \in R : rcjob[r] = c /\ rstatus[r] = "submitted")
  BY <1>1, Zenon DEF WaiterOk, With
<1>3. PICK j \in Jobs : \A r \in R : r[1] = j
  <2>1. PICK s \in R : TRUE
    BY <1>2, Zenon
  <2>2. \A r \in R : r[1] = s[1]
    BY <1>1, <1>2, <2>1 DEF CountInv
  <2> QED BY <1>2, <2>1, <2>2, RowParts, Zenon
<1>4. (CHOOSE i \in Jobs : \E r \in R : r[1] = i) = j
  BY <1>2, <1>3, Zenon
<1>5. p[2] = Cardinality(R)
  BY <1>1, Zenon DEF WaiterOk
<1> DEFINE result == IF cstatus[c] = "succeeded" THEN "compressed" ELSE "failed"
<1>6. /\ rstatus' = [r \in Rows |-> IF r \notin R THEN rstatus[r] ELSE result]
      /\ num_compressed' = IF cstatus[c] = "succeeded"
                           THEN [num_compressed EXCEPT ![j] = @ + p[2]] ELSE num_compressed
  BY <1>4, <1>5, Zenon DEF RecordCompressionResult, With
<1>7. /\ \A r \in R : rstatus'[r] = result
      /\ \A r \in Rows : r \notin R => rstatus'[r] = rstatus[r]
  BY <1>2, <1>6, Zenon
<1>8. \A d : With(d)' = With(d)
  BY DEF With
<1>9. \A r \in Rows : rcjob[r] = c => r \in R
  BY Zenon DEF With
<1> HIDE DEF R
<1>10. \A r \in Rows : rstatus'[r] \in {"absent", "buffered"} <=> rcjob[r] = NoCompression
  <2> SUFFICES ASSUME NEW r \in Rows
               PROVE  rstatus'[r] \in {"absent", "buffered"} <=> rcjob[r] = NoCompression
    BY Zenon
  <2>1. CASE r \in R
    BY <1>1, <1>2, <1>7, <2>1, Zenon
  <2>2. CASE r \notin R
    BY <1>7, <2>2, Zenon DEF CountInv
  <2> QED BY <2>1, <2>2, Zenon
<1>11. \A r, s \in Rows : rcjob[r] = rcjob[s] /\ rcjob[r] # NoCompression =>
          r[1] = s[1] /\ rstatus'[r] = rstatus'[s]
  <2> SUFFICES ASSUME NEW r \in Rows, NEW s \in Rows, rcjob[r] = rcjob[s], rcjob[r] # NoCompression
               PROVE  r[1] = s[1] /\ rstatus'[r] = rstatus'[s]
    BY Zenon
  <2>1. r[1] = s[1] /\ rstatus[r] = rstatus[s]
    BY Zenon DEF CountInv
  <2>2. r \in R <=> s \in R
    BY <1>2, <1>9, Zenon
  <2> QED BY <1>7, <2>1, <2>2, Zenon
<1>12. ASSUME NEW q \in waiters' PROVE WaiterOk(q)'
  <2>1. q \in waiters /\ q # p /\ WaiterOk(q)
    BY <1>12, Zenon DEF CountInv, WaiterOk
  <2>2. q[1] # c
    <3>1. q = <<q[1], q[2]>> /\ p = <<p[1], p[2]>>
      BY <2>1 DEF TypeOK
    <3> QED BY <1>1, <2>1, <3>1, Zenon DEF WaiterOk
  <2>3. \A r \in With(q[1]) : r \in Rows /\ r \notin R
    BY <1>2, <2>2, Zenon DEF With
  <2>4. \A r \in With(q[1]) : rstatus'[r] = "submitted"
    BY <1>7, <2>1, <2>3, Zenon DEF WaiterOk
  <2> QED BY <1>8, <2>1, <2>4, Zenon DEF WaiterOk
<1>13. CountInv'
  BY <1>10, <1>11, <1>12 DEF CountInv, WaiterOk
<1>14. \A r \in Rows : /\ rstatus'[r] = "compressed" => cstatus[rcjob[r]] = "succeeded"
                       /\ rstatus'[r] = "failed" => cstatus[rcjob[r]] = "failed"
  <2> SUFFICES ASSUME NEW r \in Rows
               PROVE  /\ rstatus'[r] = "compressed" => cstatus[rcjob[r]] = "succeeded"
                      /\ rstatus'[r] = "failed" => cstatus[rcjob[r]] = "failed"
    BY Zenon
  <2>1. CASE r \in R
    BY <1>2, <1>7, <2>1, Zenon
  <2>2. CASE r \notin R
    BY <1>7, <2>2, Zenon DEF CompressedCount
  <2> QED BY <2>1, <2>2, Zenon

<1>15. CASE cstatus[c] = "failed"
  <2>1. \A r \in Rows : rstatus'[r] = "compressed" <=> rstatus[r] = "compressed"
    BY <1>2, <1>7, <1>15, Zenon
  <2>2. \A i \in Jobs : Compressed(i)' = Compressed(i)
    BY <2>1, Zenon DEF Compressed
  <2>3. num_compressed' = num_compressed
    BY <1>6, <1>15, Zenon
  <2>4. \A i \in Jobs : num_compressed'[i] = Cardinality(RowsWith(i, "compressed")')
    BY <2>2, <2>3, CompressedRows DEF CompressedCount
  <2> QED BY <1>13, <1>14, <2>4, Zenon DEF CompressedCount
<1>16. CASE cstatus[c] = "succeeded"
  <2>1. \A r \in Rows : rstatus'[r] = "compressed" <=> rstatus[r] = "compressed" \/ r \in R
    BY <1>7, <1>16
  <2>2. /\ Compressed(j)' = Compressed(j) \cup R
        /\ \A i \in Jobs : i # j => Compressed(i)' = Compressed(i)
    BY <1>2, <1>3, <2>1 DEF Compressed
  <2>3. /\ num_compressed'[j] = num_compressed[j] + p[2]
        /\ \A i \in Jobs : i # j => num_compressed'[i] = num_compressed[i]
    BY <1>6, <1>16, Zenon DEF TypeOK
  <2>4. Cardinality(Compressed(j) \cup R) = Cardinality(Compressed(j)) + Cardinality(R)
    <3>1. Compressed(j) \in SUBSET Rows /\ Compressed(j) \cap R = {}
      BY <1>2 DEF Compressed
    <3>2. /\ IsFiniteSet(Compressed(j)) /\ IsFiniteSet(R)
          /\ Cardinality(Compressed(j)) \in Nat /\ Cardinality(R) \in Nat
      BY <1>2, <3>1, RowsFinite, Zenon
    <3>3. Cardinality(Compressed(j) \cup R)
            = Cardinality(Compressed(j)) + Cardinality(R) - Cardinality(Compressed(j) \cap R)
      BY <3>2, FS_Union, Zenon
    <3>4. Cardinality(Compressed(j) \cap R) = 0
      BY <3>1, FS_EmptySet, Zenon
    <3> QED BY <3>2, <3>3, <3>4
  <2>5. \A i \in Jobs : num_compressed[i] = Cardinality(Compressed(i))
    BY CompressedRows, Zenon DEF CompressedCount
  <2>6. \A i \in Jobs : num_compressed'[i] = Cardinality(RowsWith(i, "compressed")')
    <3> SUFFICES ASSUME NEW i \in Jobs PROVE num_compressed'[i] = Cardinality(Compressed(i)')
      BY CompressedRows, Zenon
    <3>1. CASE i = j
      BY <1>5, <2>2, <2>3, <2>4, <2>5, <3>1, Zenon
    <3>2. CASE i # j
      BY <2>2, <2>3, <2>5, <3>2, Zenon
    <3> QED BY <3>1, <3>2, Zenon
  <2> QED BY <1>13, <1>14, <2>6 DEF CompressedCount
<1> QED BY <1>15, <1>16, Zenon

\* What each kind of step does to compression jobs and counts.
LEMMA CountStep ==
    TypeOK /\ OwnInv /\ CountInv /\ CompressedCount /\ [Next]_vars => CountInv' /\ CompressedCount'
<1> SUFFICES ASSUME TypeOK, OwnInv, CountInv, CompressedCount, [Next]_vars
             PROVE  CountInv' /\ CompressedCount'
  OBVIOUS
<1> USE DEF db, ext, reqs, mgr, tasks, listeners, coroutines
<1>1. \A p \in waiters : p[1] \in CompressionIds
  BY Zenon DEF TypeOK
<1>2. ASSUME UNCHANGED <<rstatus, rcjob, num_compressed, cstatus>>, waiters' \subseteq waiters
      PROVE  CountInv' /\ CompressedCount'
  BY <1>1, <1>2, CountKept, Zenon
<1>3. CASE ManagerStep
  BY <1>2, <1>3, ManagerMovesNothing, Zenon DEF Resting
<1>4. CASE Crash
  BY <1>2, <1>4, Zenon DEF Crash
<1>5. CASE Boot
  <2>1. UNCHANGED <<rstatus, rcjob, num_compressed, cstatus>> /\ waiters' = UnfinishedCompressionJobs
    BY Zenon, <1>5 DEF Boot
  <2>2. ASSUME NEW p \in UnfinishedCompressionJobs
        PROVE  p[1] \in CompressionIds /\ WaiterOk(p)
    <3>1. PICK c \in CompressionIds : /\ SubmittedWith(c) # {}
                                      /\ p = <<c, Cardinality(SubmittedWith(c))>>
      BY <2>2, Zenon DEF UnfinishedCompressionJobs
    <3>2. SubmittedWith(c) = With(c)
      <4>1. PICK s \in SubmittedWith(c) : TRUE
        BY <3>1, Zenon
      <4>2. \A r \in With(c) : rstatus[r] = "submitted"
        BY <4>1, NullAssumption DEF SubmittedWith, With, CountInv
      <4> QED BY <4>2, Zenon DEF SubmittedWith, With
    <3>3. \A r \in With(c) : rstatus[r] = "submitted"
      BY <3>2, Zenon DEF SubmittedWith
    <3> QED BY <3>1, <3>2, <3>3, Zenon DEF WaiterOk
  <2> QED BY <2>1, <2>2, CountKept, Zenon
<1>6. ASSUME NEW j \in Jobs, RefillBuffer(j) PROVE CountInv' /\ CompressedCount'
  BY <1>2, <1>6, Zenon DEF RefillBuffer
<1>7. ASSUME NEW j \in Jobs, ListenerStep(j) PROVE CountInv' /\ CompressedCount'
  BY <1>2, <1>7, ListenerEffects, Zenon DEF ListenerEffect
<1>8. ASSUME NEW w \in Workers, TaskStep(w) \/ TaskFault(w) PROVE CountInv' /\ CompressedCount'
  <2>1. UNCHANGED <<rcjob, num_compressed, cstatus, waiters>>
    BY Zenon, <1>8, TaskEffects DEF TaskEffect
  <2>2. \/ rstatus' = rstatus
        \/ \E K : rstatus' = [r \in Rows |-> IF r \in FreshRows(JobOf[w], K) THEN "buffered" ELSE rstatus[r]]
    BY Zenon, <1>8 DEF TaskStep, TaskFault, ScanPage, ReceiveMessages, Ingest, IngestFails, SendRows,
                       DeleteMessages, DeleteFails, CancelTask, FailTask, FetchFails, RecordObjects
  <2>3. \A r \in Rows : rstatus'[r] = rstatus[r] \/ (rstatus[r] = "absent" /\ rstatus'[r] = "buffered")
    BY <2>2, Zenon DEF FreshRows
  <2> QED BY <1>1, <2>1, <2>3, CountKept, Zenon
<1>9. CASE PutObject \/ UNCHANGED vars
  BY <1>2, <1>9, Zenon DEF PutObject, vars
<1>10. ASSUME NEW c \in CompressionIds, CompressionEnds(c) PROVE CountInv' /\ CompressedCount'
  <2>1. UNCHANGED <<rstatus, rcjob, num_compressed, waiters>>
    BY Zenon, <1>10 DEF CompressionEnds
  <2>2. /\ cstatus[c] = "pending" /\ cstatus'[c] # "absent"
        /\ \A d \in CompressionIds : d # c => cstatus'[d] = cstatus[d]
    BY <1>10, Zenon DEF CompressionEnds, TypeOK
  <2> QED BY <1>1, <2>1, <2>2, CountKept, Zenon
<1>11. ASSUME NEW R \in subs, NEW c \in CompressionIds,
              SubmitForCompression(R, c) \/ SubmitFails(R, c)
       PROVE  CountInv' /\ CompressedCount'
  <2>1. num_compressed' = num_compressed
    BY Zenon, <1>11 DEF SubmitForCompression, SubmitFails
  <2>2. CASE /\ \A r \in R : rstatus[r] = "buffered"
             /\ InsertCompressionJob(R, c)
             /\ waiters' \subseteq waiters \cup {<<c, Cardinality(R)>>}
    <3>1. R \in SUBSET Rows /\ R # {} /\ \A r, s \in R : r[1] = s[1]
      BY Zenon DEF TypeOK, OwnInv
    <3> QED BY <2>1, <2>2, <3>1, CountOfSubmit, Zenon
  <2>3. CASE UNCHANGED <<cstatus, rstatus, rcjob, waiters>>
    BY <1>2, <2>1, <2>3
  <2>4. waiters' = waiters \/ waiters' = waiters \cup {<<c, Cardinality(R)>>}
    BY Zenon, <1>11 DEF SubmitForCompression, SubmitFails
  <2>5. \/ (\A r \in R : rstatus[r] = "buffered") /\ InsertCompressionJob(R, c)
        \/ UNCHANGED <<cstatus, rstatus, rcjob, waiters>>
    BY <1>11 DEF SubmitForCompression, SubmitFails
  <2> QED BY <2>2, <2>3, <2>4, <2>5, Zenon
<1>12. ASSUME NEW p \in waiters, WaitForCompression(p[1], p[2]) \/ WaitFails(p[1], p[2])
       PROVE  CountInv' /\ CompressedCount'
  <2>1. p = <<p[1], p[2]>>
    BY DEF TypeOK
  <2>2. UNCHANGED <<rcjob, cstatus>> /\ waiters' = waiters \ {p}
    BY <1>12, <2>1, Zenon DEF WaitForCompression, WaitFails
  <2>3. CASE cstatus[p[1]] \in {"succeeded", "failed"} /\ RecordCompressionResult(p[1], p[2])
    BY <2>2, <2>3, CountOfResult
  <2>4. CASE UNCHANGED <<rstatus, num_compressed>>
    BY <1>2, <2>2, <2>4, Zenon
  <2> QED BY Zenon, <1>12, <2>3, <2>4 DEF WaitForCompression, WaitFails
<1>13. CASE OutsideStep
  BY Zenon, <1>9, <1>10, <1>11, <1>12, <1>13 DEF OutsideStep
<1> QED BY Zenon, StepKinds, <1>3, <1>4, <1>5, <1>6, <1>7, <1>8, <1>13 DEF ManagerStep

-----------------------------------------------------------------------------
(***************************************************************************)
(* What a scanner recorded                                                 *)
(***************************************************************************)

\* ScannedExactlyOnce for one job.
Scanned(j) == RowsOf(j) = {<<j, k, 1>> : k \in (1..last_key[j]) \cap Relevant}

\* It is kept by a step that adds no row of the job and leaves its last key.
LEMMA ScannedKept ==
    ASSUME TypeOK, NEW j \in Jobs, Scanned(j), last_key'[j] = last_key[j],
           \A r \in Rows : r[1] = j => (rstatus'[r] = "absent" <=> rstatus[r] = "absent")
    PROVE  Scanned(j)'
<1>1. RowsOf(j)' = RowsOf(j)
  BY Zenon DEF RowsOf
<1> QED BY <1>1, Zenon DEF Scanned

\* The page of a scan holds every relevant key after the last one up to its end.
LEMMA PageExtends ==
    ASSUME NEW l \in Keys \cup {0}, NEW k \in Keys, NEW K, K = ((l + 1)..k) \cap Relevant, K # {}
    PROVE  /\ Last(K) \in Keys
           /\ (1..Last(K)) \cap Relevant = ((1..l) \cap Relevant) \cup K
           /\ \A x \in K : x > l
<1>1. K \in SUBSET Keys
  BY BoundsAssumption, Zenon
<1>2. Last(K) \in K /\ \A x \in K : x <= Last(K)
  BY <1>1, LastOfKeys, Zenon
<1> DEFINE m == Last(K)
<1>3. m \in K /\ \A x \in K : x <= m
  BY <1>2, Zenon
<1> HIDE DEF m
<1>4. m \in Nat /\ k \in Nat /\ l \in Nat /\ l < m /\ m <= k
  BY <1>1, <1>3, BoundsAssumption DEF Keys
<1>5. ASSUME NEW x \in Relevant PROVE x \in 1..m <=> x \in 1..l \/ x \in K
  <2>1. x \in Nat /\ x >= 1
    BY BoundsAssumption DEF Keys
  <2> QED BY <1>3, <1>4, <2>1
<1>6. (1..m) \cap Relevant = ((1..l) \cap Relevant) \cup K
  BY <1>5, Zenon
<1>7. \A x \in K : x > l
  BY <1>4
<1> QED BY <1>1, <1>3, <1>6, <1>7, Zenon DEF m

\* A committed page of a scanner adds exactly the first copies of its keys.
LEMMA ScannedOfIngest ==
    ASSUME TypeOK, NEW j \in Jobs, Scanned(j), NEW k \in Keys, NEW K,
           K = ((last_key[j] + 1)..k) \cap Relevant, K # {},
           rstatus' = [r \in Rows |-> IF r \in FreshRows(j, K) THEN "buffered" ELSE rstatus[r]],
           last_key' = [last_key EXCEPT ![j] = Last(K)]
    PROVE  Scanned(j)'
<1> DEFINE l == last_key[j]
<1>1. l \in Keys \cup {0}
  BY Zenon DEF TypeOK
<1>2. /\ Last(K) \in Keys
      /\ (1..Last(K)) \cap Relevant = ((1..l) \cap Relevant) \cup K
      /\ \A x \in K : x > l
  BY <1>1, PageExtends
<1>3. K \in SUBSET Keys
  BY BoundsAssumption
<1>4. 1 \in Copies /\ Keys \subseteq Nat
  BY BoundsAssumption DEF Copies, Keys
<1>5. \A x \in K : <<j, x, 1>> \in Rows /\ rstatus[<<j, x, 1>>] = "absent"
  <2> SUFFICES ASSUME NEW x \in K PROVE <<j, x, 1>> \in Rows /\ rstatus[<<j, x, 1>>] = "absent"
    OBVIOUS
  <2>1. <<j, x, 1>> \in Rows /\ <<j, x, 1>>[1] = j
    BY <1>3, <1>4, Zenon DEF Rows
  <2> HIDE DEF l
  <2>2. x \in Nat /\ l \in Nat /\ x > l
    BY <1>1, <1>2, <1>3, <1>4
  <2>3. <<j, x, 1>> \notin {<<j, y, 1>> : y \in (1..l) \cap Relevant}
    BY <2>2
  <2>4. <<j, x, 1>> \notin RowsOf(j)
    BY <2>3, Zenon DEF Scanned, l
  <2> QED BY <2>1, <2>4 DEF RowsOf
<1>6. FreshRows(j, K) = {<<j, x, 1>> : x \in K}
  <2>1. ASSUME NEW r \in FreshRows(j, K) PROVE \E x \in K : r = <<j, x, 1>>
    <3>1. /\ r \in Rows /\ r[1] = j /\ r[2] \in K
          /\ \A n \in 1..(r[3] - 1) : rstatus[<<j, r[2], n>>] # "absent"
      BY <2>1, Zenon DEF FreshRows
    <3>2. rstatus[<<j, r[2], 1>>] = "absent"
      BY <1>5, <3>1, Zenon
    <3>3. r[3] \in Nat /\ r[3] >= 1 /\ 1 \notin 1..(r[3] - 1)
      BY <3>1, <3>2, RowParts DEF Copies
    <3>4. r[3] = 1
      BY <3>3
    <3> QED BY <3>1, <3>4, RowParts, Zenon
  <2>2. ASSUME NEW x \in K PROVE <<j, x, 1>> \in FreshRows(j, K)
    <3>1. 1..(1 - 1) = {}
      OBVIOUS
    <3> QED BY <1>5, <3>1, Zenon DEF FreshRows
  <2> QED BY <2>1, <2>2, Zenon
<1>7. RowsOf(j)' = RowsOf(j) \cup FreshRows(j, K)
  <2>1. \A r \in FreshRows(j, K) : r \in Rows /\ r[1] = j
    BY Zenon DEF FreshRows
  <2>2. \A r \in Rows : rstatus'[r] # "absent" <=> rstatus[r] # "absent" \/ r \in FreshRows(j, K)
    OBVIOUS
  <2> QED BY <2>1, <2>2, Zenon DEF RowsOf
<1>8. last_key'[j] = Last(K)
  BY Zenon DEF TypeOK
<1>9. RowsOf(j)' = {<<j, x, 1>> : x \in ((1..l) \cap Relevant) \cup K}
  BY <1>6, <1>7, Zenon DEF Scanned
<1> QED BY <1>2, <1>8, <1>9, Zenon DEF Scanned

\* Of a task's steps only a committed transaction adds rows or moves the last key.
LEMMA TaskRecords ==
    ASSUME NEW w \in Workers, TaskStep(w) \/ TaskFault(w)
    PROVE  \/ UNCHANGED <<rstatus, last_key>>
           \/ /\ Ingest(w) \/ IngestFails(w)
              /\ wpc[w] = "ingest"
              /\ RecordObjects(JobOf[w], wkeys[w] \cap Relevant)
<1> USE DEF db
<1>1. CASE ScanPage(w) \/ ReceiveMessages(w) \/ FetchFails(w)
  BY <1>1, Zenon DEF ScanPage, ReceiveMessages, FetchFails
<1>2. CASE DeleteMessages(w) \/ DeleteFails(w) \/ SendRows(w)
  BY <1>2, Zenon DEF DeleteMessages, DeleteFails, SendRows
<1>3. CASE CancelTask(w) \/ FailTask(w)
  BY <1>3, Zenon DEF CancelTask, FailTask
<1>4. CASE Ingest(w) \/ IngestFails(w)
  BY Zenon, <1>4 DEF Ingest, IngestFails
<1> QED BY <1>1, <1>2, <1>3, <1>4, Zenon DEF TaskStep, TaskFault

\* A task keeps it: rows and last key are committed together.
LEMMA ScannedOfTask ==
    ASSUME TypeOK, ScanInv, ScannedExactlyOnce, NEW w \in Workers, TaskStep(w) \/ TaskFault(w),
           NEW j \in Jobs, Kind[j] = "scanner"
    PROVE  Scanned(j)'
<1>1. Scanned(j)
  BY Zenon DEF ScannedExactlyOnce, Scanned
<1>2. CASE UNCHANGED <<rstatus, last_key>>
  BY <1>1, <1>2, ScannedKept, Zenon
<1>3. CASE wpc[w] = "ingest" /\ RecordObjects(JobOf[w], wkeys[w] \cap Relevant)
  <2> DEFINE K == wkeys[w] \cap Relevant
  <2>1. rstatus' = [r \in Rows |-> IF r \in FreshRows(JobOf[w], K) THEN "buffered" ELSE rstatus[r]]
    BY <1>3, Zenon DEF RecordObjects
  <2>2. CASE j # JobOf[w]
    <3>1. \A r \in Rows : r[1] = j => rstatus'[r] = rstatus[r]
      BY <2>1, <2>2, Zenon DEF FreshRows
    <3>2. last_key'[j] = last_key[j]
      BY <1>3, <2>2, Zenon DEF RecordObjects, TypeOK
    <3> QED BY <1>1, <3>1, <3>2, ScannedKept, Zenon
  <2>3. CASE j = JobOf[w]
    <3>1. last_key' = [last_key EXCEPT ![j] = Last(K)]
      BY <1>3, <2>3, Zenon DEF RecordObjects
    <3>2. PICK k \in Keys : /\ wkeys[w] = ((last_key[j] + 1)..k) \cap Relevant
                            /\ wkeys[w] # {}
      BY <1>3, <2>3, Zenon DEF ScanInv, ScanTask
    <3>3. K = ((last_key[j] + 1)..k) \cap Relevant /\ K # {}
      BY <3>2, Zenon
    <3> HIDE DEF K
    <3> QED BY <1>1, <2>1, <2>3, <3>1, <3>3, ScannedOfIngest, Zenon
  <2> QED BY <2>2, <2>3, Zenon
<1> QED BY <1>2, <1>3, TaskRecords, Zenon

\* Every step keeps it.
LEMMA ScannedStep ==
    TypeOK /\ ScanInv /\ CountInv /\ ScannedExactlyOnce /\ [Next]_vars => ScannedExactlyOnce'
<1> SUFFICES ASSUME TypeOK, ScanInv, CountInv, ScannedExactlyOnce, [Next]_vars,
                    NEW j \in Jobs, Kind[j] = "scanner"
             PROVE  Scanned(j)'
  BY Zenon DEF ScannedExactlyOnce, Scanned
<1>1. Scanned(j)
  BY DEF ScannedExactlyOnce, Scanned
<1>2. ASSUME UNCHANGED <<rstatus, last_key>> PROVE Scanned(j)'
  BY <1>1, <1>2, ScannedKept, Zenon
<1> USE DEF db
<1>3. CASE ManagerStep
  BY <1>2, <1>3, ManagerMovesNothing, Zenon DEF Resting
<1>4. CASE Crash \/ Boot
  BY <1>2, <1>4, Zenon DEF Crash, Boot
<1>5. ASSUME NEW i \in Jobs, RefillBuffer(i) PROVE Scanned(j)'
  BY <1>2, <1>5, Zenon DEF RefillBuffer
<1>6. ASSUME NEW i \in Jobs, ListenerStep(i) PROVE Scanned(j)'
  BY <1>2, <1>6, ListenerEffects, Zenon DEF ListenerEffect
<1>7. ASSUME NEW w \in Workers, TaskStep(w) \/ TaskFault(w) PROVE Scanned(j)'
  BY <1>7, ScannedOfTask, Zenon
<1>8. CASE OutsideStep
  <2>1. last_key' = last_key
    BY <1>8, OutsideEffects, Zenon
  <2>2. CASE PutObject \/ UNCHANGED vars
    BY <1>2, <2>2, Zenon DEF PutObject, vars
  <2>3. ASSUME NEW c \in CompressionIds, CompressionEnds(c) PROVE Scanned(j)'
    BY <1>2, <2>3, Zenon DEF CompressionEnds
  <2>4. ASSUME NEW R \in subs, NEW c \in CompressionIds,
               SubmitForCompression(R, c) \/ SubmitFails(R, c)
        PROVE  Scanned(j)'
    <3>1. \/ rstatus' = rstatus
          \/ /\ \A r \in R : rstatus[r] = "buffered"
             /\ rstatus' = [r \in Rows |-> IF r \in R THEN "submitted" ELSE rstatus[r]]
      BY <2>4, Zenon DEF SubmitForCompression, SubmitFails, InsertCompressionJob
    <3>2. \A r \in Rows : rstatus'[r] = "absent" <=> rstatus[r] = "absent"
      BY <3>1, Zenon
    <3> QED BY <1>1, <2>1, <3>2, ScannedKept, Zenon
  <2>5. ASSUME NEW p \in waiters, WaitForCompression(p[1], p[2]) \/ WaitFails(p[1], p[2])
        PROVE  Scanned(j)'
    <3>1. p[1] \in CompressionIds /\ (rstatus' = rstatus \/ RecordCompressionResult(p[1], p[2]))
      BY <2>5, Zenon DEF WaitForCompression, WaitFails, TypeOK
    <3>2. \A r \in Rows : rstatus'[r] = "absent" <=> rstatus[r] = "absent"
      BY <3>1, ResultKeepsBuffered, Zenon
    <3> QED BY <1>1, <2>1, <3>2, ScannedKept, Zenon
  <2> QED BY Zenon, <1>8, <2>2, <2>3, <2>4, <2>5 DEF OutsideStep
<1> QED BY Zenon, StepKinds, <1>3, <1>4, <1>5, <1>6, <1>7, <1>8 DEF ManagerStep
=============================================================================
