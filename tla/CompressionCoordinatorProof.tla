-------------------- MODULE CompressionCoordinatorProof --------------------
(***************************************************************************)
(* Proofs about CompressionCoordinator for any number of jobs, handles,    *)
(* Spider jobs, permits and faults.                                        *)
(***************************************************************************)
EXTENDS CompressionCoordinator, TLAPS

\* What the poll loop holds at each of its await points.
LoopInv ==
    /\ loop = "down" => \A h \in HandleIds : hpc[h] = "free"
    /\ loop = "dispatch" => ~first
    /\ loop # "recover" => recovering = {}
    /\ loop # "dispatch" => batch = {}
    /\ loop \notin {"dispatch", "sleep"} => toMark = {}
    /\ batch \subseteq toMark

\* A fetched row that is still to be dispatched is pending and has no handle.
BatchInv ==
    \A j \in Jobs : j \in batch /\ kind[j] = "s3_object_metadata" =>
        /\ status[j] = "PENDING"
        /\ \A h \in HandleIds : Live(h) => hjob[h] # j

\* A submitted job that is still to be recovered keeps its Spider ID, is not
\* failed, and has no handle.
RecoverInv ==
    \A j \in Jobs, s \in SpiderIds : <<j, s>> \in recovering =>
        /\ status[j] \in {"RUNNING", "SUCCEEDED"}
        /\ spider_id[j] = s
        /\ \A h \in HandleIds : Live(h) => hjob[h] # j

\* What a live handle knows of its job at each await point.
HandleInv ==
    \A h \in HandleIds : Live(h) =>
        /\ hjob[h] \in Jobs
        /\ kind[hjob[h]] = "s3_object_metadata"
        /\ status[hjob[h]] # "ABSENT"
        /\ status[hjob[h]] = "PENDING" =>
              ~first /\ (dispatched[hjob[h]] \/ hjob[h] \in toMark)
        /\ hpc[h] \in {"prepare", "submit", "persist"} => status[hjob[h]] = "PENDING"
        /\ hpc[h] = "persist" =>
              /\ hsid[h] \in SpiderIds
              /\ sjob[hsid[h]] = hjob[h]
              /\ sstate[hsid[h]] # "UNREGISTERED"
        /\ hpc[h] \in {"start", "poll", "check", "write"} =>
              /\ hsid[h] \in SpiderIds
              /\ spider_id[hjob[h]] = hsid[h]
              /\ status[hjob[h]] \in {"RUNNING", "SUCCEEDED"}
        /\ hpc[h] \in {"check", "write"} /\ hout[h] = "KILLED" =>
              sstate[hsid[h]] = "CANCELLED"

\* What the table promises of a job, by its status.
TableInv ==
    \A j \in Jobs :
        /\ spider_id[j] # NoSpider =>
              /\ kind[j] = "s3_object_metadata"
              /\ status[j] \notin {"ABSENT", "PENDING"}
              /\ sjob[spider_id[j]] = j
              /\ sstate[spider_id[j]] # "UNREGISTERED"
        /\ kind[j] = "s3_object_metadata" =>
              /\ status[j] = "RUNNING" => spider_id[j] # NoSpider /\ dispatched[j]
              /\ status[j] = "SUCCEEDED" =>
                    spider_id[j] # NoSpider /\ inserted[spider_id[j]] = 1
              /\ status[j] = "KILLED" =>
                    spider_id[j] # NoSpider /\ sstate[spider_id[j]] = "CANCELLED"

\* A Spider job that was started, or that published, is the one its job's row names.
SpiderInv ==
    \A s \in SpiderIds :
        /\ inserted[s] > 0 =>
              /\ inserted[s] = 1
              /\ sjob[s] \in Jobs
              /\ spider_id[sjob[s]] = s
              /\ status[sjob[s]] \in Terminal
        /\ sstate[s] \notin {"UNREGISTERED", "READY"} =>
              sjob[s] \in Jobs /\ spider_id[sjob[s]] = s

\* The inductive invariant.
IInv ==
    /\ TypeOK
    /\ LoopInv
    /\ BatchInv
    /\ RecoverInv
    /\ HandleInv
    /\ SingleDriver
    /\ TableInv
    /\ SpiderInv

(***************************************************************************)
(* Type correctness                                                        *)
(***************************************************************************)

\* Every step of the coordinator, the handles and Spider keeps the types.
LEMMA TypeInductive == TypeOK /\ [Next]_vars => TypeOK'
<1> SUFFICES ASSUME TypeOK, [Next]_vars PROVE TypeOK'
  OBVIOUS
<1>1. ASSUME NEW j \in Jobs, InsertJob(j)
      PROVE  TypeOK'
  BY <1>1, Zenon DEF InsertJob, TypeOK, Statuses, NoFault, spider, coord, handles
<1>2. ASSUME NEW j \in Jobs, LegacyScheduleJob(j)
      PROVE  TypeOK'
  BY <1>2, Zenon DEF LegacyScheduleJob, TypeOK, Statuses, NoFault, spider, coord, handles
<1>3. ASSUME NEW j \in Jobs, LegacyFinishJob(j)
      PROVE  TypeOK'
  BY <1>3, Zenon DEF LegacyFinishJob, TypeOK, Statuses, NoFault, spider, coord, handles
<1>4. ASSUME LegacyKillHangingJobs
      PROVE  TypeOK'
  BY <1>4, Zenon DEF LegacyKillHangingJobs, TypeOK, Statuses, NoFault, spider, coord,
     handles
<1>5. ASSUME Boot
      PROVE  TypeOK'
  BY <1>5, Zenon DEF Boot, SubmittedRunningJobs, TypeOK, LoopStates, NoFault, table,
     spider, handles
<1>6. ASSUME RecoveryDone
      PROVE  TypeOK'
  BY <1>6, Zenon DEF RecoveryDone, TypeOK, LoopStates, NoFault, table, spider, handles
<1>7. ASSUME FetchNewJobRows
      PROVE  TypeOK'
  <2>1. CASE AvailablePermits = 0
    BY <1>7, <2>1, Zenon DEF FetchNewJobRows, TypeOK, LoopStates, NoFault, table, spider,
       handles
  <2>2. CASE AvailablePermits # 0
    <3>1. PICK rows \in SUBSET Jobs : batch' = rows /\ toMark' = rows
      BY <1>7, <2>2, Zenon DEF FetchNewJobRows
    <3>2. /\ first' = FALSE /\ loop' = "dispatch" /\ NoFault
          /\ UNCHANGED <<recovering, table, spider, handles>>
      BY <1>7, <2>2, Zenon DEF FetchNewJobRows
    <3> QED
      BY <3>1, <3>2, Zenon DEF TypeOK, LoopStates, NoFault, table, spider, handles
  <2> QED
    BY <2>1, <2>2
<1>8. ASSUME DispatchDone
      PROVE  TypeOK'
  BY <1>8, Zenon DEF DispatchDone, TypeOK, LoopStates, NoFault, table, spider, handles
<1>9. ASSUME MarkJobsDispatched
      PROVE  TypeOK'
  BY <1>9, Zenon DEF MarkJobsDispatched, TypeOK, LoopStates, NoFault, spider, handles
<1>10. ASSUME NEW j \in Jobs, DispatchInvalidJob(j)
      PROVE  TypeOK'
  BY <1>10 DEF DispatchInvalidJob, TypeOK, Statuses, Fault, NoFault, spider, handles
<1>11. ASSUME NEW j \in Jobs, DispatchUnsupportedJob(j)
      PROVE  TypeOK'
  BY <1>11, Zenon DEF DispatchUnsupportedJob, TypeOK, NoFault, table, spider, handles
<1>12. ASSUME NEW h \in HandleIds, NEW r \in Jobs \X SpiderIds, RecoverJob(h, r)
      PROVE  TypeOK'
  BY <1>12, Zenon DEF RecoverJob, SpawnHandle, TypeOK, HandleStates, NoFault, table,
     spider
<1>13. ASSUME NEW h \in HandleIds, NEW j \in Jobs, DispatchJob(h, j)
      PROVE  TypeOK'
  BY <1>13, Zenon DEF DispatchJob, SpawnHandle, TypeOK, HandleStates, NoFault, table,
     spider
<1>14. ASSUME Crash
      PROVE  TypeOK'
  BY <1>14 DEF Crash, TypeOK, LoopStates, HandleStates, Fault, table, spider
<1>15. ASSUME NEW h \in HandleIds, PrepareTaskInputs(h)
      PROVE  TypeOK'
  BY <1>15, Zenon DEF PrepareTaskInputs, Goto, TypeOK, HandleStates, NoFault, table,
     spider, coord
<1>16. ASSUME NEW h \in HandleIds, NEW s \in SpiderIds, SubmitToSpider(h, s)
      PROVE  TypeOK'
  BY <1>16, Zenon DEF SubmitToSpider, Register, TypeOK, HandleStates, SpiderStates,
     NoFault, table, coord
<1>17. ASSUME NEW h \in HandleIds, SubmitFails(h)
      PROVE  TypeOK'
  BY <1>17 DEF SubmitFails, Register, Goto, TypeOK, HandleStates, SpiderStates, Fault,
     table, spider, coord
<1>18. ASSUME NEW h \in HandleIds, PersistSpiderJobId(h)
      PROVE  TypeOK'
  <2>1. dispatched' \in [Jobs -> BOOLEAN]
    BY <1>18, Zenon DEF PersistSpiderJobId, WriteSpiderId, TypeOK
  <2> QED
    BY <1>18, <2>1, Zenon DEF PersistSpiderJobId, WriteSpiderId, Goto, TypeOK, Statuses,
       HandleStates, NoFault, spider, coord
<1>19. ASSUME NEW h \in HandleIds, PersistFails(h)
      PROVE  TypeOK'
  <2>1. CASE UNCHANGED table
    BY <1>19, <2>1 DEF PersistFails, Goto, TypeOK, HandleStates, Fault, table, spider, coord
  <2>2. CASE WriteSpiderId(hjob[h], hsid[h])
    <3>1. dispatched' \in [Jobs -> BOOLEAN]
      BY <2>2, Zenon DEF WriteSpiderId, TypeOK
    <3> QED
      BY <1>19, <2>2, <3>1
         DEF PersistFails, WriteSpiderId, Goto, TypeOK, Statuses, HandleStates, Fault, spider,
         coord
  <2> QED
    BY <1>19, <2>1, <2>2, Zenon DEF PersistFails
<1>20. ASSUME NEW h \in HandleIds, StartJob(h)
      PROVE  TypeOK'
  BY <1>20, Zenon DEF StartJob, StartSpiderJob, Goto, TypeOK, HandleStates, SpiderStates,
     NoFault, table, coord
<1>21. ASSUME NEW h \in HandleIds, StartFails(h)
      PROVE  TypeOK'
  BY <1>21 DEF StartFails, StartSpiderJob, Goto, TypeOK, HandleStates, SpiderStates,
     Fault, table, spider, coord
<1>22. ASSUME NEW h \in HandleIds, PollTerminalState(h)
      PROVE  TypeOK'
  <2>1. CASE EndHandle(h)
    BY <1>22, <2>1, Zenon DEF PollTerminalState, EndHandle, TypeOK, HandleStates, NoFault,
       table, spider, coord
  <2>2. CASE ~EndHandle(h)
    BY <1>22, <2>2
       DEF PollTerminalState, TypeOK, HandleStates, NoFault, table, spider, coord
  <2> QED
    BY <2>1, <2>2
<1>23. ASSUME NEW h \in HandleIds, PollFails(h)
      PROVE  TypeOK'
  BY <1>23 DEF PollFails, Goto, TypeOK, HandleStates, Fault, table, spider, coord
<1>24. ASSUME NEW h \in HandleIds, CheckJobStatus(h)
      PROVE  TypeOK'
  <2>1. CASE EndHandle(h)
    BY <1>24, <2>1, Zenon DEF CheckJobStatus, EndHandle, TypeOK, HandleStates, NoFault,
       table, spider, coord
  <2>2. CASE Goto(h, "write")
    BY <1>24, <2>2, Zenon DEF CheckJobStatus, Goto, TypeOK, HandleStates, NoFault, table,
       spider, coord
  <2> QED
    BY <1>24, <2>1, <2>2, Zenon DEF CheckJobStatus
<1>25. ASSUME NEW h \in HandleIds, CheckFails(h)
      PROVE  TypeOK'
  BY <1>25 DEF CheckFails, Goto, TypeOK, HandleStates, Fault, table, spider, coord
<1>26. ASSUME NEW h \in HandleIds, WriteOutcome(h)
      PROVE  TypeOK'
  BY <1>26, Zenon DEF WriteOutcome, UpdateJobStatus, EndHandle, TypeOK, Statuses,
     HandleStates, NoFault, spider, coord
<1>27. ASSUME NEW h \in HandleIds, WriteFails(h)
      PROVE  TypeOK'
  BY <1>27 DEF WriteFails, UpdateJobStatus, Goto, TypeOK, Statuses, HandleStates, Fault,
     table, spider, coord
<1>28. ASSUME NEW h \in HandleIds, ReportFailure(h)
      PROVE  TypeOK'
  BY <1>28 DEF ReportFailure, UpdateJobStatus, EndHandle, TypeOK, Statuses, HandleStates,
     Fault, NoFault, table, spider, coord
<1>29. ASSUME NEW s \in SpiderIds, SpiderRunsCommit(s)
      PROVE  TypeOK'
  BY <1>29, Zenon DEF SpiderRunsCommit, TypeOK, CommitStates, NoFault, table, coord,
     handles
<1>30. ASSUME NEW s \in SpiderIds, CommitPublishes(s)
      PROVE  TypeOK'
  BY <1>30 DEF CommitPublishes, CommitTransaction, TypeOK, Statuses, CommitStates,
     NoFault, coord, handles
<1>31. ASSUME NEW s \in SpiderIds, CommitAlreadyDone(s)
      PROVE  TypeOK'
  BY <1>31, Zenon DEF CommitAlreadyDone, TypeOK, CommitStates, NoFault, table, coord,
     handles
<1>32. ASSUME NEW s \in SpiderIds, CommitRefuses(s)
      PROVE  TypeOK'
  BY <1>32, Zenon DEF CommitRefuses, TypeOK, CommitStates, NoFault, table, coord, handles
<1>33. ASSUME NEW s \in SpiderIds, CommitFails(s)
      PROVE  TypeOK'
  BY <1>33 DEF CommitFails, CommitTransaction, TypeOK, Statuses, CommitStates, Fault,
     table, coord, handles
<1>34. ASSUME NEW s \in SpiderIds, SpiderJobSucceeds(s)
      PROVE  TypeOK'
  BY <1>34, Zenon DEF SpiderJobSucceeds, TypeOK, SpiderStates, NoFault, table, coord,
     handles
<1>35. ASSUME NEW s \in SpiderIds, SpiderJobEnds(s)
      PROVE  TypeOK'
  BY <1>35 DEF SpiderJobEnds, TypeOK, SpiderStates, NoFault, table, coord, handles
<1>36. CASE UNCHANGED vars
  BY <1>36, Zenon DEF TypeOK, vars, table, spider, coord, handles
<1> QED
  BY <1>1, <1>2, <1>3, <1>4, <1>5, <1>6, <1>7, <1>8, <1>9, <1>10, <1>11, <1>12, <1>13,
     <1>14, <1>15, <1>16, <1>17, <1>18, <1>19, <1>20, <1>21, <1>22, <1>23, <1>24, <1>25,
     <1>26, <1>27, <1>28, <1>29, <1>30, <1>31, <1>32, <1>33, <1>34, <1>35, <1>36 DEF Next,
     Client, LoopStep, HandleStep, HandleFault, SpiderStep

(***************************************************************************)
(* The invariant                                                           *)
(***************************************************************************)

\* The invariant holds when the coordinator first starts.
LEMMA InitInv == Init => IInv
<1> SUFFICES ASSUME Init PROVE IInv
  OBVIOUS
<1>1. TypeOK
  BY Zenon DEF Init, TypeOK, Statuses, SpiderStates, CommitStates, LoopStates,
     HandleStates
<1>2. LoopInv /\ BatchInv /\ RecoverInv
  BY Zenon DEF Init, LoopInv, BatchInv, RecoverInv
<1>3. HandleInv /\ SingleDriver
  BY Zenon DEF Init, HandleInv, SingleDriver, Live
<1>4. TableInv /\ SpiderInv
  BY DEF Init, TableInv, SpiderInv
<1> QED
  BY <1>1, <1>2, <1>3, <1>4, Zenon DEF IInv

\* The position of the poll loop is all that LoopInv depends on.
LEMMA LoopFrame ==
    ASSUME LoopInv, UNCHANGED <<loop, hpc, first, recovering, batch, toMark>>
    PROVE  LoopInv'
  BY Zenon DEF LoopInv

\* A step that touches neither the batch, the rows nor the handles keeps BatchInv.
LEMMA BatchFrame ==
    ASSUME BatchInv, UNCHANGED <<batch, kind, status, hpc, hjob>>
    PROVE  BatchInv'
  BY Zenon DEF BatchInv, Live

\* A step that touches neither the recovery set, the rows nor the handles keeps RecoverInv.
LEMMA RecoverFrame ==
    ASSUME RecoverInv, UNCHANGED <<recovering, status, spider_id, hpc, hjob>>
    PROVE  RecoverInv'
  BY Zenon DEF RecoverInv, Live

\* A step that touches no handle and nothing a handle relies on keeps HandleInv.
LEMMA HandleFrame ==
    ASSUME HandleInv, UNCHANGED <<hpc, hjob, kind, status, first, dispatched, toMark, hsid, sjob, sstate, spider_id, hout>>
    PROVE  HandleInv'
  BY Zenon DEF HandleInv, Live

\* Only steps that start, end or reassign a handle can disturb SingleDriver.
LEMMA SingleDriverFrame ==
    ASSUME SingleDriver, UNCHANGED <<hpc, hjob>>
    PROVE  SingleDriver'
  BY Zenon DEF SingleDriver, Live

\* A step that touches neither the rows nor the Spider jobs keeps TableInv.
LEMMA TableFrame ==
    ASSUME TableInv, UNCHANGED <<spider_id, kind, status, sjob, sstate, dispatched, inserted>>
    PROVE  TableInv'
  BY Zenon DEF TableInv

\* A step that touches neither the Spider jobs nor the rows they name keeps SpiderInv.
LEMMA SpiderFrame ==
    ASSUME SpiderInv, UNCHANGED <<inserted, sjob, spider_id, status, sstate>>
    PROVE  SpiderInv'
  BY Zenon DEF SpiderInv

\* Every step keeps the invariant; one case per action.
LEMMA InvInductive == IInv /\ [Next]_vars => IInv'
<1> SUFFICES ASSUME IInv, [Next]_vars PROVE IInv'
  OBVIOUS
<1>0. TypeOK'
  BY TypeInductive, Zenon DEF IInv
<1>1. ASSUME NEW j \in Jobs, InsertJob(j)
      PROVE  IInv'
  <2>1. BatchInv'
    BY <1>1, Zenon DEF InsertJob, IInv, TypeOK, BatchInv, Live, coord, handles
  <2>2. RecoverInv'
    BY <1>1 DEF InsertJob, IInv, TypeOK, RecoverInv, Live, coord, handles
  <2>3. HandleInv'
    BY <1>1 DEF InsertJob, IInv, TypeOK, HandleInv, Live, spider, coord, handles
  <2>4. TableInv'
    BY <1>1 DEF InsertJob, IInv, TypeOK, TableInv, spider
  <2>5. SpiderInv'
    BY <1>1, Zenon DEF InsertJob, IInv, TypeOK, SpiderInv, spider, Terminal
  <2>6. LoopInv' /\ SingleDriver'
    BY <1>1, LoopFrame, SingleDriverFrame, Zenon DEF InsertJob, IInv, spider, coord,
       handles
  <2> QED
    BY <1>0, <2>1, <2>2, <2>3, <2>4, <2>5, <2>6, Zenon DEF IInv
<1>2. ASSUME NEW j \in Jobs, LegacyScheduleJob(j)
      PROVE  IInv'
  <2>1. BatchInv'
    BY <1>2, Zenon DEF LegacyScheduleJob, IInv, TypeOK, BatchInv, Live, coord, handles
  <2>2. RecoverInv'
    BY <1>2 DEF LegacyScheduleJob, IInv, TypeOK, RecoverInv, Live, coord, handles
  <2>3. HandleInv'
    BY <1>2, Zenon DEF LegacyScheduleJob, IInv, TypeOK, HandleInv, Live, spider, coord,
       handles
  <2>4. TableInv'
    BY <1>2 DEF LegacyScheduleJob, IInv, TypeOK, TableInv, spider
  <2>5. SpiderInv'
    BY <1>2, Zenon DEF LegacyScheduleJob, IInv, TypeOK, SpiderInv, spider, Terminal
  <2>6. LoopInv' /\ SingleDriver'
    BY <1>2, LoopFrame, SingleDriverFrame, Zenon DEF LegacyScheduleJob, IInv, spider,
       coord, handles
  <2> QED
    BY <1>0, <2>1, <2>2, <2>3, <2>4, <2>5, <2>6, Zenon DEF IInv
<1>3. ASSUME NEW j \in Jobs, LegacyFinishJob(j)
      PROVE  IInv'
  <2>1. BatchInv'
    BY <1>3, Zenon DEF LegacyFinishJob, IInv, TypeOK, BatchInv, Live, coord, handles
  <2>2. RecoverInv'
    BY <1>3, NullAssumption DEF LegacyFinishJob, IInv, TypeOK, RecoverInv, TableInv, Live,
       coord, handles
  <2>3. HandleInv'
    BY <1>3 DEF LegacyFinishJob, IInv, TypeOK, HandleInv, Live, spider, coord, handles
  <2>4. TableInv'
    BY <1>3 DEF LegacyFinishJob, IInv, TypeOK, TableInv, spider
  <2>5. SpiderInv'
    BY <1>3, Zenon DEF LegacyFinishJob, IInv, TypeOK, SpiderInv, spider, Terminal
  <2>6. LoopInv' /\ SingleDriver'
    BY <1>3, LoopFrame, SingleDriverFrame, Zenon DEF LegacyFinishJob, IInv, spider, coord,
       handles
  <2> QED
    BY <1>0, <2>1, <2>2, <2>3, <2>4, <2>5, <2>6, Zenon DEF IInv
<1>4. ASSUME LegacyKillHangingJobs
      PROVE  IInv'
  <2>1. BatchInv'
    BY <1>4, Zenon DEF LegacyKillHangingJobs, IInv, TypeOK, BatchInv, Live, coord, handles
  <2>2. RecoverInv'
    BY <1>4, NullAssumption DEF LegacyKillHangingJobs, IInv, TypeOK, RecoverInv, Live,
       coord, handles
  <2>3. HandleInv'
    BY <1>4, NullAssumption DEF LegacyKillHangingJobs, IInv, TypeOK, HandleInv, Live,
       spider, coord, handles
  <2>4. TableInv'
    BY <1>4, Zenon DEF LegacyKillHangingJobs, IInv, TypeOK, TableInv, spider
  <2>5. SpiderInv'
    BY <1>4, NullAssumption DEF LegacyKillHangingJobs, IInv, TypeOK, SpiderInv, spider
  <2>6. LoopInv' /\ SingleDriver'
    BY <1>4, LoopFrame, SingleDriverFrame, Zenon DEF LegacyKillHangingJobs, IInv, spider,
       coord, handles
  <2> QED
    BY <1>0, <2>1, <2>2, <2>3, <2>4, <2>5, <2>6, Zenon DEF IInv
<1>5. ASSUME Boot
      PROVE  IInv'
  <2>1. LoopInv'
    BY <1>5, Zenon DEF Boot, SubmittedRunningJobs, IInv, TypeOK, LoopInv
  <2>2. RecoverInv'
    BY <1>5, Zenon DEF Boot, SubmittedRunningJobs, IInv, TypeOK, RecoverInv, LoopInv,
       Live, table, handles
  <2>3. HandleInv'
    BY <1>5, Zenon DEF Boot, SubmittedRunningJobs, IInv, TypeOK, HandleInv, LoopInv, Live,
       handles
  <2>4. BatchInv' /\ SingleDriver' /\ TableInv' /\ SpiderInv'
    BY <1>5, BatchFrame, SingleDriverFrame, TableFrame, SpiderFrame, Zenon DEF Boot, IInv,
       table, spider, handles
  <2> QED
    BY <1>0, <2>1, <2>2, <2>3, <2>4, Zenon DEF IInv
<1>6. ASSUME RecoveryDone
      PROVE  IInv'
  <2>1. LoopInv'
    BY <1>6, Zenon DEF RecoveryDone, IInv, TypeOK, LoopInv
  <2>2. BatchInv' /\ RecoverInv' /\ HandleInv' /\ SingleDriver' /\ TableInv' /\ SpiderInv'
    BY <1>6, BatchFrame, RecoverFrame, HandleFrame, SingleDriverFrame, TableFrame,
       SpiderFrame, Zenon DEF RecoveryDone, IInv, table, spider, handles
  <2> QED
    BY <1>0, <2>1, <2>2, Zenon DEF IInv
<1>7. ASSUME FetchNewJobRows
      PROVE  IInv'
  <2>1. LoopInv'
    BY <1>7, Zenon DEF FetchNewJobRows, IsFetchResult, IsLimited, NewJobs, RecoverySet,
       IInv, TypeOK, LoopInv
  <2>2. BatchInv'
    BY <1>7 DEF FetchNewJobRows, IsFetchResult, IsLimited, NewJobs, RecoverySet, IInv,
       TypeOK, BatchInv, LoopInv, HandleInv, Live, table, handles
  <2>3. HandleInv'
    BY <1>7, Zenon DEF FetchNewJobRows, IsFetchResult, IsLimited, NewJobs, RecoverySet,
       IInv, TypeOK, HandleInv, LoopInv, Live, table, spider, handles
  <2>4. RecoverInv' /\ SingleDriver' /\ TableInv' /\ SpiderInv'
    BY <1>7, RecoverFrame, SingleDriverFrame, TableFrame, SpiderFrame, Zenon
       DEF FetchNewJobRows, IInv, table, spider, handles
  <2> QED
    BY <1>0, <2>1, <2>2, <2>3, <2>4, Zenon DEF IInv
<1>8. ASSUME DispatchDone
      PROVE  IInv'
  <2>1. LoopInv'
    BY <1>8, Zenon DEF DispatchDone, IInv, TypeOK, LoopInv
  <2>2. BatchInv' /\ RecoverInv' /\ HandleInv' /\ SingleDriver' /\ TableInv' /\ SpiderInv'
    BY <1>8, BatchFrame, RecoverFrame, HandleFrame, SingleDriverFrame, TableFrame,
       SpiderFrame, Zenon DEF DispatchDone, IInv, table, spider, handles
  <2> QED
    BY <1>0, <2>1, <2>2, Zenon DEF IInv
<1>9. ASSUME MarkJobsDispatched
      PROVE  IInv'
  <2>1. LoopInv'
    BY <1>9, Zenon DEF MarkJobsDispatched, IInv, TypeOK, LoopInv
  <2>2. HandleInv'
    <3>1. \A j \in Jobs : dispatched'[j] <=> dispatched[j] \/ j \in toMark
      BY <1>9, Zenon DEF MarkJobsDispatched
    <3> QED
      BY <1>9, <3>1, Zenon DEF MarkJobsDispatched, IInv, HandleInv, LoopInv, Live, spider,
         handles
  <2>3. TableInv'
    BY <1>9, Zenon DEF MarkJobsDispatched, IInv, TableInv, TypeOK, spider
  <2>4. BatchInv' /\ RecoverInv' /\ SingleDriver' /\ SpiderInv'
    BY <1>9, BatchFrame, RecoverFrame, SingleDriverFrame, SpiderFrame, Zenon
       DEF MarkJobsDispatched, IInv, spider, handles
  <2> QED
    BY <1>0, <2>1, <2>2, <2>3, <2>4, Zenon DEF IInv
<1>10. ASSUME NEW j \in Jobs, DispatchInvalidJob(j)
      PROVE  IInv'
  <2>1. LoopInv'
    BY <1>10, Zenon DEF DispatchInvalidJob, IsNextInBatch, IInv, TypeOK, LoopInv
  <2>2. BatchInv'
    BY <1>10, Zenon DEF DispatchInvalidJob, IsNextInBatch, IInv, BatchInv, TypeOK, Live,
       handles
  <2>3. RecoverInv'
    BY <1>10, Zenon DEF DispatchInvalidJob, IsNextInBatch, IInv, TypeOK, RecoverInv,
       LoopInv
  <2>4. HandleInv'
    BY <1>10 DEF DispatchInvalidJob, IsNextInBatch, IInv, HandleInv, TypeOK, Live, spider,
       handles
  <2>5. TableInv'
    BY <1>10 DEF DispatchInvalidJob, IsNextInBatch, IInv, TableInv, TypeOK, spider
  <2>6. SpiderInv'
    BY <1>10 DEF DispatchInvalidJob, IsNextInBatch, IInv, SpiderInv, TypeOK, spider,
       Terminal
  <2>7. SingleDriver'
    BY <1>10, SingleDriverFrame, Zenon DEF DispatchInvalidJob, IInv, spider, handles
  <2> QED
    BY <1>0, <2>1, <2>2, <2>3, <2>4, <2>5, <2>6, <2>7, Zenon DEF IInv
<1>11. ASSUME NEW j \in Jobs, DispatchUnsupportedJob(j)
      PROVE  IInv'
  <2>1. LoopInv'
    BY <1>11, Zenon DEF DispatchUnsupportedJob, IsNextInBatch, IInv, TypeOK, LoopInv
  <2>2. BatchInv'
    BY <1>11, Zenon DEF DispatchUnsupportedJob, IsNextInBatch, IInv, TypeOK, BatchInv,
       Live, table, handles
  <2>3. RecoverInv' /\ HandleInv' /\ SingleDriver' /\ TableInv' /\ SpiderInv'
    BY <1>11, RecoverFrame, HandleFrame, SingleDriverFrame, TableFrame, SpiderFrame, Zenon
       DEF DispatchUnsupportedJob, IInv, table, spider, handles
  <2> QED
    BY <1>0, <2>1, <2>2, <2>3, Zenon DEF IInv
<1>12. ASSUME NEW h \in HandleIds, NEW r \in Jobs \X SpiderIds, RecoverJob(h, r)
      PROVE  IInv'
  <2>1. LoopInv'
    BY <1>12, Zenon DEF RecoverJob, SpawnHandle, IInv, TypeOK, LoopInv
  <2>2. BatchInv'
    BY <1>12, Zenon DEF RecoverJob, SpawnHandle, IInv, TypeOK, BatchInv, LoopInv
  <2>3. RecoverInv'
    BY <1>12 DEF RecoverJob, SpawnHandle, IInv, RecoverInv, TypeOK, Live, table
  <2>4. HandleInv'
    BY <1>12, NullAssumption DEF RecoverJob, SpawnHandle, IInv, HandleInv, TypeOK,
       RecoverInv, TableInv, Live, table, spider
  <2>5. SingleDriver'
    BY <1>12 DEF RecoverJob, SpawnHandle, IInv, SingleDriver, TypeOK, RecoverInv, Live
  <2>6. TableInv' /\ SpiderInv'
    BY <1>12, TableFrame, SpiderFrame, Zenon DEF RecoverJob, IInv, table, spider
  <2> QED
    BY <1>0, <2>1, <2>2, <2>3, <2>4, <2>5, <2>6, Zenon DEF IInv
<1>13. ASSUME NEW h \in HandleIds, NEW j \in Jobs, DispatchJob(h, j)
      PROVE  IInv'
  <2>1. LoopInv'
    BY <1>13, Zenon DEF DispatchJob, IsNextInBatch, SpawnHandle, IInv, TypeOK, LoopInv
  <2>2. BatchInv'
    BY <1>13, Zenon DEF DispatchJob, IsNextInBatch, SpawnHandle, IInv, BatchInv, TypeOK,
       Live, table
  <2>3. RecoverInv'
    BY <1>13, Zenon DEF DispatchJob, IsNextInBatch, SpawnHandle, IInv, TypeOK, RecoverInv,
       LoopInv
  <2>4. HandleInv'
    BY <1>13 DEF DispatchJob, IsNextInBatch, SpawnHandle, IInv, HandleInv, TypeOK,
       LoopInv, BatchInv, Live, table, spider
  <2>5. SingleDriver'
    BY <1>13 DEF DispatchJob, IsNextInBatch, SpawnHandle, IInv, SingleDriver, TypeOK,
       BatchInv, Live
  <2>6. TableInv' /\ SpiderInv'
    BY <1>13, TableFrame, SpiderFrame, Zenon DEF DispatchJob, IInv, table, spider
  <2> QED
    BY <1>0, <2>1, <2>2, <2>3, <2>4, <2>5, <2>6, Zenon DEF IInv
<1>14. ASSUME Crash
      PROVE  IInv'
  <2>1. LoopInv'
    BY <1>14, Zenon DEF Crash, IInv, TypeOK, LoopInv
  <2>2. BatchInv'
    BY <1>14, Zenon DEF Crash, IInv, TypeOK, BatchInv
  <2>3. RecoverInv'
    BY <1>14, Zenon DEF Crash, IInv, TypeOK, RecoverInv
  <2>4. HandleInv'
    BY <1>14, Zenon DEF Crash, IInv, TypeOK, HandleInv, Live
  <2>5. SingleDriver'
    BY <1>14, Zenon DEF Crash, IInv, TypeOK, SingleDriver, Live
  <2>6. TableInv' /\ SpiderInv'
    BY <1>14, TableFrame, SpiderFrame, Zenon DEF Crash, IInv, table, spider
  <2> QED
    BY <1>0, <2>1, <2>2, <2>3, <2>4, <2>5, <2>6, Zenon DEF IInv
<1>15. ASSUME NEW h \in HandleIds, PrepareTaskInputs(h)
      PROVE  IInv'
  <2>1. LoopInv'
    BY <1>15, Zenon DEF PrepareTaskInputs, Goto, IInv, TypeOK, LoopInv, coord
  <2>2. BatchInv'
    BY <1>15 DEF PrepareTaskInputs, Goto, IInv, BatchInv, TypeOK, Live, table, coord
  <2>3. RecoverInv'
    BY <1>15 DEF PrepareTaskInputs, Goto, IInv, RecoverInv, TypeOK, Live, table, coord
  <2>4. HandleInv'
    BY <1>15 DEF PrepareTaskInputs, Goto, IInv, HandleInv, TypeOK, Live, table, spider,
       coord
  <2>5. SingleDriver'
    BY <1>15, Zenon DEF PrepareTaskInputs, Goto, IInv, SingleDriver, TypeOK, Live
  <2>6. TableInv' /\ SpiderInv'
    BY <1>15, TableFrame, SpiderFrame, Zenon DEF PrepareTaskInputs, IInv, table, spider,
       coord
  <2> QED
    BY <1>0, <2>1, <2>2, <2>3, <2>4, <2>5, <2>6, Zenon DEF IInv
<1>16. ASSUME NEW h \in HandleIds, NEW s \in SpiderIds, SubmitToSpider(h, s)
      PROVE  IInv'
  <2>1. LoopInv'
    BY <1>16, Zenon DEF SubmitToSpider, Register, IInv, TypeOK, LoopInv, coord
  <2>2. BatchInv'
    BY <1>16, Zenon DEF SubmitToSpider, Register, IInv, TypeOK, BatchInv, Live, table,
       coord
  <2>3. RecoverInv'
    BY <1>16 DEF SubmitToSpider, Register, IInv, TypeOK, RecoverInv, Live, table, coord
  <2>4. HandleInv'
    BY <1>16 DEF SubmitToSpider, Register, IInv, HandleInv, TypeOK, Live, table, coord
  <2>5. SingleDriver'
    BY <1>16, Zenon DEF SubmitToSpider, Register, IInv, TypeOK, SingleDriver, Live
  <2>6. TableInv'
    BY <1>16 DEF SubmitToSpider, Register, IInv, TypeOK, TableInv, table
  <2>7. SpiderInv'
    BY <1>16, NullAssumption DEF SubmitToSpider, Register, IInv, TypeOK, SpiderInv,
       TableInv, table
  <2> QED
    BY <1>0, <2>1, <2>2, <2>3, <2>4, <2>5, <2>6, <2>7, Zenon DEF IInv
<1>17. ASSUME NEW h \in HandleIds, SubmitFails(h)
      PROVE  IInv'
  <2>1. LoopInv'
    BY <1>17, Zenon DEF SubmitFails, Register, Goto, IInv, TypeOK, LoopInv, coord
  <2>2. BatchInv'
    BY <1>17, Zenon DEF SubmitFails, Register, Goto, IInv, TypeOK, BatchInv, Live, table,
       coord
  <2>3. RecoverInv'
    BY <1>17 DEF SubmitFails, Register, Goto, IInv, TypeOK, RecoverInv, Live, table, coord
  <2>4. HandleInv'
    BY <1>17 DEF SubmitFails, Register, Goto, IInv, HandleInv, TypeOK, Live, table,
       spider, coord
  <2>5. SingleDriver'
    BY <1>17, Zenon DEF SubmitFails, Register, Goto, IInv, TypeOK, SingleDriver, Live
  <2>6. TableInv'
    BY <1>17 DEF SubmitFails, Register, Goto, IInv, TableInv, TypeOK, table, spider
  <2>7. SpiderInv'
    BY <1>17, NullAssumption DEF SubmitFails, Register, Goto, IInv, SpiderInv, TypeOK,
       TableInv, table, spider
  <2> QED
    BY <1>0, <2>1, <2>2, <2>3, <2>4, <2>5, <2>6, <2>7, Zenon DEF IInv
<1>18. ASSUME NEW h \in HandleIds, PersistSpiderJobId(h)
      PROVE  IInv'
  <2>1. LoopInv'
    BY <1>18, Zenon DEF PersistSpiderJobId, WriteSpiderId, Goto, IInv, TypeOK, LoopInv,
       coord
  <2>2. BatchInv'
    BY <1>18, Zenon DEF PersistSpiderJobId, WriteSpiderId, Goto, IInv, TypeOK, BatchInv,
       Live, coord
  <2>3. RecoverInv'
    BY <1>18 DEF PersistSpiderJobId, WriteSpiderId, Goto, IInv, TypeOK, RecoverInv, Live,
       coord
  <2>4. HandleInv'
    BY <1>18 DEF PersistSpiderJobId, WriteSpiderId, Goto, IInv, HandleInv, TypeOK,
       SingleDriver, Live, spider, coord
  <2>5. SingleDriver'
    BY <1>18, Zenon DEF PersistSpiderJobId, WriteSpiderId, Goto, IInv, TypeOK,
       SingleDriver, Live
  <2>6. TableInv'
    BY <1>18, NullAssumption DEF PersistSpiderJobId, WriteSpiderId, Goto, IInv, TableInv,
       TypeOK, HandleInv, Live, spider
  <2>7. SpiderInv'
    BY <1>18, NullAssumption DEF PersistSpiderJobId, WriteSpiderId, Goto, IInv, TypeOK,
       SpiderInv, HandleInv, TableInv, Live, spider
  <2> QED
    BY <1>0, <2>1, <2>2, <2>3, <2>4, <2>5, <2>6, <2>7, Zenon DEF IInv
<1>19. ASSUME NEW h \in HandleIds, PersistFails(h)
      PROVE  IInv'
  <2>1. LoopInv'
    BY <1>19, Zenon DEF PersistFails, WriteSpiderId, Goto, IInv, TypeOK, LoopInv, coord
  <2>2. BatchInv'
    BY <1>19 DEF PersistFails, WriteSpiderId, Goto, IInv, BatchInv, TypeOK, Live, table,
       coord
  <2>3. RecoverInv'
    BY <1>19 DEF PersistFails, WriteSpiderId, Goto, IInv, RecoverInv, TypeOK, Live, table,
       coord
  <2>4. HandleInv'
    BY <1>19 DEF PersistFails, WriteSpiderId, Goto, IInv, HandleInv, TypeOK, SingleDriver,
       Live, table, spider, coord
  <2>5. SingleDriver'
    BY <1>19, Zenon DEF PersistFails, WriteSpiderId, Goto, IInv, TypeOK, SingleDriver,
       Live
  <2>6. TableInv'
    BY <1>19, NullAssumption DEF PersistFails, WriteSpiderId, Goto, IInv, TableInv,
       TypeOK, HandleInv, Live, table, spider
  <2>7. SpiderInv'
    BY <1>19, NullAssumption DEF PersistFails, WriteSpiderId, Goto, IInv, SpiderInv,
       TypeOK, HandleInv, TableInv, Live, table, spider
  <2> QED
    BY <1>0, <2>1, <2>2, <2>3, <2>4, <2>5, <2>6, <2>7, Zenon DEF IInv
<1>20. ASSUME NEW h \in HandleIds, StartJob(h)
      PROVE  IInv'
  <2>1. LoopInv'
    BY <1>20, Zenon DEF StartJob, StartSpiderJob, Goto, IInv, TypeOK, LoopInv, coord
  <2>2. BatchInv'
    BY <1>20, Zenon DEF StartJob, StartSpiderJob, Goto, IInv, TypeOK, BatchInv, Live,
       table, coord
  <2>3. RecoverInv'
    BY <1>20 DEF StartJob, StartSpiderJob, Goto, IInv, TypeOK, RecoverInv, Live, table,
       coord
  <2>4. HandleInv'
    BY <1>20 DEF StartJob, StartSpiderJob, Goto, IInv, TypeOK, HandleInv, Live, table,
       coord
  <2>5. SingleDriver'
    BY <1>20, Zenon DEF StartJob, StartSpiderJob, Goto, IInv, TypeOK, SingleDriver, Live
  <2>6. TableInv'
    BY <1>20 DEF StartJob, StartSpiderJob, Goto, IInv, TypeOK, TableInv, table
  <2>7. SpiderInv'
    BY <1>20 DEF StartJob, StartSpiderJob, Goto, IInv, TypeOK, SpiderInv, HandleInv,
       TableInv, Live, table
  <2> QED
    BY <1>0, <2>1, <2>2, <2>3, <2>4, <2>5, <2>6, <2>7, Zenon DEF IInv
<1>21. ASSUME NEW h \in HandleIds, StartFails(h)
      PROVE  IInv'
  <2>1. LoopInv'
    BY <1>21, Zenon DEF StartFails, StartSpiderJob, Goto, IInv, TypeOK, LoopInv, coord
  <2>2. BatchInv'
    BY <1>21, Zenon DEF StartFails, StartSpiderJob, Goto, IInv, TypeOK, BatchInv, Live,
       table, coord
  <2>3. RecoverInv'
    BY <1>21 DEF StartFails, StartSpiderJob, Goto, IInv, TypeOK, RecoverInv, Live, table,
       coord
  <2>4. HandleInv'
    BY <1>21 DEF StartFails, StartSpiderJob, Goto, IInv, HandleInv, TypeOK, Live, table,
       spider, coord
  <2>5. SingleDriver'
    BY <1>21, Zenon DEF StartFails, StartSpiderJob, Goto, IInv, TypeOK, SingleDriver, Live
  <2>6. TableInv'
    BY <1>21 DEF StartFails, StartSpiderJob, Goto, IInv, TableInv, TypeOK, table, spider
  <2>7. SpiderInv'
    BY <1>21 DEF StartFails, StartSpiderJob, Goto, IInv, SpiderInv, TypeOK, HandleInv,
       TableInv, Live, table, spider
  <2> QED
    BY <1>0, <2>1, <2>2, <2>3, <2>4, <2>5, <2>6, <2>7, Zenon DEF IInv
<1>22. ASSUME NEW h \in HandleIds, PollTerminalState(h)
      PROVE  IInv'
  <2>1. LoopInv'
    BY <1>22, Zenon DEF PollTerminalState, EndHandle, IInv, TypeOK, LoopInv, coord
  <2>2. BatchInv'
    BY <1>22 DEF PollTerminalState, EndHandle, IInv, BatchInv, TypeOK, Live, table, coord
  <2>3. RecoverInv'
    BY <1>22 DEF PollTerminalState, EndHandle, IInv, RecoverInv, TypeOK, Live, table,
       coord
  <2>4. HandleInv'
    BY <1>22 DEF PollTerminalState, EndHandle, IInv, HandleInv, TypeOK, Live, table,
       spider, coord
  <2>5. SingleDriver'
    BY <1>22 DEF PollTerminalState, EndHandle, IInv, SingleDriver, TypeOK, Live
  <2>6. TableInv' /\ SpiderInv'
    BY <1>22, TableFrame, SpiderFrame, Zenon DEF PollTerminalState, IInv, table, spider,
       coord
  <2> QED
    BY <1>0, <2>1, <2>2, <2>3, <2>4, <2>5, <2>6, Zenon DEF IInv
<1>23. ASSUME NEW h \in HandleIds, PollFails(h)
      PROVE  IInv'
  <2>1. LoopInv'
    BY <1>23, Zenon DEF PollFails, Goto, IInv, TypeOK, LoopInv, coord
  <2>2. BatchInv'
    BY <1>23, Zenon DEF PollFails, Goto, IInv, TypeOK, BatchInv, Live, table, coord
  <2>3. RecoverInv'
    BY <1>23 DEF PollFails, Goto, IInv, TypeOK, RecoverInv, Live, table, coord
  <2>4. HandleInv'
    BY <1>23 DEF PollFails, Goto, IInv, TypeOK, HandleInv, Live, table, spider, coord
  <2>5. SingleDriver'
    BY <1>23, Zenon DEF PollFails, Goto, IInv, TypeOK, SingleDriver, Live
  <2>6. TableInv' /\ SpiderInv'
    BY <1>23, TableFrame, SpiderFrame, Zenon DEF PollFails, IInv, table, spider, coord
  <2> QED
    BY <1>0, <2>1, <2>2, <2>3, <2>4, <2>5, <2>6, Zenon DEF IInv
<1>24. ASSUME NEW h \in HandleIds, CheckJobStatus(h)
      PROVE  IInv'
  <2>1. LoopInv'
    BY <1>24, Zenon DEF CheckJobStatus, EndHandle, Goto, IInv, TypeOK, LoopInv, coord
  <2>2. BatchInv'
    BY <1>24 DEF CheckJobStatus, EndHandle, Goto, IInv, BatchInv, TypeOK, Live, table,
       coord
  <2>3. RecoverInv'
    BY <1>24 DEF CheckJobStatus, EndHandle, Goto, IInv, RecoverInv, TypeOK, Live, table,
       coord
  <2>4. HandleInv'
    BY <1>24 DEF CheckJobStatus, EndHandle, Goto, IInv, HandleInv, TypeOK, Live, table,
       spider, coord
  <2>5. SingleDriver'
    BY <1>24 DEF CheckJobStatus, EndHandle, Goto, IInv, SingleDriver, TypeOK, Live
  <2>6. TableInv' /\ SpiderInv'
    BY <1>24, TableFrame, SpiderFrame, Zenon DEF CheckJobStatus, IInv, table, spider,
       coord
  <2> QED
    BY <1>0, <2>1, <2>2, <2>3, <2>4, <2>5, <2>6, Zenon DEF IInv
<1>25. ASSUME NEW h \in HandleIds, CheckFails(h)
      PROVE  IInv'
  <2>1. LoopInv'
    BY <1>25, Zenon DEF CheckFails, Goto, IInv, TypeOK, LoopInv, coord
  <2>2. BatchInv'
    BY <1>25, Zenon DEF CheckFails, Goto, IInv, TypeOK, BatchInv, Live, table, coord
  <2>3. RecoverInv'
    BY <1>25 DEF CheckFails, Goto, IInv, TypeOK, RecoverInv, Live, table, coord
  <2>4. HandleInv'
    BY <1>25 DEF CheckFails, Goto, IInv, TypeOK, HandleInv, Live, table, spider, coord
  <2>5. SingleDriver'
    BY <1>25, Zenon DEF CheckFails, Goto, IInv, TypeOK, SingleDriver, Live
  <2>6. TableInv' /\ SpiderInv'
    BY <1>25, TableFrame, SpiderFrame, Zenon DEF CheckFails, IInv, table, spider, coord
  <2> QED
    BY <1>0, <2>1, <2>2, <2>3, <2>4, <2>5, <2>6, Zenon DEF IInv
<1>26. ASSUME NEW h \in HandleIds, WriteOutcome(h)
      PROVE  IInv'
  <2>1. LoopInv'
    BY <1>26, Zenon DEF WriteOutcome, UpdateJobStatus, EndHandle, IInv, TypeOK, LoopInv,
       coord
  <2>2. BatchInv'
    BY <1>26, NullAssumption, Zenon DEF WriteOutcome, UpdateJobStatus, EndHandle, IInv,
       TypeOK, BatchInv, Live, coord
  <2>3. RecoverInv'
    BY <1>26, NullAssumption DEF WriteOutcome, UpdateJobStatus, EndHandle, IInv, TypeOK,
       RecoverInv, Live, coord
  <2>4. HandleInv'
    BY <1>26 DEF WriteOutcome, UpdateJobStatus, EndHandle, IInv, HandleInv, TypeOK,
       SingleDriver, Live, spider, coord
  <2>5. SingleDriver'
    BY <1>26, NullAssumption DEF WriteOutcome, UpdateJobStatus, EndHandle, IInv, TypeOK,
       SingleDriver, HandleInv, Live
  <2>6. TableInv'
    BY <1>26 DEF WriteOutcome, UpdateJobStatus, EndHandle, IInv, TableInv, TypeOK,
       HandleInv, Live, spider
  <2>7. SpiderInv'
    BY <1>26, Zenon DEF WriteOutcome, UpdateJobStatus, EndHandle, IInv, SpiderInv, TypeOK,
       spider, Terminal
  <2> QED
    BY <1>0, <2>1, <2>2, <2>3, <2>4, <2>5, <2>6, <2>7, Zenon DEF IInv
<1>27. ASSUME NEW h \in HandleIds, WriteFails(h)
      PROVE  IInv'
  <2>1. LoopInv'
    BY <1>27, Zenon DEF WriteFails, UpdateJobStatus, Goto, IInv, TypeOK, LoopInv, coord
  <2>2. BatchInv'
    BY <1>27, Zenon DEF WriteFails, UpdateJobStatus, Goto, IInv, BatchInv, TypeOK, Live,
       table, coord
  <2>3. RecoverInv'
    BY <1>27 DEF WriteFails, UpdateJobStatus, Goto, IInv, RecoverInv, TypeOK, Live, table,
       coord
  <2>4. HandleInv'
    BY <1>27 DEF WriteFails, UpdateJobStatus, Goto, IInv, HandleInv, TypeOK, SingleDriver,
       Live, table, spider, coord
  <2>5. SingleDriver'
    BY <1>27, Zenon DEF WriteFails, UpdateJobStatus, Goto, IInv, TypeOK, SingleDriver,
       Live
  <2>6. TableInv'
    BY <1>27 DEF WriteFails, UpdateJobStatus, Goto, IInv, TableInv, TypeOK, HandleInv,
       Live, table, spider
  <2>7. SpiderInv'
    BY <1>27 DEF WriteFails, UpdateJobStatus, Goto, IInv, SpiderInv, TypeOK, table,
       spider, Terminal
  <2> QED
    BY <1>0, <2>1, <2>2, <2>3, <2>4, <2>5, <2>6, <2>7, Zenon DEF IInv
<1>28. ASSUME NEW h \in HandleIds, ReportFailure(h)
      PROVE  IInv'
  <2>1. LoopInv'
    BY <1>28, Zenon DEF ReportFailure, UpdateJobStatus, EndHandle, IInv, TypeOK, LoopInv,
       coord
  <2>2. BatchInv'
    BY <1>28 DEF ReportFailure, UpdateJobStatus, EndHandle, IInv, BatchInv, TypeOK, Live,
       table, coord
  <2>3. RecoverInv'
    BY <1>28 DEF ReportFailure, UpdateJobStatus, EndHandle, IInv, RecoverInv, TypeOK,
       Live, table, coord
  <2>4. HandleInv'
    BY <1>28 DEF ReportFailure, UpdateJobStatus, EndHandle, IInv, HandleInv, TypeOK,
       SingleDriver, Live, table, spider, coord
  <2>5. SingleDriver'
    BY <1>28, NullAssumption DEF ReportFailure, UpdateJobStatus, EndHandle, IInv, TypeOK,
       SingleDriver, HandleInv, Live
  <2>6. TableInv'
    BY <1>28 DEF ReportFailure, UpdateJobStatus, EndHandle, IInv, TableInv, TypeOK, table,
       spider
  <2>7. SpiderInv'
    BY <1>28, Zenon DEF ReportFailure, UpdateJobStatus, EndHandle, IInv, SpiderInv,
       TypeOK, table, spider, Terminal
  <2> QED
    BY <1>0, <2>1, <2>2, <2>3, <2>4, <2>5, <2>6, <2>7, Zenon DEF IInv
<1>29. ASSUME NEW s \in SpiderIds, SpiderRunsCommit(s)
      PROVE  IInv'
  <2>1. LoopInv' /\ BatchInv' /\ RecoverInv' /\ HandleInv' /\ SingleDriver' /\ TableInv' /\ SpiderInv'
    BY <1>29, LoopFrame, BatchFrame, RecoverFrame, HandleFrame, SingleDriverFrame,
       TableFrame, SpiderFrame, Zenon DEF SpiderRunsCommit, IInv, table, coord, handles
  <2> QED
    BY <1>0, <2>1, Zenon DEF IInv
<1>30. ASSUME NEW s \in SpiderIds, CommitPublishes(s)
      PROVE  IInv'
  <2>1. BatchInv'
    BY <1>30, Zenon DEF CommitPublishes, CommitTransaction, IInv, TypeOK, BatchInv, Live,
       coord, handles
  <2>2. RecoverInv'
    BY <1>30 DEF CommitPublishes, CommitTransaction, IInv, TypeOK, RecoverInv, Live,
       coord, handles
  <2>3. HandleInv'
    BY <1>30 DEF CommitPublishes, CommitTransaction, IInv, TypeOK, HandleInv, Live, coord,
       handles
  <2>4. TableInv'
    BY <1>30 DEF CommitPublishes, CommitTransaction, IInv, TableInv, TypeOK, SpiderInv,
       Terminal
  <2>5. SpiderInv'
    BY <1>30, NullAssumption DEF CommitPublishes, CommitTransaction, IInv, SpiderInv,
       TypeOK, TableInv, Terminal
  <2>6. LoopInv' /\ SingleDriver'
    BY <1>30, LoopFrame, SingleDriverFrame, Zenon DEF CommitPublishes, IInv, coord,
       handles
  <2> QED
    BY <1>0, <2>1, <2>2, <2>3, <2>4, <2>5, <2>6, Zenon DEF IInv
<1>31. ASSUME NEW s \in SpiderIds, CommitAlreadyDone(s)
      PROVE  IInv'
  <2>1. LoopInv' /\ BatchInv' /\ RecoverInv' /\ HandleInv' /\ SingleDriver' /\ TableInv' /\ SpiderInv'
    BY <1>31, LoopFrame, BatchFrame, RecoverFrame, HandleFrame, SingleDriverFrame,
       TableFrame, SpiderFrame, Zenon DEF CommitAlreadyDone, IInv, table, coord, handles
  <2> QED
    BY <1>0, <2>1, Zenon DEF IInv
<1>32. ASSUME NEW s \in SpiderIds, CommitRefuses(s)
      PROVE  IInv'
  <2>1. LoopInv' /\ BatchInv' /\ RecoverInv' /\ HandleInv' /\ SingleDriver' /\ TableInv' /\ SpiderInv'
    BY <1>32, LoopFrame, BatchFrame, RecoverFrame, HandleFrame, SingleDriverFrame,
       TableFrame, SpiderFrame, Zenon DEF CommitRefuses, IInv, table, coord, handles
  <2> QED
    BY <1>0, <2>1, Zenon DEF IInv
<1>33. ASSUME NEW s \in SpiderIds, CommitFails(s)
      PROVE  IInv'
  <2>1. BatchInv'
    BY <1>33, Zenon DEF CommitFails, CommitTransaction, IInv, BatchInv, TypeOK, Live,
       table, coord, handles
  <2>2. RecoverInv'
    BY <1>33 DEF CommitFails, CommitTransaction, IInv, RecoverInv, TypeOK, Live, table,
       coord, handles
  <2>3. HandleInv'
    BY <1>33 DEF CommitFails, CommitTransaction, IInv, HandleInv, TypeOK, Live, table,
       coord, handles
  <2>4. TableInv'
    BY <1>33 DEF CommitFails, CommitTransaction, IInv, TableInv, TypeOK, SpiderInv, table,
       Terminal
  <2>5. SpiderInv'
    BY <1>33, NullAssumption DEF CommitFails, CommitTransaction, IInv, SpiderInv, TypeOK,
       TableInv, table, Terminal
  <2>6. LoopInv' /\ SingleDriver'
    BY <1>33, LoopFrame, SingleDriverFrame, Zenon DEF CommitFails, IInv, table, coord,
       handles
  <2> QED
    BY <1>0, <2>1, <2>2, <2>3, <2>4, <2>5, <2>6, Zenon DEF IInv
<1>34. ASSUME NEW s \in SpiderIds, SpiderJobSucceeds(s)
      PROVE  IInv'
  <2>1. HandleInv'
    BY <1>34, Zenon DEF SpiderJobSucceeds, IInv, TypeOK, HandleInv, Live, table, coord,
       handles
  <2>2. TableInv'
    BY <1>34 DEF SpiderJobSucceeds, IInv, TypeOK, TableInv, table
  <2>3. SpiderInv'
    BY <1>34, Zenon DEF SpiderJobSucceeds, IInv, TypeOK, SpiderInv, table
  <2>4. LoopInv' /\ BatchInv' /\ RecoverInv' /\ SingleDriver'
    BY <1>34, LoopFrame, BatchFrame, RecoverFrame, SingleDriverFrame, Zenon
       DEF SpiderJobSucceeds, IInv, table, coord, handles
  <2> QED
    BY <1>0, <2>1, <2>2, <2>3, <2>4, Zenon DEF IInv
<1>35. ASSUME NEW s \in SpiderIds, SpiderJobEnds(s)
      PROVE  IInv'
  <2>1. HandleInv'
    BY <1>35 DEF SpiderJobEnds, IInv, TypeOK, HandleInv, Live, table, coord, handles
  <2>2. TableInv'
    BY <1>35 DEF SpiderJobEnds, IInv, TypeOK, TableInv, table
  <2>3. SpiderInv'
    BY <1>35, Zenon DEF SpiderJobEnds, IInv, TypeOK, SpiderInv, table
  <2>4. LoopInv' /\ BatchInv' /\ RecoverInv' /\ SingleDriver'
    BY <1>35, LoopFrame, BatchFrame, RecoverFrame, SingleDriverFrame, Zenon
       DEF SpiderJobEnds, IInv, table, coord, handles
  <2> QED
    BY <1>0, <2>1, <2>2, <2>3, <2>4, Zenon DEF IInv
<1>36. CASE UNCHANGED vars
  BY <1>0, <1>36, LoopFrame, BatchFrame, RecoverFrame, HandleFrame, SingleDriverFrame,
     TableFrame, SpiderFrame, Zenon DEF IInv, vars, table, spider, coord, handles
<1> QED
  BY <1>1, <1>2, <1>3, <1>4, <1>5, <1>6, <1>7, <1>8, <1>9, <1>10, <1>11, <1>12, <1>13,
     <1>14, <1>15, <1>16, <1>17, <1>18, <1>19, <1>20, <1>21, <1>22, <1>23, <1>24, <1>25,
     <1>26, <1>27, <1>28, <1>29, <1>30, <1>31, <1>32, <1>33, <1>34, <1>35, <1>36 DEF Next,
     Client, LoopStep, HandleStep, HandleFault, SpiderStep

\* The invariant holds in every reachable state.
LEMMA SpecInv == Spec => []IInv
<1> QED
  BY InitInv, InvInductive, PTL DEF Spec

(***************************************************************************)
(* The theorems                                                            *)
(***************************************************************************)

\* Every variable keeps its type, in every behaviour of the coordinator.
THEOREM TypeCorrect == Spec => []TypeOK
<1>1. IInv => TypeOK
  BY Zenon DEF IInv
<1> QED
  BY <1>1, SpecInv, PTL

\* No job is driven by two handles: the fetch query, the delayed marking of the
\* rows and the recovery at a restart hand each job to one handle at a time.
THEOREM OneDriver == Spec => []SingleDriver
<1>1. IInv => SingleDriver
  BY Zenon DEF IInv
<1> QED
  BY <1>1, SpecInv, PTL

\* The archives of a job are inserted at most once, over all the Spider jobs that
\* are submitted for it and all the attempts of their commit tasks.
THEOREM PublishedOnce == Spec => []PublishedAtMostOnce
<1>1. IInv => PublishedAtMostOnce
  BY DEF IInv, TypeOK, TableInv, SpiderInv, PublishedAtMostOnce
<1> QED
  BY <1>1, SpecInv, PTL

\* A SUCCEEDED job of the coordinator has its archives in the table.
THEOREM SuccessIsPublished == Spec => []SucceededIsPublished
<1>1. IInv => SucceededIsPublished
  BY Zenon DEF IInv, TypeOK, TableInv, SucceededIsPublished
<1> QED
  BY <1>1, SpecInv, PTL

\* The rows of the coordinator's jobs stay in the legal states of coordination.rs.
THEOREM RowsAreLegal == Spec => []LegalStates
<1>1. IInv => LegalStates
  BY Zenon DEF IInv, TypeOK, TableInv, LegalStates
<1> QED
  BY <1>1, SpecInv, PTL

\* Spider runs only jobs whose ID the table holds.
THEOREM NoOrphanRuns == Spec => []StartedIsPersisted
<1>1. IInv => StartedIsPersisted
  BY NullAssumption, Zenon DEF IInv, TypeOK, SpiderInv, StartedIsPersisted
<1> QED
  BY <1>1, SpecInv, PTL

\* Only a cancelled Spider job kills a job of the coordinator.
THEOREM KilledIsCancelled == Spec => []KilledWasCancelled
<1>1. IInv => KilledWasCancelled
  BY Zenon DEF IInv, TypeOK, TableInv, KilledWasCancelled
<1> QED
  BY <1>1, SpecInv, PTL

\* The rows of coordinator jobs follow Spider in every reachable state, wherever
\* the coordinator process, a Spider task or a database call fails.
THEOREM RowsAreSpiders == Spec => []RowsFollowSpider
  BY SuccessIsPublished, RowsAreLegal, NoOrphanRuns, KilledIsCancelled, PTL
     DEF RowsFollowSpider

\* No step that leaves the rows' status and Spider ID alone disturbs FinalStep.
LEMMA FinalFrame ==
    ASSUME UNCHANGED <<status, spider_id>>
    PROVE  FinalStep
  BY Zenon DEF FinalStep

\* From a state of the invariant, no step revives a terminal row or changes a Spider ID.
LEMMA FinalInductive == IInv /\ [Next]_vars => FinalStep
<1> SUFFICES ASSUME IInv, [Next]_vars PROVE FinalStep
  OBVIOUS
<1>1. ASSUME NEW j \in Jobs, Client(j)
      PROVE  FinalStep
  BY <1>1, Zenon DEF Client, InsertJob, LegacyScheduleJob, LegacyFinishJob, FinalStep,
     Terminal, IInv, TypeOK
<1>2. ASSUME LegacyKillHangingJobs
      PROVE  FinalStep
  BY <1>2, Zenon DEF LegacyKillHangingJobs, FinalStep, Terminal, IInv, TypeOK
<1>3. ASSUME NEW j \in Jobs, DispatchInvalidJob(j)
      PROVE  FinalStep
  BY <1>3, Zenon DEF DispatchInvalidJob, IsNextInBatch, FinalStep, Terminal, IInv, TypeOK,
     BatchInv
<1>4. ASSUME NEW h \in HandleIds, PersistSpiderJobId(h) \/ PersistFails(h)
      PROVE  FinalStep
  <2>1. CASE WriteSpiderId(hjob[h], hsid[h])
    BY <1>4, <2>1
       DEF PersistSpiderJobId, PersistFails, WriteSpiderId, FinalStep, Terminal, IInv, TypeOK,
       HandleInv, TableInv, Live
  <2>2. CASE UNCHANGED table
    BY <2>2, FinalFrame, Zenon DEF table
  <2> QED
    BY <1>4, <2>1, <2>2, Zenon DEF PersistSpiderJobId, PersistFails
<1>5. ASSUME NEW h \in HandleIds, WriteOutcome(h) \/ WriteFails(h) \/ ReportFailure(h)
      PROVE  FinalStep
  <2>1. CASE UNCHANGED table
    BY <2>1, FinalFrame, Zenon DEF table
  <2>2. CASE UpdateJobStatus(hjob[h], hout[h]) /\ hpc[h] = "write"
    BY <1>5, <2>2, Zenon DEF UpdateJobStatus, FinalStep, Terminal, IInv, TypeOK,
       HandleInv, Live
  <2>3. CASE UpdateJobStatus(hjob[h], "FAILED")
    BY <1>5, <2>3, Zenon DEF UpdateJobStatus, FinalStep, Terminal, IInv, TypeOK
  <2> QED
    BY <1>5, <2>1, <2>2, <2>3, Zenon DEF WriteOutcome, WriteFails, ReportFailure
<1>6. ASSUME NEW s \in SpiderIds, CommitPublishes(s) \/ CommitFails(s)
      PROVE  FinalStep
  <2>1. CASE UNCHANGED table
    BY <2>1, FinalFrame, Zenon DEF table
  <2>2. ASSUME NEW j \in Jobs, CommitTransaction(s, j)
        PROVE  FinalStep
    BY <2>2, Zenon DEF CommitTransaction, FinalStep, Terminal, IInv, TypeOK
  <2> QED
    BY <1>6, <2>1, <2>2, Zenon DEF CommitPublishes, CommitFails
<1>7. CASE UNCHANGED table
  BY <1>7, FinalFrame, Zenon DEF table
<1>8. ASSUME LoopStep, \A j \in Jobs : ~DispatchInvalidJob(j)
      PROVE  UNCHANGED <<status, spider_id>>
  BY <1>8, Zenon DEF LoopStep, Boot, RecoveryDone, FetchNewJobRows, DispatchDone,
     MarkJobsDispatched, DispatchUnsupportedJob, RecoverJob, DispatchJob, table
<1>9. ASSUME NEW h \in HandleIds, HandleStep(h) \/ HandleFault(h)
      PROVE  \/ PersistSpiderJobId(h) \/ PersistFails(h)
             \/ WriteOutcome(h) \/ WriteFails(h) \/ ReportFailure(h)
             \/ UNCHANGED table
  BY <1>9, Zenon DEF HandleStep, HandleFault, PrepareTaskInputs, SubmitToSpider,
     SubmitFails, StartJob, StartFails, PollTerminalState, PollFails, CheckJobStatus,
     CheckFails
<1>10. ASSUME NEW s \in SpiderIds, SpiderStep(s)
       PROVE  CommitPublishes(s) \/ CommitFails(s) \/ UNCHANGED table
  BY <1>10, Zenon DEF SpiderStep, SpiderRunsCommit, CommitAlreadyDone, CommitRefuses,
     SpiderJobSucceeds, SpiderJobEnds
<1>11. Crash \/ UNCHANGED vars => UNCHANGED table
  BY Zenon DEF Crash, vars, table
<1> QED
  BY <1>1, <1>2, <1>3, <1>4, <1>5, <1>6, <1>7, <1>8, <1>9, <1>10, <1>11, FinalFrame, Zenon
     DEF Next

\* FAILED is final, no terminal row becomes active again and no row changes its
\* Spider ID, in any step of the coordinator, the Spider tasks and the legacy
\* scheduler.
THEOREM FailureIsFinal == Spec => FailedIsFinal
  BY SpecInv, FinalInductive, PTL DEF FailedIsFinal, Spec
=============================================================================
