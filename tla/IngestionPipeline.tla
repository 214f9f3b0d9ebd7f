-------------------------- MODULE IngestionPipeline --------------------------
(***************************************************************************)
(* The log ingestor and the compression coordinator on one database.  The  *)
(* log ingestor's submit_for_compression inserts the compression_jobs rows *)
(* that the coordinator fetches; what the coordinator, Spider's commit     *)
(* tasks and the legacy scheduler write into `status' is what the log      *)
(* ingestor's wait_for_compression polls.  Each process may die and be     *)
(* restarted on its own.                                                   *)
(***************************************************************************)
EXTENDS LogIngestor

CONSTANTS
    SpiderIds, HandleIds, NoSpider, MaxConcurrentJobs,  \* of CompressionCoordinator
    CoordFaultKinds, MaxCoordFaults

VARIABLES status, kind, spider_id, dispatched, sjob, sstate, commit, inserted, loop, first,
          recovering, batch, toMark, hpc, hjob, hsid, hperm, hout, coordFaults

Coord == INSTANCE CompressionCoordinator
    WITH Jobs <- CompressionIds, NoJob <- NoCompression, faults <- coordFaults,
         FaultKinds <- CoordFaultKinds, MaxFaults <- MaxCoordFaults

coordRest == <<spider_id, dispatched, sjob, sstate, commit, inserted, loop, first, recovering,
               batch, toMark, hpc, hjob, hsid, hperm, hout, coordFaults>>
pipelineVars == <<vars, status, kind, coordRest>>

\* JobStatus::from as the log ingestor polls it: KILLED is treated as FAILED.
PolledStatus(s) ==
    CASE s = "ABSENT" -> "absent"
      [] s \in {"PENDING", "RUNNING"} -> "pending"
      [] s = "SUCCEEDED" -> "succeeded"
      [] s \in {"FAILED", "KILLED"} -> "failed"

PipelineInit ==
    /\ Init
    /\ Coord!Init
    /\ kind = [c \in CompressionIds |-> "s3_object_metadata"]

\* The log ingestor takes a step; the row it inserts is pending and has the next
\* ID, the only inputs it submits are S3 object metadata IDs.
IngestorStep(A) ==
    /\ A
    /\ \A c \in CompressionIds : cstatus[c] = "pending" => cstatus'[c] = "pending"
    /\ \A c, d \in CompressionIds : d < c /\ cstatus'[d] = "absent" => cstatus'[c] = "absent"
    /\ status' = [c \in CompressionIds |->
                     IF cstatus[c] = "absent" /\ cstatus'[c] = "pending" THEN "PENDING"
                                                                         ELSE status[c]]
    /\ UNCHANGED <<kind, coordRest>>

\* The coordinator, Spider or the legacy scheduler take a step; nobody else
\* inserts rows.
CoordinatorStep(A) ==
    /\ A
    /\ \A c \in CompressionIds : status[c] = "ABSENT" => status'[c] = "ABSENT"
    /\ cstatus' = [c \in CompressionIds |-> PolledStatus(status'[c])]
    /\ UNCHANGED <<db, objects, queue, reqs, mgr, tasks, listeners, coroutines, faults>>

PipelineNext == IngestorStep(Next) \/ CoordinatorStep(Coord!Next)

PipelineSpec == PipelineInit /\ [][PipelineNext]_pipelineVars

\* The fairness of the two modules, but that compression jobs end is now a
\* property of the coordinator and of Spider.
PipelineFairness ==
    /\ WF_vars(IngestorStep(Boot)) /\ WF_vars(IngestorStep(SubmitStep))
    /\ WF_vars(IngestorStep(WaitStep))
    /\ \A j \in Jobs : /\ WF_vars(IngestorStep(RegisterStep(j)))
                       /\ WF_vars(IngestorStep(RecoveryStep(j)))
                       /\ WF_vars(IngestorStep(ListenerStep(j)))
    /\ \A q \in Requests : WF_vars(IngestorStep(RequestStep(q)))
    /\ \A w \in Workers : WF_vars(IngestorStep(TaskStep(w)))
    /\ WF_pipelineVars(CoordinatorStep(Coord!LoopStep))
    /\ \A h \in HandleIds : WF_pipelineVars(CoordinatorStep(Coord!HandleStep(h)))
    /\ \A s \in SpiderIds :
         WF_pipelineVars(CoordinatorStep(Coord!SpiderJobSucceeds(s) \/ Coord!SpiderJobEnds(s)))

FairPipelineSpec == PipelineSpec /\ PipelineFairness

-----------------------------------------------------------------------------
(***************************************************************************)
(* Properties                                                              *)
(***************************************************************************)

\* A handle whose call to Spider failed reports FAILED though the commit task has
\* published the job (to_completion).
FailsAfterCommit ==
    \E c \in CompressionIds :
        /\ cstatus[c] = "succeeded" /\ \E s \in SpiderIds : sjob[s] = c /\ inserted[s] = 1
        /\ cstatus' = [cstatus EXCEPT ![c] = "failed"]
        /\ UNCHANGED <<db, objects, queue, reqs, mgr, tasks, listeners, coroutines, faults>>

\* The coordinator is the compression cluster the log ingestor relies on: a job
\* ends once and keeps its result, whatever is retried, recovered or committed
\* late, except for FailsAfterCommit.
ImplementsIngestor == Init /\ [][Next \/ FailsAfterCommit]_vars

\* A row that is `compressed' has its archives in the archives table, from one
\* Spider job only, and num_files_compressed counts it.
CompressedIsPublished ==
    /\ \A j \in Jobs : num_compressed[j] = Cardinality(RowsWith(j, "compressed"))
    /\ \A r \in Rows : rstatus[r] = "compressed" =>
          Cardinality({s \in SpiderIds : sjob[s] = rcjob[r] /\ inserted[s] = 1}) = 1
    /\ Coord!PublishedAtMostOnce

\* Every object the log ingestor recorded gets its result, and every compression
\* job ends, although neither process knows of the other's crashes.
PipelineSettles == RowsSettle /\ Coord!JobTerminates
=============================================================================
