----------------------------- MODULE MCIngestion -----------------------------
(* Small instances of the way an object takes into an archive, for TLC: one   *)
(* object through the log ingestor and the coordinator (IngestionPipeline),   *)
(* or the download of a file of five bytes through NetworkReader.  The        *)
(* component that does not run rests in an initial state.                     *)
EXTENDS IngestionPipeline, NetworkReader

CONSTANTS j1, w1, s1, s2, h1, h2

VARIABLE which

MCKind == [j \in {j1} |-> "scanner"]
MCJobOf == [w \in {w1} |-> j1]

MCInit ==
  /\ which \in {"pipeline", "network"}
  /\ PipelineInit
  /\ NRInit /\ (which # "network" => offset = 0)

MCNext ==
  /\ UNCHANGED which
  /\ \/ which = "pipeline" /\ PipelineNext /\ UNCHANGED nrVars
     \/ which = "network" /\ NRNext /\ UNCHANGED pipelineVars

\* The fairness of the two modules, each in its own behaviours.
Ingests(A) == which = "pipeline" /\ IngestorStep(A)
Compresses(A) == which = "pipeline" /\ CoordinatorStep(A)
Downloads(A) == which = "network" /\ A
MCFairness ==
  /\ WF_vars(Ingests(Boot)) /\ WF_vars(Ingests(SubmitStep)) /\ WF_vars(Ingests(WaitStep))
  /\ WF_vars(Ingests(RegisterStep(j1))) /\ WF_vars(Ingests(RecoveryStep(j1)))
  /\ WF_vars(Ingests(ListenerStep(j1))) /\ WF_vars(Ingests(TaskStep(w1)))
  /\ WF_pipelineVars(Compresses(Coord!LoopStep))
  /\ \A h \in HandleIds : WF_pipelineVars(Compresses(Coord!HandleStep(h)))
  /\ \A s \in SpiderIds :
       WF_pipelineVars(Compresses(Coord!SpiderJobSucceeds(s) \/ Coord!SpiderJobEnds(s)))
  /\ WF_nrVars(Downloads(DownloaderStep))
  /\ WF_nrVars(Downloads(ReaderStep))
  /\ WF_nrVars(Downloads(AbortTransfer))

MCSpec == MCInit /\ [][MCNext]_<<which, pipelineVars, nrVars>> /\ MCFairness
=============================================================================
