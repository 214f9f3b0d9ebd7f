--------------------------- MODULE QueryJobTable ---------------------------
(***************************************************************************)
(* What the rows of query_jobs promise to the clients that poll them: the  *)
(* life of a query job, without the processes that drive it.               *)
(***************************************************************************)
CONSTANT Jobs

VARIABLE status     \* the status column of every row ("NONE": no row yet)

Terminal == {"SUCCEEDED", "FAILED", "CANCELLED", "KILLED"}

\* The statuses a row of the given status may take next.  A client may ask to
\* cancel a job until it ends; the job may still end by itself afterwards.
NextStatuses ==
  [NONE |-> {"PENDING"},
   PENDING |-> {"RUNNING", "SUCCEEDED", "FAILED", "CANCELLING"},
   RUNNING |-> {"SUCCEEDED", "FAILED", "CANCELLING", "KILLED"},
   CANCELLING |-> {"CANCELLED", "SUCCEEDED", "FAILED"},
   SUCCEEDED |-> {}, FAILED |-> {}, CANCELLED |-> {}, KILLED |-> {}]

TableInit == status = [j \in Jobs |-> "NONE"]

\* One statement may change several rows; each of them takes a legal step.
TableNext ==
  /\ \A j \in Jobs : status'[j] = status[j] \/ status'[j] \in NextStatuses[status[j]]
  /\ DOMAIN status' = Jobs

TableSpec == TableInit /\ [][TableNext]_status
=============================================================================
