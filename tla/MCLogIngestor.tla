---------------------------- MODULE MCLogIngestor ----------------------------
(* A small instance of LogIngestor for TLC with one scanner and one SQS       *)
(* listener of two tasks.  In a behaviour only one of the two jobs is         *)
(* created: the scanner with up to four objects and two shutdown requests, or *)
(* the listener with two objects, one request and no database errors.         *)
EXTENDS LogIngestor, TLC

CONSTANTS j1, j2, w1, w2, w3, c1, c2, q1, q2

VARIABLE which

MCKind == (j1 :> "scanner") @@ (j2 :> "sqs")
MCJobOf == (w1 :> j2) @@ (w2 :> j2) @@ (w3 :> j1)

NoDbErrors == INSTANCE LogIngestor WITH FaultKinds <- FaultKinds \ {"db"}

Symmetry == Permutations({c1, c2}) \cup Permutations({q1, q2}) \cup Permutations({w1, w2})

MCInit == which \in {"scan", "sqs"} /\ Init

MCNext ==
  /\ UNCHANGED which
  /\ \/ which = "scan" /\ Next /\ jstatus'[j2] = "absent"
     \/ /\ which = "sqs" /\ NoDbErrors!Next /\ jstatus'[j1] = "absent"
        /\ objects' <= 2
        /\ Cardinality({q \in Requests : rpc'[q] # "free"}) <= 1

MCSpec == MCInit /\ [][MCNext]_<<which, vars>>
=============================================================================
