----------------------------- MODULE LogIngestorProof -----------------------------
(***************************************************************************)
(* Every step of LogIngestor keeps HoldInv: a row waits in one place, whatever*)
(* tasks, listeners, coroutines, crashes and recovery do.  Then the theorems:*)
(* HeldOnce, ScannedExactlyOnce, SqsIngestsOnce, CompressedCount and       *)
(* InstancesMatchStatus are invariants for all values of the constants.    *)
(***************************************************************************)
EXTENDS LogIngestorCounts, LogIngestorQueues

\* Rows leave the places where they wait, or become more.
LEMMA HoldShrinks ==
    ASSUME HoldInv,
           \A w \in Workers : wrows'[w] \subseteq wrows[w],
           \A j \in Jobs : chan'[j] \subseteq chan[j] /\ buf'[j] \subseteq buf[j],
           subs' \subseteq subs,
           \A w \in Workers : wpc[w] = "send" => wrows'[w] = {} \/ wpc'[w] = "send",
           \A j \in Jobs : Unloaded(j)' => Unloaded(j),
           \A r \in Rows :
              rstatus[r] = "buffered"
              /\ (InTask(r)' \/ InChannel(r)' \/ InBuffer(r)' \/ InSubmission(r)')
              => rstatus'[r] = "buffered"
    PROVE  HoldInv'
<1>1. OwnInv'
  BY DEF HoldInv, OwnInv
<1>2. SingleInv'
  BY DEF HoldInv, SingleInv
<1>3. ASSUME NEW r \in Rows PROVE Placed(r)'
  <2>1. r[1] \in Jobs
    BY RowParts, Zenon
  <2>2. InTask(r)' => InTask(r)
    BY Zenon DEF InTask
  <2>3. InChannel(r)' => InChannel(r)
    BY <2>1, Zenon DEF InChannel
  <2>4. InBuffer(r)' => InBuffer(r)
    BY <2>1, Zenon DEF InBuffer
  <2>5. InSubmission(r)' => InSubmission(r)
    BY Zenon DEF InSubmission
  <2>6. Placed(r)
    BY Zenon DEF HoldInv, PlaceInv
  <2> QED BY <2>1, <2>2, <2>3, <2>4, <2>5, <2>6, Zenon DEF Placed
<1> QED BY <1>1, <1>2, <1>3, Zenon DEF HoldInv, PlaceInv

\* The special case of a step that moves no row.
LEMMA HoldFrame ==
    ASSUME HoldInv, UNCHANGED <<wrows, chan, buf, subs>>,
           \A w \in Workers : wpc[w] = "send" => wpc'[w] = "send",
           \A j \in Jobs : Unloaded(j)' => Unloaded(j),
           \A r \in Rows : rstatus[r] = "buffered" => rstatus'[r] = "buffered"
    PROVE  HoldInv'
  BY HoldShrinks, Zenon

\* A committed transaction leaves its rows with the task.
LEMMA HoldOfIngest ==
    ASSUME TypeOK, HoldInv, NEW w \in Workers, wpc[w] = "ingest", NEW K,
           wrows' = [wrows EXCEPT ![w] = FreshRows(JobOf[w], K)],
           wpc' = [wpc EXCEPT ![w] = "send"],
           rstatus' = [r \in Rows |-> IF r \in FreshRows(JobOf[w], K) THEN "buffered" ELSE rstatus[r]],
           UNCHANGED <<chan, buf, subs, up, rec>>
    PROVE  HoldInv'
<1> DEFINE F == FreshRows(JobOf[w], K)
<1>1. \A r \in F : r \in Rows /\ r[1] = JobOf[w] /\ rstatus[r] = "absent"
  BY Zenon DEF FreshRows
<1>2. wrows'[w] = F /\ wpc'[w] = "send"
  BY Zenon DEF TypeOK
<1>3. \A v \in Workers : v # w => wrows'[v] = wrows[v] /\ wpc'[v] = wpc[v]
  BY Zenon DEF TypeOK
<1>4. \A r \in Rows : InTask(r) \/ InChannel(r) \/ InBuffer(r) \/ InSubmission(r) => rstatus[r] = "buffered"
  BY Zenon DEF HoldInv, PlaceInv, Placed
<1> HIDE DEF F
<1>5. \A v \in Workers : \A r \in wrows[v] : r \notin F
  BY <1>1, <1>4, Zenon DEF InTask
<1>6. OwnInv'
  BY <1>1, <1>2, <1>3 DEF HoldInv, OwnInv
<1>7. SingleInv'
  BY <1>2, <1>3, <1>5, Zenon DEF HoldInv, SingleInv
<1>8. ASSUME NEW r \in Rows PROVE Placed(r)'
  <2>1. rstatus[r] = "buffered" => rstatus'[r] = "buffered"
    OBVIOUS
  <2>2. InTask(r)' => r \in F \/ InTask(r)
    BY <1>2, <1>3, Zenon DEF InTask
  <2>3. r \in F => rstatus'[r] = "buffered" /\ ~(InTask(r) \/ InChannel(r) \/ InBuffer(r) \/ InSubmission(r))
    BY <1>1, <1>4, Zenon DEF F
  <2>4. /\ InChannel(r)' <=> InChannel(r)
        /\ InBuffer(r)' <=> InBuffer(r)
        /\ InSubmission(r)' <=> InSubmission(r)
        /\ Unloaded(r[1])' <=> Unloaded(r[1])
    BY Zenon DEF InChannel, InBuffer, InSubmission, Unloaded
  <2>5. Placed(r)
    BY Zenon DEF HoldInv, PlaceInv
  <2> QED BY <2>1, <2>2, <2>3, <2>4, <2>5, Zenon DEF Placed
<1> QED BY <1>6, <1>7, <1>8, Zenon DEF HoldInv, PlaceInv

\* A task's rows enter the channel.
LEMMA HoldOfSend ==
    ASSUME TypeOK, LifeInv, HoldInv, NEW w \in Workers, wpc[w] = "send",
           chan' = [chan EXCEPT ![JobOf[w]] = @ \cup {wrows[w]}],
           wrows' = [wrows EXCEPT ![w] = {}],
           \A v \in Workers : v # w => wpc'[v] = wpc[v],
           UNCHANGED <<rstatus, buf, subs, up, rec>>
    PROVE  HoldInv'
<1>1. JobOf[w] \in Jobs
  BY WorkersAssumption, Zenon
<1>2. wrows'[w] = {} /\ \A v \in Workers : v # w => wrows'[v] = wrows[v]
  BY Zenon DEF TypeOK
<1>3. /\ chan'[JobOf[w]] = chan[JobOf[w]] \cup {wrows[w]}
      /\ \A j \in Jobs : j # JobOf[w] => chan'[j] = chan[j]
  BY <1>1, Zenon DEF TypeOK
<1>4. wrows[w] \subseteq Rows /\ \A r \in wrows[w] : r[1] = JobOf[w] /\ InTask(r) /\ ~InChannel(r)
  BY Zenon DEF TypeOK, HoldInv, OwnInv, PlaceInv, Placed, InTask
<1>5. ~Unloaded(JobOf[w])
  BY <1>1, Zenon DEF LifeInv, RecoveryInv, InstanceInv, NoTask, Unloaded, TypeOK
<1>6. OwnInv'
  BY <1>2, <1>3, <1>4 DEF HoldInv, OwnInv
<1>7. SingleInv'
  <2>1. \A m \in chan[JobOf[w]] : \A r \in wrows[w] : r \notin m
    BY <1>4, Zenon DEF InChannel
  <2>2. \A j \in Jobs : \A m, n \in chan'[j] : \A r \in m : r \in n => m = n
    BY <1>3, <2>1 DEF HoldInv, SingleInv
  <2> QED BY <1>2, <2>2, Zenon DEF HoldInv, SingleInv
<1>8. ASSUME NEW r \in Rows PROVE Placed(r)'
  <2>1. InTask(r)' => InTask(r) /\ r \notin wrows[w]
    BY <1>2, Zenon DEF InTask, HoldInv, SingleInv
  <2>2. InChannel(r)' => InChannel(r) \/ r \in wrows[w]
    BY <1>3, RowParts DEF InChannel
  <2>3. /\ InBuffer(r)' <=> InBuffer(r)
        /\ InSubmission(r)' <=> InSubmission(r)
        /\ Unloaded(r[1])' <=> Unloaded(r[1])
    BY Zenon DEF InBuffer, InSubmission, Unloaded
  <2>4. r \in wrows[w] => InTask(r) /\ ~Unloaded(r[1])
    BY <1>4, <1>5, Zenon
  <2>5. Placed(r)
    BY Zenon DEF HoldInv, PlaceInv
  <2> QED BY <2>1, <2>2, <2>3, <2>4, <2>5, Zenon DEF Placed
<1> QED BY <1>6, <1>7, <1>8, Zenon DEF HoldInv, PlaceInv

\* Recovery sends a job's buffered rows to its listener, before anything else
\* can hold one of them.
LEMMA HoldOfRefill ==
    ASSUME TypeOK, LifeInv, HoldInv, NEW j \in Jobs, Unloaded(j), up, rec[j] # "none",
           chan' = [chan EXCEPT ![j] = @ \cup ({RowsWith(j, "buffered")} \ {{}})],
           rec' = [rec EXCEPT ![j] = "none"] \/ rec' = [rec EXCEPT ![j] = "create"],
           UNCHANGED <<rstatus, wrows, wpc, buf, subs, up>>
    PROVE  HoldInv'
<1> DEFINE B == RowsWith(j, "buffered")
<1>1. \A r \in B : r \in Rows /\ r[1] = j /\ rstatus[r] = "buffered"
  BY Zenon DEF RowsWith, RowsOf
<1>2. /\ chan'[j] \subseteq chan[j] \cup {B}
      /\ \A i \in Jobs : i # j => chan'[i] = chan[i]
  BY DEF TypeOK
<1> HIDE DEF B
<1>3. \A w \in Workers : JobOf[w] = j => wpc[w] = "none"
  BY Zenon DEF LifeInv, RecoveryInv, NoTask
<1>4. \A r \in B : ~InTask(r) /\ ~InChannel(r) /\ ~InBuffer(r) /\ ~InSubmission(r)
  <2> SUFFICES ASSUME NEW r \in B
               PROVE  ~InTask(r) /\ ~InChannel(r) /\ ~InBuffer(r) /\ ~InSubmission(r)
    OBVIOUS
  <2>1. ~InTask(r)
    BY <1>1, <1>3 DEF InTask, HoldInv, OwnInv, SingleInv
  <2>2. Placed(r)
    BY <1>1, Zenon DEF HoldInv, PlaceInv
  <2> QED BY <1>1, <2>1, <2>2, Zenon DEF Placed
<1>5. ~Unloaded(j)' /\ \A i \in Jobs : i # j => (Unloaded(i)' <=> Unloaded(i))
  BY DEF Unloaded, TypeOK
<1>6. OwnInv'
  BY <1>1, <1>2 DEF HoldInv, OwnInv
<1>7. SingleInv'
  <2>1. \A m \in chan[j] : \A r \in B : r \notin m
    BY <1>1, <1>4, Zenon DEF InChannel
  <2>2. \A i \in Jobs : \A m, n \in chan'[i] : \A r \in m : r \in n => m = n
    BY <1>2, <2>1 DEF HoldInv, SingleInv
  <2> QED BY <2>2, Zenon DEF HoldInv, SingleInv
<1>8. ASSUME NEW r \in Rows PROVE Placed(r)'
  <2>1. InChannel(r)' => InChannel(r) \/ r \in B
    BY <1>2, RowParts, Zenon DEF InChannel
  <2>2. /\ InTask(r)' <=> InTask(r)
        /\ InBuffer(r)' <=> InBuffer(r)
        /\ InSubmission(r)' <=> InSubmission(r)
    BY Zenon DEF InTask, InBuffer, InSubmission
  <2>3. Unloaded(r[1])' => Unloaded(r[1]) /\ r \notin B
    BY <1>1, <1>5, RowParts, Zenon
  <2>4. Placed(r)
    BY Zenon DEF HoldInv, PlaceInv
  <2> QED BY <1>1, <1>4, <2>1, <2>2, <2>3, <2>4, Zenon DEF Placed
<1> QED BY <1>6, <1>7, <1>8, Zenon DEF HoldInv, PlaceInv

\* A listener moves rows S out of its channel and buffer: some stay in the buffer,
\* the others leave it in disjoint batches F.
MovesOut(j, S, F) ==
    /\ S \in SUBSET Rows
    /\ \A r \in S : InBuffer(r) \/ InChannel(r)
    /\ \A r \in S : r[1] = j
    /\ \A f \in F : f \subseteq S /\ f # {}
    /\ \A f, g \in F : \A r \in f : r \in g => f = g
    /\ \A i \in Jobs : chan'[i] \subseteq chan[i]
    /\ \A i \in Jobs : i # j => buf'[i] = buf[i]
    /\ buf'[j] \subseteq S
    /\ \A f \in F : \A r \in f : r \notin buf'[j]
    /\ \A n \in chan'[j] : \A r \in n : r \notin S
    /\ subs' = subs \cup F

\* Such a move keeps every row in one place.
LEMMA HoldOfFlush ==
    ASSUME TypeOK, HoldInv, NEW j \in Jobs, NEW S, NEW F, MovesOut(j, S, F),
           UNCHANGED <<rstatus, wrows, wpc, up, rec>>
    PROVE  HoldInv'
<1> USE DEF MovesOut
<1>1. \A r \in S : ~InTask(r) /\ ~InSubmission(r) /\ ~Unloaded(r[1]) /\ rstatus[r] = "buffered"
  BY DEF HoldInv, PlaceInv, Placed
<1>2. \A R \in subs, f \in F : \A r \in f : r \notin R
  BY <1>1, Zenon DEF InSubmission
<1>3. OwnInv'
  BY DEF HoldInv, OwnInv
<1>4. SingleInv'
  <2>1. \A P, Q \in subs' : \A r \in P : r \in Q => P = Q
    BY <1>2 DEF HoldInv, SingleInv
  <2>2. \A i \in Jobs : \A m, n \in chan'[i] : \A r \in m : r \in n => m = n
    BY Zenon DEF HoldInv, SingleInv
  <2> QED BY <2>1, <2>2, Zenon DEF HoldInv, SingleInv
<1>5. ASSUME NEW r \in Rows PROVE Placed(r)'
  <2>1. r[1] \in Jobs
    BY RowParts, Zenon
  <2>2. InChannel(r)' => InChannel(r) /\ r \notin S
    <3>1. CASE r[1] = j
      BY <2>1, <3>1, Zenon DEF InChannel
    <3>2. CASE r[1] # j
      BY <2>1, <3>2, Zenon DEF InChannel
    <3> QED BY <3>1, <3>2, Zenon
  <2>3. InBuffer(r)' => r \in S \/ (InBuffer(r) /\ r[1] # j)
    BY <2>1, Zenon DEF InBuffer
  <2>4. InSubmission(r)' => InSubmission(r) \/ (r \in S /\ ~InBuffer(r)')
    BY Zenon DEF InSubmission, InBuffer
  <2>5. InSubmission(r) => r \notin S
    BY <1>1, Zenon
  <2>6. (InTask(r)' <=> InTask(r)) /\ (Unloaded(r[1])' <=> Unloaded(r[1]))
    BY Zenon DEF InTask, Unloaded
  <2>7. Placed(r)
    BY Zenon DEF HoldInv, PlaceInv
  <2> QED BY <1>1, <2>2, <2>3, <2>4, <2>5, <2>6, <2>7, Zenon DEF Placed
<1> QED BY <1>3, <1>4, <1>5, Zenon DEF HoldInv, PlaceInv

\* Both the timer and the end of the listener submit what the buffer holds.
LEMMA HoldOfListener ==
    ASSUME TypeOK, HoldInv, NEW j \in Jobs, ListenerStep(j)
    PROVE  HoldInv'
<1>1. UNCHANGED <<rstatus, wrows, wpc, up, rec>>
  BY ListenerEffects, Zenon DEF ListenerEffect
<1>2. ASSUME NEW m \in chan[j], NEW F \in Flushes(buf[j], m),
             chan' = [chan EXCEPT ![j] = @ \ {m}],
             subs' = subs \cup F,
             buf' = [buf EXCEPT ![j] = (buf[j] \cup m) \ UNION F]
      PROVE  HoldInv'
  <2> DEFINE S == buf[j] \cup m
  <2>1. S \in SUBSET Rows
    BY Zenon DEF TypeOK
  <2>2. /\ \A r \in S : r[1] = j
        /\ \A r \in S : InBuffer(r) \/ InChannel(r)
    BY DEF HoldInv, OwnInv, InBuffer, InChannel
  <2>3. \A f \in F : f \subseteq S /\ f # {}
    BY DEF Flushes
  <2>4. \A f, g \in F : \A r \in f : r \in g => f = g
    BY Zenon DEF Flushes
  <2>5. /\ chan'[j] = chan[j] \ {m}
        /\ \A i \in Jobs : i # j => chan'[i] = chan[i]
        /\ buf'[j] = S \ UNION F
        /\ \A i \in Jobs : i # j => buf'[i] = buf[i]
    <3>1. chan \in [Jobs -> SUBSET SUBSET Rows] /\ buf \in [Jobs -> SUBSET Rows]
      BY Zenon DEF TypeOK
    <3> HIDE DEF S
    <3>2. /\ chan'[j] = chan[j] \ {m}
          /\ \A i \in Jobs : i # j => chan'[i] = chan[i]
      BY <1>2, <3>1, Zenon
    <3>3. /\ buf'[j] = (buf[j] \cup m) \ UNION F
          /\ \A i \in Jobs : i # j => buf'[i] = buf[i]
      BY <1>2, <3>1, Zenon
    <3> QED BY <3>2, <3>3, Zenon DEF S
  <2>6. \A n \in chan'[j] : \A r \in n : r \notin S
    <3> SUFFICES ASSUME NEW n \in chan[j], n # m, NEW r \in n, r \in S PROVE FALSE
      BY <2>5, Zenon
    <3>1. r \notin m
      BY DEF HoldInv, SingleInv
    <3>2. r \in buf[j] /\ r \in Rows /\ r[1] = j
      BY <2>1, <2>2, <3>1, Zenon
    <3>3. InBuffer(r) /\ InChannel(r)
      BY <3>2, Zenon DEF InBuffer, InChannel
    <3> QED BY <3>2, <3>3, Zenon DEF HoldInv, PlaceInv, Placed
  <2>7. /\ \A i \in Jobs : chan'[i] \subseteq chan[i]
        /\ buf'[j] \subseteq S
        /\ \A f \in F : \A r \in f : r \notin buf'[j]
    BY <2>5, Zenon
  <2> HIDE DEF S
  <2>8. MovesOut(j, S, F)
    BY <1>2, <2>1, <2>2, <2>3, <2>4, <2>5, <2>6, <2>7, Zenon DEF MovesOut
  <2> QED BY <1>1, <2>8, HoldOfFlush, Zenon
<1>3. ASSUME \/ chan' = chan
             \/ chan' = [chan EXCEPT ![j] = {}],
             subs' = subs \cup Submission(buf[j]),
             buf' = [buf EXCEPT ![j] = {}]
      PROVE  HoldInv'
  <2>1. buf[j] \in SUBSET Rows
    BY DEF TypeOK
  <2>2. /\ \A r \in buf[j] : r[1] = j
        /\ \A r \in buf[j] : InBuffer(r) \/ InChannel(r)
    BY DEF HoldInv, OwnInv, InBuffer
  <2>3. \A f \in Submission(buf[j]) : f = buf[j] /\ f # {}
    BY DEF Submission
  <2>4. /\ \A i \in Jobs : chan'[i] \subseteq chan[i]
        /\ buf'[j] = {}
        /\ \A i \in Jobs : i # j => buf'[i] = buf[i]
    <3>1. chan \in [Jobs -> SUBSET SUBSET Rows] /\ buf \in [Jobs -> SUBSET Rows]
      BY DEF TypeOK
    <3>2. \A i \in Jobs : chan'[i] = chan[i] \/ chan'[i] = {}
      BY <1>3, <3>1
    <3>3. /\ buf'[j] = {}
          /\ \A i \in Jobs : i # j => buf'[i] = buf[i]
      BY <1>3, <3>1
    <3> QED BY <3>2, <3>3
  <2>5. \A n \in chan[j] : \A r \in n : r \notin buf[j]
    BY <2>1, <2>2 DEF HoldInv, PlaceInv, Placed, InChannel, InBuffer
  <2>6. \A n \in chan'[j] : \A r \in n : r \notin buf[j]
    BY <2>4, <2>5
  <2>7. \A f, g \in Submission(buf[j]) : f = g
    BY <2>3, Zenon
  <2>8. MovesOut(j, buf[j], Submission(buf[j]))
    BY <1>3, <2>1, <2>2, <2>3, <2>4, <2>6, <2>7, Zenon DEF MovesOut
  <2> QED BY <1>1, <2>8, HoldOfFlush, Zenon
<1>4. CASE ReceiveEntries(j)
  BY <1>2, <1>4, Zenon DEF ReceiveEntries
<1>5. CASE TimerFires(j)
  BY <1>3, <1>5 DEF TimerFires
<1>6. CASE ListenerCancelled(j) \/ ListenerClosed(j)
  BY <1>3, <1>6, Zenon DEF ListenerCancelled, ListenerClosed, EndListener
<1> QED BY <1>4, <1>5, <1>6, Zenon DEF ListenerStep

\* A batch that is submitted leaves its coroutine.
LEMMA HoldOfSubmit ==
    ASSUME TypeOK, HoldInv, NEW R \in subs, subs' = subs \ {R},
           \A r \in Rows : r \notin R => rstatus'[r] = rstatus[r],
           UNCHANGED <<wrows, chan, buf, wpc, up, rec>>
    PROVE  HoldInv'
<1>1. ASSUME NEW r \in Rows,
             InTask(r)' \/ InChannel(r)' \/ InBuffer(r)' \/ InSubmission(r)'
      PROVE  r \notin R
  <2> SUFFICES ASSUME r \in R PROVE FALSE
    OBVIOUS
  <2>1. InSubmission(r)
    BY DEF InSubmission
  <2>2. ~InTask(r) /\ ~InChannel(r) /\ ~InBuffer(r)
    BY <2>1 DEF HoldInv, PlaceInv, Placed
  <2>3. ~InTask(r)' /\ ~InChannel(r)' /\ ~InBuffer(r)'
    BY <2>2 DEF InTask, InChannel, InBuffer
  <2>4. InSubmission(r)'
    BY <1>1, <2>3
  <2>5. \E S \in subs : S # R /\ r \in S
    BY <2>4 DEF InSubmission
  <2> QED BY <2>5 DEF HoldInv, SingleInv
<1>2. \A j \in Jobs : Unloaded(j)' => Unloaded(j)
  BY DEF Unloaded
<1>3. \A r \in Rows :
         rstatus[r] = "buffered"
         /\ (InTask(r)' \/ InChannel(r)' \/ InBuffer(r)' \/ InSubmission(r)')
         => rstatus'[r] = "buffered"
  BY <1>1
<1> QED BY <1>2, <1>3, HoldShrinks, Zenon

\* Submitting coroutines let go of their rows, and nothing else moves one.
LEMMA HoldOfOutside ==
    ASSUME TypeOK, HoldInv, CountInv, OutsideStep
    PROVE  HoldInv'
<1>1. UNCHANGED <<up, rec, wpc, wrows, chan, buf>>
  BY OutsideEffects
<1>2. \A j \in Jobs : Unloaded(j)' => Unloaded(j)
  BY <1>1 DEF Unloaded
<1>3. ASSUME UNCHANGED <<rstatus, subs>> PROVE HoldInv'
  BY <1>1, <1>2, <1>3, HoldFrame, Zenon
<1>4. CASE PutObject
  BY <1>3, <1>4, Zenon DEF PutObject, db, coroutines
<1>5. ASSUME NEW c \in CompressionIds, CompressionEnds(c) PROVE HoldInv'
  BY <1>3, <1>5, Zenon DEF CompressionEnds, db, coroutines
<1>6. ASSUME NEW R \in subs, NEW c \in CompressionIds,
             SubmitForCompression(R, c) \/ SubmitFails(R, c)
      PROVE  HoldInv'
  <2>1. subs' = subs \ {R}
    BY Zenon, <1>6 DEF SubmitForCompression, SubmitFails
  <2>2. rstatus' = rstatus \/ rstatus' = [r \in Rows |-> IF r \in R THEN "submitted" ELSE rstatus[r]]
    BY Zenon, <1>6 DEF SubmitForCompression, SubmitFails, InsertCompressionJob
  <2>3. \A r \in Rows : r \notin R => rstatus'[r] = rstatus[r]
    BY <2>2, Zenon
  <2> QED BY <1>1, <2>1, <2>3, HoldOfSubmit, Zenon
<1>7. ASSUME NEW p \in waiters, WaitForCompression(p[1], p[2]) \/ WaitFails(p[1], p[2])
      PROVE  HoldInv'
  <2>1. p[1] \in CompressionIds
    BY DEF TypeOK
  <2>2. subs' = subs /\ (rstatus' = rstatus \/ RecordCompressionResult(p[1], p[2]))
    BY Zenon, <1>7 DEF WaitForCompression, WaitFails
  <2>3. \A r \in Rows : rstatus[r] = "buffered" => rstatus'[r] = "buffered"
    BY <2>1, <2>2, ResultKeepsBuffered, Zenon
  <2> QED BY <1>1, <1>2, <2>2, <2>3, HoldFrame, Zenon
<1>8. CASE UNCHANGED vars
  BY <1>3, <1>8, Zenon DEF vars, db, coroutines
<1> QED BY Zenon, <1>4, <1>5, <1>6, <1>7, <1>8 DEF OutsideStep

\* A task's steps: recorded rows stay with the task until they are sent.
LEMMA HoldOfTask ==
    ASSUME TypeOK, LifeInv, HoldInv, NEW w \in Workers, TaskStep(w) \/ TaskFault(w)
    PROVE  HoldInv'
<1> USE DEF db, ext, reqs, mgr, tasks, listeners, coroutines
<1>1. UNCHANGED <<up, rec, buf, subs>>
  BY Zenon, TaskEffects DEF TaskEffect
<1>2. \A j \in Jobs : Unloaded(j)' <=> Unloaded(j)
  BY <1>1, Zenon DEF Unloaded
<1>3. \A v \in Workers : v # w => wpc'[v] = wpc[v] /\ wrows'[v] = wrows[v]
  BY TaskEffects, TaskIsLocal, Zenon
<1>4. wpc[w] # "send" => wrows[w] = {}
  BY Zenon DEF HoldInv, SingleInv
<1>5. ASSUME wpc[w] # "send", UNCHANGED <<wrows, chan>>,
             \A r \in Rows : rstatus[r] = "buffered" => rstatus'[r] = "buffered"
      PROVE  HoldInv'
  BY <1>1, <1>2, <1>3, <1>5, HoldFrame, Zenon
<1>6. CASE ScanPage(w) \/ ReceiveMessages(w) \/ FetchFails(w)
  BY <1>5, <1>6, Zenon DEF ScanPage, ReceiveMessages, FetchFails, Fetching
<1>7. CASE DeleteMessages(w) \/ DeleteFails(w)
  BY <1>5, <1>7, Zenon DEF DeleteMessages, DeleteFails
<1>8. CASE Ingest(w)
  <2>1. wpc[w] = "ingest" /\ chan' = chan
    BY Zenon, <1>8 DEF Ingest
  <2>2. CASE RecordObjects(JobOf[w], wkeys[w] \cap Relevant)
             /\ wrows' = [wrows EXCEPT ![w] = FreshRows(JobOf[w], wkeys[w] \cap Relevant)]
             /\ Goto(w, "send")
    <3> DEFINE K == wkeys[w] \cap Relevant
    <3>1. /\ wrows' = [wrows EXCEPT ![w] = FreshRows(JobOf[w], K)]
          /\ wpc' = [wpc EXCEPT ![w] = "send"]
          /\ rstatus' = [r \in Rows |-> IF r \in FreshRows(JobOf[w], K)
                                        THEN "buffered" ELSE rstatus[r]]
      BY <2>2, Zenon DEF RecordObjects, Goto
    <3> HIDE DEF K
    <3> QED BY <1>1, <2>1, <3>1, HoldOfIngest, Zenon
  <2>3. CASE UNCHANGED <<rstatus, wrows>>
    BY <1>5, <2>1, <2>3, Zenon
  <2> QED BY Zenon, <1>8, <2>2, <2>3 DEF Ingest
<1>9. CASE IngestFails(w)
  <2>1. wpc[w] = "ingest" /\ UNCHANGED <<chan, wrows>>
    BY Zenon, <1>9 DEF IngestFails
  <2>2. CASE UNCHANGED rstatus
    BY <1>5, <2>1, <2>2, Zenon
  <2>3. CASE RecordObjects(JobOf[w], wkeys[w] \cap Relevant)
    <3>1. \A r \in Rows : rstatus[r] = "buffered" => rstatus'[r] = "buffered"
      BY <2>3, Zenon DEF RecordObjects
    <3> QED BY <1>5, <2>1, <3>1, Zenon
  <2> QED BY Zenon, <1>9, <2>2, <2>3 DEF IngestFails
<1>10. CASE SendRows(w)
  <2>1. /\ wpc[w] = "send"
        /\ chan' = [chan EXCEPT ![JobOf[w]] = @ \cup {wrows[w]}]
        /\ wrows' = [wrows EXCEPT ![w] = {}]
        /\ rstatus' = rstatus
    BY Zenon, <1>10 DEF SendRows
  <2> QED BY <1>1, <1>3, <2>1, HoldOfSend, Zenon
<1>11. CASE CancelTask(w) \/ FailTask(w)
  <2>1. wrows' = [wrows EXCEPT ![w] = {}] /\ UNCHANGED <<rstatus, chan>>
    BY Zenon, <1>11 DEF CancelTask, FailTask, EndTask
  <2>2. wrows'[w] = {}
    BY <2>1, Zenon DEF TypeOK
  <2> QED BY <1>1, <1>2, <1>3, <2>1, <2>2, HoldShrinks, Zenon
<1> QED BY <1>6, <1>7, <1>8, <1>9, <1>10, <1>11, Zenon DEF TaskStep, TaskFault

\* Every step keeps each row in one place.
LEMMA HoldStep == TypeOK /\ LifeInv /\ HoldInv /\ CountInv /\ [Next]_vars => HoldInv'
<1> SUFFICES ASSUME TypeOK, LifeInv, HoldInv, CountInv, [Next]_vars PROVE HoldInv'
  OBVIOUS
<1>1. CASE ManagerStep
  <2>1. Resting /\ Undisturbed
    BY <1>1, ManagerMovesNothing, ManagerDisturbsNone, Zenon
  <2>2. UNCHANGED <<rstatus, wrows, chan, buf, subs>>
    BY <2>1, Zenon DEF Resting
  <2>3. /\ \A w \in Workers : wpc[w] = "send" => wpc'[w] = "send"
        /\ \A j \in Jobs : Unloaded(j)' => Unloaded(j)
    BY <2>1, Zenon DEF Undisturbed
  <2> QED BY <2>2, <2>3, HoldFrame, Zenon
<1>2. CASE Crash
  BY Zenon, <1>2 DEF Crash, HoldInv, OwnInv, SingleInv, PlaceInv, Placed, InTask, InChannel,
                     InBuffer, InSubmission, Rows
<1>3. CASE Boot
  <2>1. UNCHANGED <<rstatus, wrows, wpc, chan, buf, subs>> /\ ~up
    BY <1>3, Zenon DEF Boot, db
  <2>2. \A j \in Jobs : Unloaded(j)
    BY <2>1, Zenon DEF Unloaded
  <2> QED BY <2>1, <2>2, HoldFrame, Zenon
<1>4. ASSUME NEW j \in Jobs, RefillBuffer(j) PROVE HoldInv'
  <2>1. /\ rec[j] \in {"requested", "running", "inactive"}
        /\ UNCHANGED <<rstatus, wrows, wpc, buf, subs, up>>
        /\ rec' = [rec EXCEPT ![j] = "none"] \/ rec' = [rec EXCEPT ![j] = "create"]
    BY <1>4, Zenon DEF RefillBuffer, IsNextToRecover, db, tasks, coroutines
  <2>2. CASE chan' = [chan EXCEPT ![j] = @ \cup ({RowsWith(j, "buffered")} \ {{}})]
    <3>1. up /\ rec[j] # "none" /\ Unloaded(j)
      BY <2>1, Zenon DEF LifeInv, RecoveryInv, Unloaded
    <3> QED BY <2>1, <2>2, <3>1, HoldOfRefill, Zenon
  <2>3. CASE chan' = chan
    <3>1. \A i \in Jobs : Unloaded(i)' => Unloaded(i)
      BY <2>1, Zenon DEF Unloaded, TypeOK
    <3> QED BY <2>1, <2>3, <3>1, HoldFrame, Zenon
  <2> QED BY <1>4, <2>2, <2>3, Zenon DEF RefillBuffer
<1>5. ASSUME NEW j \in Jobs, ListenerStep(j) PROVE HoldInv'
  BY <1>5, HoldOfListener, Zenon
<1>6. ASSUME NEW w \in Workers, TaskStep(w) \/ TaskFault(w) PROVE HoldInv'
  BY <1>6, HoldOfTask, Zenon
<1>7. CASE OutsideStep
  BY <1>7, HoldOfOutside, Zenon
<1> QED BY Zenon, StepKinds, <1>1, <1>2, <1>3, <1>4, <1>5, <1>6, <1>7 DEF ManagerStep

\* The run's property follows: every holding is one of the four places.
LEMMA HoldImpliesHeldOnce == TypeOK /\ HoldInv => HeldOnce
<1> SUFFICES ASSUME TypeOK, HoldInv PROVE HeldOnce
  OBVIOUS
<1> DEFINE At(a, r) ==
       \/ \E w \in Workers : a = <<"task", w, wrows[w]>> /\ r \in wrows[w]
       \/ \E m \in chan[r[1]] : a = <<"chan", r[1], m>> /\ r \in m
       \/ a = <<"buf", r[1], buf[r[1]]>> /\ r \in buf[r[1]]
       \/ \E R \in subs : a = <<"sub", NoJob, R>> /\ r \in R
<1>1. ASSUME NEW a \in Holdings, NEW r \in a[3] PROVE r \in Rows /\ At(a, r)
  <2>1. CASE \E w \in Workers : a = <<"task", w, wrows[w]>>
    BY <1>1, <2>1 DEF TypeOK
  <2>2. CASE \E j \in Jobs : \E m \in chan[j] : a = <<"chan", j, m>>
    <3>1. PICK j \in Jobs : \E m \in chan[j] : a = <<"chan", j, m>>
      BY <2>2, Zenon
    <3>2. PICK m \in chan[j] : a = <<"chan", j, m>>
      BY <3>1, Zenon
    <3>3. r \in m /\ m \subseteq Rows /\ r[1] = j
      BY <1>1, <3>2 DEF TypeOK, HoldInv, OwnInv
    <3> QED BY <3>2, <3>3, Zenon
  <2>3. CASE \E j \in Jobs : a = <<"buf", j, buf[j]>>
    <3>1. PICK j \in Jobs : a = <<"buf", j, buf[j]>>
      BY <2>3, Zenon
    <3>2. r \in buf[j] /\ buf[j] \subseteq Rows /\ r[1] = j
      BY <1>1, <3>1, Zenon DEF TypeOK, HoldInv, OwnInv
    <3> QED BY <3>1, <3>2, Zenon
  <2>4. CASE \E R \in subs : a = <<"sub", NoJob, R>>
    BY <1>1, <2>4 DEF TypeOK
  <2>5. \/ \E w \in Workers : a = <<"task", w, wrows[w]>>
        \/ \E j \in Jobs : \E m \in chan[j] : a = <<"chan", j, m>>
        \/ \E j \in Jobs : a = <<"buf", j, buf[j]>>
        \/ \E R \in subs : a = <<"sub", NoJob, R>>
    <3> DEFINE T == {<<"task", w, wrows[w]>> : w \in Workers}
               C == UNION {{<<"chan", i, m>> : m \in chan[i]} : i \in Jobs}
               B == {<<"buf", i, buf[i]>> : i \in Jobs}
               S == {<<"sub", NoJob, R>> : R \in subs}
    <3>1. Holdings = T \cup C \cup B \cup S
      BY Zenon DEF Holdings
    <3>2. a \in T => \E w \in Workers : a = <<"task", w, wrows[w]>>
      OBVIOUS
    <3>3. a \in C => \E j \in Jobs : \E m \in chan[j] : a = <<"chan", j, m>>
      OBVIOUS
    <3>4. a \in B => \E j \in Jobs : a = <<"buf", j, buf[j]>>
      OBVIOUS
    <3>5. a \in S => \E R \in subs : a = <<"sub", NoJob, R>>
      OBVIOUS
    <3> HIDE DEF T, C, B, S
    <3>6. a \in T \/ a \in C \/ a \in B \/ a \in S
      BY <1>1, <3>1, Zenon
    <3> QED BY Zenon, <3>2, <3>3, <3>4, <3>5, <3>6
  <2> HIDE DEF At
  <2> QED BY <2>1, <2>2, <2>3, <2>4, <2>5, Zenon
<1>2. ASSUME NEW a, NEW r \in Rows, At(a, r)
      PROVE  /\ rstatus[r] = "buffered"
             /\ InTask(r) => \E w \in Workers : a = <<"task", w, wrows[w]>> /\ r \in wrows[w]
             /\ InChannel(r) => \E m \in chan[r[1]] : a = <<"chan", r[1], m>> /\ r \in m
             /\ InBuffer(r) => a = <<"buf", r[1], buf[r[1]]>>
             /\ InSubmission(r) => \E R \in subs : a = <<"sub", NoJob, R>> /\ r \in R
             /\ InTask(r) \/ InChannel(r) \/ InBuffer(r) \/ InSubmission(r)
  <2>1. Placed(r)
    BY Zenon DEF HoldInv, PlaceInv
  <2>2. CASE \E w \in Workers : a = <<"task", w, wrows[w]>> /\ r \in wrows[w]
    <3>1. InTask(r)
      BY <2>2, Zenon DEF InTask
    <3> QED BY <2>1, <2>2, <3>1, Zenon DEF Placed
  <2>3. CASE \E m \in chan[r[1]] : a = <<"chan", r[1], m>> /\ r \in m
    <3>1. InChannel(r)
      BY <2>3, Zenon DEF InChannel
    <3> QED BY <2>1, <2>3, <3>1, Zenon DEF Placed
  <2>4. CASE a = <<"buf", r[1], buf[r[1]]>> /\ r \in buf[r[1]]
    <3>1. InBuffer(r)
      BY <2>4, Zenon DEF InBuffer
    <3> QED BY <2>1, <2>4, <3>1, Zenon DEF Placed
  <2>5. CASE \E R \in subs : a = <<"sub", NoJob, R>> /\ r \in R
    <3>1. InSubmission(r)
      BY <2>5, Zenon DEF InSubmission
    <3> QED BY <2>1, <2>5, <3>1, Zenon DEF Placed
  <2> QED BY <1>2, <2>2, <2>3, <2>4, <2>5, Zenon
<1>3. ASSUME NEW a, NEW b, NEW r \in Rows, At(a, r), At(b, r) PROVE a = b
  <2>1. CASE InTask(r)
    BY <1>2, <1>3, <2>1 DEF HoldInv, SingleInv
  <2>2. CASE InChannel(r)
    <3>1. PICK m \in chan[r[1]] : a = <<"chan", r[1], m>> /\ r \in m
      BY <1>2, <1>3, <2>2, Zenon
    <3>2. PICK n \in chan[r[1]] : b = <<"chan", r[1], n>> /\ r \in n
      BY <1>2, <1>3, <2>2, Zenon
    <3>3. m = n
      BY <3>1, <3>2, RowParts, Zenon DEF HoldInv, SingleInv
    <3> QED BY <3>1, <3>2, <3>3, Zenon
  <2>3. CASE InBuffer(r)
    BY <1>2, <1>3, <2>3, Zenon
  <2>4. CASE InSubmission(r)
    <3>1. PICK R \in subs : a = <<"sub", NoJob, R>> /\ r \in R
      BY <1>2, <1>3, <2>4, Zenon
    <3>2. PICK S \in subs : b = <<"sub", NoJob, S>> /\ r \in S
      BY <1>2, <1>3, <2>4, Zenon
    <3>3. R = S
      BY <3>1, <3>2, Zenon DEF HoldInv, SingleInv
    <3> QED BY <3>1, <3>2, <3>3, Zenon
  <2> QED BY <1>2, <1>3, <2>1, <2>2, <2>3, <2>4, Zenon
<1> HIDE DEF At
<1>4. \A a \in Holdings : \A r \in a[3] : rstatus[r] = "buffered"
  BY <1>1, <1>2, Zenon
<1>5. \A a, b \in Holdings : a # b => a[3] \cap b[3] = {}
  BY <1>1, <1>3, Zenon
<1> QED BY <1>4, <1>5, Zenon DEF HeldOnce

-----------------------------------------------------------------------------
(***************************************************************************)
(* Buffers, timers and finished jobs                                       *)
(***************************************************************************)

\* Only the listener changes its buffer and its timer, and a buffer that keeps
\* rows keeps or gets an armed timer.
LEMMA TimerOfListener ==
    ASSUME TypeOK, TimerArmed, NEW j \in Jobs, ListenerStep(j)
    PROVE  TimerArmed'
<1>1. ASSUME NEW b, NEW t, buf' = [buf EXCEPT ![j] = b], timer' = [timer EXCEPT ![j] = t],
             b # {} => t
      PROVE  TimerArmed'
  BY <1>1 DEF TimerArmed, TypeOK
<1>2. CASE ReceiveEntries(j)
  <2>1. PICK m \in chan[j] : \E F \in Flushes(buf[j], m) :
           LET rest == (buf[j] \cup m) \ UNION F
           IN  /\ buf' = [buf EXCEPT ![j] = rest]
               /\ timer' = [timer EXCEPT ![j] = Armed(buf[j], rest, F, @)]
    BY <1>2, Zenon DEF ReceiveEntries
  <2>2. PICK F \in Flushes(buf[j], m) :
           LET rest == (buf[j] \cup m) \ UNION F
           IN  /\ buf' = [buf EXCEPT ![j] = rest]
               /\ timer' = [timer EXCEPT ![j] = Armed(buf[j], rest, F, @)]
    BY <2>1, Zenon
  <2> DEFINE rest == (buf[j] \cup m) \ UNION F
  <2>3. rest # {} => Armed(buf[j], rest, F, timer[j])
    BY Zenon DEF Armed, TimerArmed
  <2> HIDE DEF rest
  <2>4. buf' = [buf EXCEPT ![j] = rest] /\ timer' = [timer EXCEPT ![j] = Armed(buf[j], rest, F, timer[j])]
    BY <2>2, Zenon DEF rest
  <2> QED BY <1>1, <2>3, <2>4, Zenon
<1>3. CASE TimerFires(j)
  BY <1>1, <1>3, Zenon DEF TimerFires
<1>4. CASE ListenerCancelled(j) \/ ListenerClosed(j)
  BY <1>1, <1>4, Zenon DEF ListenerCancelled, ListenerClosed, EndListener
<1> QED BY Zenon, <1>2, <1>3, <1>4 DEF ListenerStep

\* No step leaves rows in a buffer without a timer.
LEMMA TimerStep == TypeOK /\ TimerArmed /\ [Next]_vars => TimerArmed'
<1> SUFFICES ASSUME TypeOK, TimerArmed, [Next]_vars PROVE TimerArmed'
  OBVIOUS
<1>1. ASSUME UNCHANGED <<buf, timer>> PROVE TimerArmed'
  BY <1>1, Zenon DEF TimerArmed
<1>2. CASE ManagerStep
  BY <1>1, <1>2, ManagerMovesNothing, Zenon DEF Resting
<1>3. CASE Crash
  BY <1>3, Zenon DEF Crash, TimerArmed
<1>4. CASE Boot
  BY <1>1, <1>4, Zenon DEF Boot
<1>5. ASSUME NEW i \in Jobs, RefillBuffer(i) PROVE TimerArmed'
  BY <1>1, <1>5, Zenon DEF RefillBuffer
<1>6. ASSUME NEW i \in Jobs, ListenerStep(i) PROVE TimerArmed'
  BY <1>6, TimerOfListener, Zenon
<1>7. ASSUME NEW w \in Workers, TaskStep(w) \/ TaskFault(w) PROVE TimerArmed'
  BY <1>1, <1>7, TaskEffects, Zenon DEF TaskEffect
<1>8. CASE OutsideStep
  BY <1>1, <1>8, OutsideEffects, Zenon
<1> QED BY Zenon, StepKinds, <1>2, <1>3, <1>4, <1>5, <1>6, <1>7, <1>8 DEF ManagerStep

\* A finished job has neither an entry in job_table nor a running task.
LEMMA LifeImpliesQuiet == TypeOK /\ LifeInv => FinishedIsQuiet
  BY Zenon DEF LifeInv, InstanceInv, FinishedIsQuiet, WorkersOf

-----------------------------------------------------------------------------
(***************************************************************************)
(* The invariant and the theorems                                          *)
(***************************************************************************)

\* The DB is empty and nothing runs at first.
LEMMA LIInvInit == Init => LIInv
<1> SUFFICES ASSUME Init PROVE LIInv
  OBVIOUS
<1> USE DEF Init
<1>1. TypeOK
  BY NullAssumption, Zenon DEF TypeOK, JobStatuses, RowStatuses
<1>2. LifeInv
  BY Zenon DEF LifeInv, RecoveryInv, RegistrationInv, InstanceInv, RequestInv, RequestOk
<1>3. ScanInv
  BY WorkersAssumption, Zenon DEF ScanInv, ScanTask
<1>4. ScannedExactlyOnce
  <2>1. \A j \in Jobs : RowsOf(j) = {}
    BY Zenon DEF RowsOf
  <2>2. \A j \in Jobs : (1..last_key[j]) \cap Relevant = {}
    OBVIOUS
  <2> QED BY <2>1, <2>2, Zenon DEF ScannedExactlyOnce
<1>5. HoldInv
  BY Zenon DEF HoldInv, OwnInv, SingleInv, PlaceInv, Placed, InTask, InChannel, InBuffer, InSubmission,
         Rows
<1>6. CountInv
  BY DEF CountInv
<1>7. CompressedCount
  <2>1. \A j \in Jobs : RowsWith(j, "compressed") = {}
    BY DEF RowsWith, RowsOf
  <2> QED BY <2>1, FS_EmptySet, Zenon DEF CompressedCount
<1>8. TimerArmed
  BY Zenon DEF TimerArmed
<1>9. SqsInv
  <2>1. \A j \in Jobs, k \in Keys : Ingesting(j, k) = {}
    BY Zenon DEF Ingesting
  <2>2. \A j \in Jobs, k \in Keys : Cardinality(Ingesting(j, k)) = 0
    BY <2>1, FS_EmptySet, Zenon
  <2>3. \A j \in Jobs, k \in Keys, n \in Copies : ~Recorded(j, k, n)
    BY Zenon DEF Recorded, Rows
  <2>4. \A k \in Keys : ~(k <= objects)
    BY DEF Keys
  <2>5. \A j \in Jobs, k \in Keys : SqsKey(j, k)
    BY <2>2, <2>3, <2>4 DEF SqsKey
  <2>6. \A w \in Workers : SqsTask(w)
    BY Zenon DEF SqsTask
  <2> QED BY <2>5, <2>6, Zenon DEF SqsInv
<1> QED BY <1>1, <1>2, <1>3, <1>4, <1>5, <1>6, <1>7, <1>8, <1>9, Zenon DEF LIInv, HoldInv

\* The invariant is inductive.
LEMMA LIInvStep == LIInv /\ [Next]_vars => LIInv'
<1> SUFFICES ASSUME LIInv, [Next]_vars PROVE LIInv'
  OBVIOUS
<1> USE DEF LIInv, HoldInv
<1>1. TypeOK'
  BY TypeStep, Zenon
<1>2. LifeInv'
  BY LifeStep, Zenon
<1>3. ScanInv'
  BY ScanStep, Zenon
<1>4. ScannedExactlyOnce'
  BY ScannedStep, Zenon
<1>5. HoldInv'
  BY HoldStep, Zenon
<1>6. CountInv' /\ CompressedCount'
  BY CountStep, Zenon
<1>7. TimerArmed'
  BY TimerStep, Zenon
<1>8. SqsInv'
  BY SqsStep, Zenon
<1> QED BY <1>1, <1>2, <1>3, <1>4, <1>5, <1>6, <1>7, <1>8, Zenon

\* The inductive invariant holds in every state the log ingestor reaches, for any
\* number of jobs, tasks, keys, requests, compression jobs and faults.
THEOREM InvariantHolds == Spec => []LIInv
  BY LIInvInit, LIInvStep, PTL DEF Spec

\* A recorded object's row waits in at most one place and is `buffered` there, so
\* no row is ever submitted to two compression jobs, also across crashes and the
\* refill of the buffer on recovery.
THEOREM RowsAreHeldOnce == Spec => []HeldOnce
<1>1. LIInv => HeldOnce
  BY HoldImpliesHeldOnce, Zenon DEF LIInv, HoldInv
<1> QED BY <1>1, InvariantHolds, PTL

\* A scanner has recorded exactly the relevant objects up to last_ingested_key,
\* each once, in every state: ingest commits rows and key in one transaction.
THEOREM ScansAreExact == Spec => []ScannedExactlyOnce
<1>1. LIInv => ScannedExactlyOnce
  BY Zenon DEF LIInv
<1> QED BY <1>1, InvariantHolds, PTL

\* An SQS message is deleted only after its object has a row, and an object has
\* more rows than one only if as many faults occurred.
THEOREM MessagesAreIngestedOnce == Spec => []SqsIngestsOnce
<1>1. LIInv => SqsIngestsOnce
  BY SqsImpliesIngestsOnce, Zenon DEF LIInv
<1> QED BY <1>1, InvariantHolds, PTL

\* num_files_compressed counts every compressed row once, although recovery waits
\* again for compression jobs that an earlier process waited for.
THEOREM ResultsAreCounted == Spec => []CompressedCount
<1>1. LIInv => CompressedCount
  BY Zenon DEF LIInv
<1> QED BY <1>1, InvariantHolds, PTL

\* Nothing ingests for a finished job, and buffered rows always have a timer.
THEOREM InstancesFollowStatus == Spec => []InstancesMatchStatus
<1>1. LIInv => InstancesMatchStatus
  BY LifeImpliesQuiet DEF LIInv, InstancesMatchStatus
<1> QED BY <1>1, InvariantHolds, PTL
=============================================================================
