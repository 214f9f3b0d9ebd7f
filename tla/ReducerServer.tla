---------------------------- MODULE ReducerServer ----------------------------
(***************************************************************************)
(* The reducer of src/components/core/src/reducer: a process that takes    *)
(* one aggregation job at a time from the query scheduler, adds up the     *)
(* record groups that the search processes ("senders") of the job send it, *)
(* and writes the sums to the results cache.  One thread runs a            *)
(* boost::asio event loop; its tasks are handlers of asynchronous reads,   *)
(* accepts and a timer, and each handler is one action here.               *)
(*                                                                         *)
(* A record group travels as two units, a size ("h") and a body ("b"), so  *)
(* that a packet can end in the middle of one.  A group is never larger    *)
(* than the receive buffer: its tags are empty or one timestamp.           *)
(* The scheduler's messages are a size and a body as well.                 *)
(***************************************************************************)
EXTENDS Naturals, Sequences, FiniteSets, SequencesExt, FiniteSetsExt

CONSTANTS Senders,     \* search processes
          JobSenders,  \* JobSenders[j]: the senders of job j, for j \in 1..number of jobs
          Groups,      \* Groups[s]: the sequence of <<tag, count>> that s sends
          Timeline,    \* the jobs that count by time bucket
          Tags,        \* the tags of record groups
          BufSize,     \* cMinBufSize and cBufSize, in units
          Faults       \* subset of {"cancel", "mongo", "midMessage", "kill"}

Jobs == DOMAIN JobSenders
NoJob == 0
Statuses == {"Idle", "Running", "ReceivedAllResults", "RecoverableFailure",
             "UnrecoverableFailure"}

VARIABLES
  phase,     \* of main: "register", "run" (the event loop), "exit"
  ctx,       \* ServerContext
  accept,    \* the accept operation: "none", "pending", "cancelled", or the sender it took
  listener,  \* the read of the scheduler's socket: "none", "pending", "aborted"
  timer,     \* whether the upsert timer is armed
  conn,      \* conn[s]: the connection of s, as the reducer sees it
  sender,    \* sender[s]: the search process
  sched,     \* the scheduler's handler of this reducer's connection
  cache      \* cache[j]: the results collection of job j

ops == <<accept, listener, timer, conn>>
vars == <<phase, ctx, accept, listener, timer, conn, sender, sched, cache>>

NoCounts == [t \in Tags |-> 0]
Unit(g, part) == [tag |-> g[1], n |-> g[2], part |-> part]
Message == <<"size", "body">>

\* reset().  m_scheduler_update_buffer is not among the fields it resets.
Reset(c) == [c EXCEPT !.status = "Idle", !.job = NoJob, !.timeline = FALSE,
                      !.updated = {}, !.active = 0, !.counts = NoCounts]

Fresh == [status |-> "Idle", job |-> NoJob, timeline |-> FALSE, updated |-> {},
          active |-> 0, counts |-> NoCounts, sock |-> FALSE, buf |-> <<>>, occupied |-> 0]
NoConn == [op |-> "none", id |-> NoJob, wire |-> <<>>, eof |-> FALSE, yes |-> FALSE, buf |-> <<>>]

Init ==
  /\ phase = "register" /\ ctx = Fresh
  /\ accept = "none" /\ listener = "none" /\ timer = FALSE
  /\ conn = [s \in Senders |-> NoConn]
  /\ sender = [s \in Senders |-> [st |-> "off", todo |-> <<>>, out |-> <<>>]]
  /\ sched = [st |-> "away", job |-> NoJob, next |-> 1, wire |-> <<>>, acks |-> 0,
              open |-> FALSE, cancelled |-> {}]
  /\ cache = [j \in Jobs |-> [writes |-> 0, counts |-> NoCounts]]

-----------------------------------------------------------------------------
(* Publishing results.  An outcome is what a call may leave behind.        *)

Outcome(c, k, acks, ok) == [ctx |-> c, cache |-> k, acks |-> acks, ok |-> ok]
Same(c, ok) == Outcome(c, cache, 0, ok)

\* ack_query_scheduler: a write to a peer that has closed may fail.
AckOutcomes(c, k) ==
  {Outcome(c, k, 1, TRUE)} \cup (IF sched.open THEN {} ELSE {Outcome(c, k, 0, FALSE)})

\* upsert_timeline_results: replaces the documents of the tags that changed.
Upserts(c) ==
  IF c.updated = {} THEN {Same(c, TRUE)}
  ELSE {Outcome([c EXCEPT !.updated = {}],
                [cache EXCEPT ![c.job].counts =
                   [t \in Tags |-> IF t \in c.updated THEN c.counts[t] ELSE @[t]]],
                0, TRUE)}
       \cup (IF "mongo" \in Faults THEN {Same(c, FALSE)} ELSE {})

\* publish_pipeline_results: inserts one document per group.
Publishes(c) ==
  {Outcome(c, [cache EXCEPT ![c.job] = [writes |-> @.writes + 1, counts |-> c.counts]], 0, TRUE)}
  \cup (IF "mongo" \in Faults THEN {Same(c, FALSE)} ELSE {})

\* try_finalize_results
TryFinalize(c) ==
  IF c.status = "Running" THEN {Same(c, TRUE)}
  ELSE IF c.status # "ReceivedAllResults" THEN {Same(c, FALSE)}
  ELSE IF c.active > 0 THEN {Same(c, TRUE)}
  ELSE UNION {IF o.ok THEN AckOutcomes(o.ctx, o.cache) ELSE {o} :
                o \in IF c.timeline THEN Upserts(c) ELSE Publishes(c)}

\* decrement_num_active_receiver_tasks
Decrement(c) ==
  LET d == [c EXCEPT !.active = @ - 1] IN
  IF d.active = 0 /\ d.status = "ReceivedAllResults"
  THEN {IF o.ok THEN o ELSE [o EXCEPT !.ctx.status = "UnrecoverableFailure"] : o \in TryFinalize(d)}
  ELSE {Same(d, TRUE)}

Apply(o) == /\ ctx' = o.ctx /\ cache' = o.cache
            /\ sched' = [sched EXCEPT !.acks = @ + o.acks]

\* stop_event_loop: cancels the accept that waits, closes the scheduler's socket.
Cancelled(a) == IF a = "pending" THEN "cancelled" ELSE a
Aborted(l) == IF l = "pending" THEN "aborted" ELSE l
Stop(c, status) == [c EXCEPT !.status = status, !.sock = FALSE]

-----------------------------------------------------------------------------
(* Accepting senders.                                                      *)

Backlog == {s \in Senders : conn[s].op = "backlog"}
Gone(c) == [c EXCEPT !.op = "gone"]

\* queue_accept_task: asio takes a connection that already waits at once, and
\* posts the handler; else the operation waits.
QueueAccept == accept' \in {"pending"} \cup Backlog

\* AcceptTask on a new connection: a sender of the job, or a rejection.  Both
\* queue the next accept.
Accepts(s) ==
  /\ phase = "run" /\ conn[s].op = "backlog" /\ accept \in {"pending", s}
  /\ LET taken == [conn EXCEPT ![s].op = IF ctx.status = "Running" THEN "validate" ELSE "gone"] IN
       /\ conn' = taken
       /\ accept' \in {"pending"} \cup (Backlog \ {s})
  /\ ctx' = IF ctx.status = "Running" THEN [ctx EXCEPT !.active = @ + 1] ELSE ctx
  /\ UNCHANGED <<phase, listener, timer, sender, sched, cache>>

\* AcceptTask after m_tcp_acceptor.cancel().
AcceptCancelled ==
  /\ phase = "run" /\ accept = "cancelled" /\ accept' = "none"
  /\ UNCHANGED <<phase, ctx, listener, timer, conn, sender, sched, cache>>

\* Mutant: the job of the sender is not compared.
AnyJob(s) == TRUE

\* read_connection_init_packet
SameJob(s) == conn[s].id = ctx.job

\* ValidateSenderTask; the answer to a sender that is gone may fail.
Validate(s) ==
  /\ phase = "run" /\ conn[s].op = "validate"
  /\ \/ /\ ctx.status = "Running" /\ SameJob(s)
        /\ conn' = [conn EXCEPT ![s].op = "receive", ![s].yes = TRUE]
        /\ UNCHANGED <<ctx, cache, sched>>
     \/ /\ ctx.status # "Running" \/ ~SameJob(s) \/ conn[s].eof
        /\ conn' = [conn EXCEPT ![s] = Gone(@)]
        /\ \E o \in Decrement(ctx) : Apply(o)
  /\ UNCHANGED <<phase, accept, listener, timer, sender>>

-----------------------------------------------------------------------------
(* Receiving record groups.                                                *)

\* ServerContext::push_record_group and CountOperator
PushRecordGroup(c, g) ==
  [c EXCEPT !.counts[g.tag] = @ + g.n,
            !.updated = IF c.timeline THEN @ \cup {g.tag} ELSE @]

\* The loop of read_record_groups_packet: every whole group of the buffer.
PushGroups(c, buf) == FoldLeft(PushRecordGroup, c, SelectSeq(buf, LAMBDA u : u.part = "b"))

Leftover(buf) == IF Len(buf) % 2 = 1 THEN <<Last(buf)>> ELSE <<>>

\* asio::async_read with a plain buffer: completes when the buffer is full, or
\* with what has arrived when the sender closes.
RoomIn(s) == BufSize - Len(conn[s].buf)
Arrived(s) == SubSeq(conn[s].wire, 1, Min({RoomIn(s), Len(conn[s].wire)}))
ReadDone(s) == Len(conn[s].wire) >= RoomIn(s) \/ conn[s].eof
ReadFails(s) == Len(conn[s].wire) < RoomIn(s)

\* ReceiveTask.  What has been read is dropped when the job is no longer running.
Receive(s) ==
  /\ phase = "run" /\ conn[s].op = "receive" /\ ReadDone(s)
  /\ LET buf == conn[s].buf \o Arrived(s)
         rest == SubSeq(conn[s].wire, RoomIn(s) + 1, Len(conn[s].wire)) IN
     IF Arrived(s) = <<>> \/ ctx.status # "Running"
     THEN conn' = [conn EXCEPT ![s] = Gone(@)] /\ \E o \in Decrement(ctx) : Apply(o)
     ELSE /\ conn' = [conn EXCEPT ![s] = [(IF ReadFails(s) THEN Gone(@) ELSE @)
                                          EXCEPT !.buf = Leftover(buf), !.wire = rest]]
          /\ IF ReadFails(s) THEN \E o \in Decrement(PushGroups(ctx, buf)) : Apply(o)
             ELSE ctx' = PushGroups(ctx, buf) /\ UNCHANGED <<cache, sched>>
  /\ UNCHANGED <<phase, accept, listener, timer, sender>>

\* Mutant: the timer is armed again whatever the state.
UpsertForever ==
  /\ phase = "run" /\ timer
  /\ \E o \in Upserts(ctx) : o.ok /\ cache' = o.cache /\ ctx' = o.ctx
  /\ UNCHANGED <<phase, ops, sender, sched>>

\* PeriodicUpsertTask
PeriodicUpsert ==
  /\ phase = "run" /\ timer
  /\ IF ctx.status # "Running" THEN timer' = FALSE /\ UNCHANGED <<ctx, cache, accept, listener, sched>>
     ELSE \E o \in Upserts(ctx) :
       /\ cache' = o.cache /\ timer' = o.ok
       /\ IF o.ok THEN ctx' = o.ctx /\ UNCHANGED <<accept, listener, sched>>
          ELSE /\ ctx' = Stop(o.ctx, "UnrecoverableFailure")
               /\ accept' = Cancelled(accept) /\ listener' = Aborted(listener)
               /\ UNCHANGED sched
  /\ UNCHANGED <<phase, conn, sender>>

-----------------------------------------------------------------------------
(* SchedulerUpdateListenerTask                                             *)

Fails(c, status) ==
  /\ ctx' = Stop(c, status) /\ accept' = Cancelled(accept) /\ listener' = "none"
  /\ UNCHANGED <<timer, cache>>

\* The scheduler closed the connection (the job was cancelled, or it stopped),
\* or this process closed it.
ListenerEof ==
  /\ phase = "run"
  /\ listener = "aborted" \/ (listener = "pending" /\ sched.wire = <<>> /\ ~sched.open)
  /\ Fails(ctx, "RecoverableFailure")
  /\ UNCHANGED <<phase, conn, sender, sched>>

\* set_up_pipeline and the acknowledgement, in state Idle
StartJob(c) ==
  \/ /\ ctx' = [c EXCEPT !.status = "Running", !.job = sched.job,
                         !.timeline = sched.job \in Timeline]
     /\ sched' = [sched EXCEPT !.wire = <<>>, !.acks = @ + 1]
     /\ timer' = (sched.job \in Timeline) /\ listener' = "pending"
     /\ UNCHANGED <<accept, cache>>
  \/ /\ ~sched.open
     /\ ctx' = Stop([c EXCEPT !.job = sched.job, !.timeline = sched.job \in Timeline],
                    "RecoverableFailure")
     /\ accept' = Cancelled(accept) /\ listener' = "none"
     /\ timer' = (sched.job \in Timeline)
     /\ sched' = [sched EXCEPT !.wire = <<>>] /\ UNCHANGED cache

\* The "all results sent" message, in state Running
AllResultsSent(c) ==
  \E o \in TryFinalize([c EXCEPT !.status = "ReceivedAllResults"]) :
    /\ cache' = o.cache /\ sched' = [sched EXCEPT !.acks = @ + o.acks, !.wire = <<>>]
    /\ ctx' = IF o.ok THEN o.ctx ELSE Stop(o.ctx, "RecoverableFailure")
    /\ accept' = Cancelled(accept) /\ listener' = "none" /\ UNCHANGED timer

\* Part or all of a message arrives.  The bytes of this message start in the
\* buffer after what an earlier connection left there, and are read from its front.
ListenerRead ==
  /\ phase = "run" /\ listener = "pending" /\ sched.wire # <<>>
  /\ \E k \in 1..Len(sched.wire) :
       LET c == [ctx EXCEPT !.buf = @ \o SubSeq(sched.wire, 1, k), !.occupied = @ + k] IN
       IF c.occupied < Len(Message)
       THEN /\ ctx' = c /\ sched' = [sched EXCEPT !.wire = SubSeq(@, k + 1, Len(@))]
            /\ UNCHANGED <<accept, listener, timer, cache>>
       ELSE IF SubSeq(c.buf, 1, 2) # Message
       THEN /\ Fails(c, "RecoverableFailure")
            /\ sched' = [sched EXCEPT !.wire = SubSeq(@, k + 1, Len(@))]
       ELSE LET d == [c EXCEPT !.buf = <<>>, !.occupied = 0] IN
            IF d.status = "Idle" THEN StartJob(d) ELSE AllResultsSent(d)
  /\ UNCHANGED <<phase, conn, sender>>

-----------------------------------------------------------------------------
(* main                                                                    *)

\* register_with_scheduler, and the first two operations
Register ==
  /\ phase = "register" /\ sched.st = "away" /\ sched.next \in Jobs
  /\ phase' = "run" /\ ctx' = [ctx EXCEPT !.sock = TRUE, !.occupied = 0]
  /\ listener' = "pending" /\ QueueAccept
  /\ sched' = [sched EXCEPT !.st = "free", !.open = TRUE, !.wire = <<>>, !.acks = 0, !.job = NoJob]
  /\ UNCHANGED <<timer, conn, sender, cache>>

Outstanding == \/ accept # "none" \/ listener # "none" \/ timer
               \/ \E s \in Senders : conn[s].op \in {"validate", "receive"}

\* run() returns when no operation is outstanding.
RunReturns ==
  /\ phase = "run" /\ ~Outstanding
  /\ phase' = IF ctx.status \in {"ReceivedAllResults", "RecoverableFailure"}
              THEN "register" ELSE "exit"
  /\ ctx' = IF phase' = "exit" THEN [ctx EXCEPT !.sock = FALSE]
            ELSE [Reset(ctx) EXCEPT !.sock = FALSE]
  /\ conn' = IF phase' = "exit"
             THEN [s \in Senders |-> IF conn[s].op = "backlog" THEN Gone(conn[s]) ELSE conn[s]]
             ELSE conn
  /\ UNCHANGED <<accept, listener, timer, sender, sched, cache>>

-----------------------------------------------------------------------------
(* The senders: connect_to_reducer, send_pipeline_results.                 *)

JobOf(s) == CHOOSE j \in Jobs : s \in JobSenders[j]
Units(gs) == FlattenSeq([i \in DOMAIN gs |-> <<Unit(gs[i], "h"), Unit(gs[i], "b")>>])

\* BufferedSocketWriter::write: what leaves for the socket, and what stays.
Full(buf, data) == LET n == Len(buf) + Len(data) IN
  IF n <= BufSize THEN 0 ELSE ((n - 1) \div BufSize) * BufSize

Connect(s) ==
  /\ sender[s].st = "start" /\ phase # "exit"
  /\ sender' = [sender EXCEPT ![s] = [st |-> "wait", todo |-> Units(Groups[s]), out |-> <<>>]]
  /\ conn' = [conn EXCEPT ![s] = [NoConn EXCEPT !.op = "backlog", !.id = JobOf(s)]]
  /\ UNCHANGED <<phase, ctx, accept, listener, timer, sched, cache>>

\* The reducer's answer, or its end of the connection closing.
Answered(s) ==
  /\ sender[s].st = "wait" /\ (conn[s].yes \/ conn[s].op = "gone")
  /\ sender' = [sender EXCEPT ![s].st = IF conn[s].yes THEN "send" ELSE "failed"]
  /\ UNCHANGED <<phase, ctx, ops, sched, cache>>

Send(s) ==
  /\ sender[s].st = "send"
  /\ IF conn[s].op = "gone"
     THEN sender' = [sender EXCEPT ![s].st = "failed"] /\ UNCHANGED conn
     ELSE IF sender[s].todo # <<>>
     THEN LET all == Append(sender[s].out, Head(sender[s].todo))
              k == Full(sender[s].out, <<Head(sender[s].todo)>>) IN
          /\ sender' = [sender EXCEPT ![s].todo = Tail(@),
                                      ![s].out = SubSeq(all, k + 1, Len(all))]
          /\ conn' = [conn EXCEPT ![s].wire = @ \o SubSeq(all, 1, k)]
     ELSE /\ sender' = [sender EXCEPT ![s].st = "done", ![s].out = <<>>]
          /\ conn' = [conn EXCEPT ![s].wire = @ \o sender[s].out, ![s].eof = TRUE]
  /\ UNCHANGED <<phase, ctx, accept, listener, timer, sched, cache>>

\* The worker is killed: its job was cancelled, or it is lost.
Kill(s) ==
  /\ JobOf(s) \in sched.cancelled \/ "kill" \in Faults
  /\ sender[s].st \in {"start", "wait", "send"}
  /\ sender' = [sender EXCEPT ![s] = [st |-> "killed", todo |-> <<>>, out |-> <<>>]]
  /\ conn' = IF sender[s].st = "start" THEN conn ELSE [conn EXCEPT ![s].eof = TRUE]
  /\ UNCHANGED <<phase, ctx, accept, listener, timer, sched, cache>>

\* A sender that cannot connect any more.
NoReducer(s) ==
  /\ sender[s].st = "start" /\ phase = "exit"
  /\ sender' = [sender EXCEPT ![s].st = "failed"]
  /\ UNCHANGED <<phase, ctx, ops, sched, cache>>

-----------------------------------------------------------------------------
(* The scheduler's end of the connection (handle_reducer_connection).      *)

Closed == [sched EXCEPT !.open = FALSE, !.st = "away", !.acks = 0]
Ended(s) == sender[s].st \in {"done", "failed", "killed"}

SendConfig ==
  /\ sched.st = "free" /\ sched.next \in Jobs
  /\ sched' = [sched EXCEPT !.st = "config", !.job = sched.next, !.next = @ + 1, !.wire = Message]
  /\ UNCHANGED <<phase, ctx, ops, sender, cache>>

ConfigAcked ==
  /\ sched.st = "config" /\ sched.acks > 0
  /\ sched' = [sched EXCEPT !.st = "workers", !.acks = @ - 1]
  /\ sender' = [s \in Senders |-> IF s \in JobSenders[sched.job]
                                  THEN [sender[s] EXCEPT !.st = "start"] ELSE sender[s]]
  /\ UNCHANGED <<phase, ctx, ops, cache>>

WorkersDone ==
  /\ sched.st = "workers" /\ \A s \in JobSenders[sched.job] : Ended(s)
  /\ sched' = [sched EXCEPT !.st = "done", !.wire = Message]
  /\ UNCHANGED <<phase, ctx, ops, sender, cache>>

ReducerDone ==
  /\ sched.st = "done" /\ sched.acks > 0
  /\ sched' = Closed
  /\ UNCHANGED <<phase, ctx, ops, sender, cache>>

\* The job is cancelled, or the reducer closed the connection; with "midMessage"
\* the scheduler may stop between the two parts of a message.
CloseConnection ==
  /\ sched.st \in {"free", "config", "workers", "done"}
  /\ "cancel" \in Faults \/ ~ctx.sock
  /\ \E w \in {sched.wire} \cup (IF "midMessage" \in Faults /\ sched.wire # <<>>
                                 THEN {<<Head(sched.wire)>>} ELSE {}) :
       sched' = [Closed EXCEPT !.wire = w, !.cancelled = @ \cup {sched.job}]
  /\ UNCHANGED <<phase, ctx, ops, sender, cache>>

-----------------------------------------------------------------------------
ReducerStep ==
  \/ Register \/ RunReturns \/ AcceptCancelled \/ PeriodicUpsert \/ ListenerEof \/ ListenerRead
  \/ \E s \in Senders : Accepts(s) \/ Validate(s) \/ Receive(s)
SenderStep(s) == Connect(s) \/ Answered(s) \/ Send(s) \/ NoReducer(s)
SchedulerStep == SendConfig \/ ConfigAcked \/ WorkersDone \/ ReducerDone

Next == \/ ReducerStep \/ SchedulerStep \/ CloseConnection
        \/ \E s \in Senders : SenderStep(s) \/ Kill(s)

Spec == Init /\ [][Next]_vars

\* The event loop runs a handler that is ready before it takes it up again, the
\* search processes and the scheduler go on, and a revoked worker dies.
Fairness ==
  /\ WF_vars(Register) /\ WF_vars(RunReturns) /\ WF_vars(AcceptCancelled)
  /\ WF_vars(PeriodicUpsert) /\ WF_vars(ListenerEof) /\ WF_vars(ListenerRead)
  /\ WF_vars(SchedulerStep) /\ WF_vars(~ctx.sock /\ CloseConnection)
  /\ \A s \in Senders : /\ WF_vars(Accepts(s)) /\ WF_vars(Validate(s)) /\ WF_vars(Receive(s))
                        /\ WF_vars(SenderStep(s))
                        /\ WF_vars(JobOf(s) \in sched.cancelled /\ Kill(s))
FairSpec == Spec /\ Fairness

-----------------------------------------------------------------------------
(* Properties                                                              *)

\* Types of the state, with the bounds that the buffers and queues keep.
TypeOK ==
  /\ phase \in {"register", "run", "exit"} /\ ctx.status \in Statuses
  /\ ctx.job \in {NoJob} \cup Jobs /\ ctx.updated \subseteq Tags
  /\ accept \in {"none", "pending", "cancelled"} \cup Senders
  /\ listener \in {"none", "pending", "aborted"} /\ timer \in BOOLEAN
  /\ \A s \in Senders : /\ conn[s].op \in {"none", "backlog", "validate", "receive", "gone"}
                        /\ Len(conn[s].buf) < 2
                        /\ Len(sender[s].out) <= BufSize
  /\ ctx.active \in 0..Cardinality(Senders) /\ Len(ctx.buf) <= 4 /\ sched.acks \in 0..1

\* The counter that decides when all results are in is the number of senders with
\* a read outstanding: each task that ends counts itself out, once.
ActiveIsOutstanding ==
  ctx.active = Cardinality({s \in Senders : conn[s].op \in {"validate", "receive"}})

SumOf(S, t) == FoldSet(LAMBDA s, acc : acc + FoldLeft(LAMBDA a, g : IF g[1] = t THEN a + g[2] ELSE a,
                                                      0, Groups[s]), 0, S)

\* A sender of an earlier job, whose worker is still to be revoked, never adds to
\* the counts of the job the reducer has now, and no group is added twice.
CountsAreOwn ==
  ctx.job # NoJob => \A t \in Tags : ctx.counts[t] <= SumOf(JobSenders[ctx.job], t)

Acked(j) == sched.job = j /\ sched.st = "done" /\ sched.acks > 0

\* When the scheduler is told that the results are there, the cache holds what the
\* pipeline counted, whatever was upserted before and in which order.
CacheIsPipeline ==
  \A j \in Jobs : Acked(j) /\ ctx.job = j /\ phase = "run" => cache[j].counts = ctx.counts

\* The documents of a plain count are inserted once, though two tasks may find that
\* the job is over.
InsertedOnce == \A j \in Jobs : cache[j].writes <= 1

LateAccept == ctx.status \notin {"Idle", "Running"} /\ accept \in {"pending"} \cup Senders

\* A reducer whose job is over, cancelled or failed comes back to the scheduler or
\* exits, unless a connection was taken after the job was over: only then an accept
\* is queued again that nothing cancels.
ComesBack == (phase = "run" /\ ctx.status \notin {"Idle", "Running"}) ~> (phase # "run" \/ LateAccept)

\* A job that the scheduler gave to a reducer ends, with results or without,
\* whatever fails, but for the same case.
JobEnds == \A j \in Jobs : (sched.job = j /\ sched.st = "config")
                            ~> (sched.job # j \/ sched.st = "away" \/ LateAccept)

\* The reducer's counters and what it publishes are exact for the job it has.
ReducerCounts == TypeOK /\ ActiveIsOutstanding /\ CountsAreOwn /\ CacheIsPipeline /\ InsertedOnce

\* Neither the reducer nor the job it was given hangs, but for a late accept.
ReducerReturns == ComesBack /\ JobEnds

=============================================================================
