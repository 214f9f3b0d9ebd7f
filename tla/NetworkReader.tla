--------------------------- MODULE NetworkReader ---------------------------
(***************************************************************************)
(* clp::NetworkReader: a downloader thread runs libcurl and copies what it *)
(* delivers into a ring of buffers; the thread that owns the reader takes  *)
(* the filled buffers in order.  A mutex and two condition variables guard *)
(* the queue of filled buffers; the state, the curl code and the abort     *)
(* request are atomics written outside the mutex.  A byte is its position  *)
(* in the source.  A step of a thread is one atomic access, one critical   *)
(* section, or the part of one that precedes a wait.                       *)
(***************************************************************************)
EXTENDS Integers, Sequences, FiniteSets, FiniteSetsExt

CONSTANTS
  PoolSize,    \* m_buffer_pool_size (at least cMinBufferPoolSize)
  BufSize,     \* m_buffer_size, in bytes
  FileLen,     \* bytes of the source
  Offsets,     \* offsets a caller starts the download at
  MaxChunk,    \* bytes libcurl hands to the write callback at once, at most
  MaxRead      \* bytes a caller asks for at once, at most

(* The constructor raises the sizes to cMinBufferPoolSize and cMinBufferSize. *)
ASSUME NetworkReaderAssumption ==
  /\ PoolSize \in Nat \ {0} /\ BufSize \in Nat \ {0}
  /\ FileLen \in Nat /\ Offsets \subseteq 0 .. FileLen
  /\ MaxChunk \in Nat /\ MaxRead \in Nat

VARIABLES
  dl,          \* downloader thread: [pc, chunk, net, buf, idx, code]; buf = -1: unset
  rd,          \* reader thread: [pc, kind, want, got, start, buf]
  pool,        \* m_buffer_pool: buffer -> slot -> byte (0: never written)
  filled,      \* m_filled_buffer_queue: [idx, len]
  nr,          \* [state, ret, abort, oneByte, running]: the atomics
  mutex,       \* m_buffer_resource_mutex: "free" or its holder
  filePos,     \* m_file_pos
  offset,      \* m_offset
  sent,        \* bytes copied into the buffers so far, plus the offset
  out          \* what the last public call returned

nrVars == <<dl, rd, pool, filled, nr, mutex, filePos, offset, sent, out>>

NoBuf == [idx |-> -1, from |-> 0, len |-> 0]
Slots == 0 .. PoolSize - 1
CurlCodes == {"ok", "http", "timeout", "aborted", "write", "setup"}

NRInit ==
  /\ offset \in Offsets
  /\ dl = [pc |-> "ctor", chunk |-> 0, net |-> offset, buf |-> -1, idx |-> 0,
           code |-> "nullopt"]
  /\ rd = [pc |-> "idle", kind |-> "none", want |-> 0, got |-> <<>>, start |-> offset,
           buf |-> NoBuf]
  /\ pool = [b \in Slots |-> [i \in 1 .. BufSize |-> 0]]
  /\ filled = <<>>
  /\ nr = [state |-> "InProgress", ret |-> "nullopt", abort |-> FALSE, oneByte |-> FALSE,
           running |-> TRUE]
  /\ mutex = "free"
  /\ filePos = offset
  /\ sent = offset
  /\ out = [kind |-> "none", bytes |-> <<>>]

DownloadInProgress == nr.state = "InProgress"

-----------------------------------------------------------------------------
(* The downloader thread. *)

(* The constructor of CurlDownloadHandler throws when libcurl refuses an     *)
(* option or a header is reserved; then nothing is enqueued.                 *)
SetUp ==
  /\ dl.pc = "ctor"
  /\ \/ dl' = [dl EXCEPT !.pc = "perform"]
     \/ dl' = [dl EXCEPT !.pc = "ret", !.code = "setup"]
  /\ UNCHANGED <<rd, nr, pool, filled, mutex, filePos, offset, sent, out>>

(* curl_write_callback: a chunk of the source arrives. *)
Deliver ==
  /\ dl.pc = "perform"
  /\ \E k \in 1 .. MaxChunk :
       /\ dl.net + k <= FileLen
       /\ dl' = [dl EXCEPT !.pc = "acquire", !.chunk = k]
  /\ nr' = [nr EXCEPT !.oneByte = TRUE]
  /\ UNCHANGED <<rd, pool, filled, mutex, filePos, offset, sent, out>>

(* curl_easy_perform returns: at the end of the source, on an error of the   *)
(* server or the network, or because curl_progress_callback asked it to.     *)
Performed(code) == dl' = [dl EXCEPT !.pc = "last", !.chunk = 0, !.code = code]

EndTransfer ==
  /\ dl.pc = "perform"
  /\ \/ dl.net = FileLen /\ Performed("ok")
     \/ dl.net = offset /\ Performed("http")
     \/ Performed("timeout")
  /\ UNCHANGED <<rd, pool, filled, nr, mutex, filePos, offset, sent, out>>

AbortTransfer ==
  /\ dl.pc = "perform"
  /\ nr.abort
  /\ Performed("aborted")
  /\ UNCHANGED <<rd, pool, filled, nr, mutex, filePos, offset, sent, out>>

\* Mutant: a full queue takes one more.
OneTooMany == Len(filled) > PoolSize
QueueFull == Len(filled) = PoolSize

(* acquire_empty_buffer: the queue is looked at, and the abort request read, *)
(* with the mutex held; a full queue makes the thread keep it until it waits.*)
AcquireEmptyBuffer ==
  /\ dl.pc = "acquire"
  /\ IF dl.buf # -1 THEN dl' = [dl EXCEPT !.pc = "copy"] /\ UNCHANGED mutex
     ELSE /\ mutex = "free"
          /\ \/ ~QueueFull /\ dl' = [dl EXCEPT !.pc = "copy", !.buf = 0] /\ UNCHANGED mutex
             \/ QueueFull /\ nr.abort /\ Performed("write") /\ UNCHANGED mutex
             \/ QueueFull /\ ~nr.abort /\ mutex' = "downloader"
                /\ dl' = [dl EXCEPT !.pc = "block"]
  /\ UNCHANGED <<rd, pool, filled, nr, filePos, offset, sent, out>>

(* m_downloader_cv.wait: the mutex is given up in the step that starts the   *)
(* wait; only a notification ends it.                                        *)
DownloaderWait ==
  /\ dl.pc = "block"
  /\ dl' = [dl EXCEPT !.pc = "waiting"]
  /\ mutex' = "free"
  /\ UNCHANGED <<rd, pool, filled, nr, filePos, offset, sent, out>>

NotifyDownloader == [dl EXCEPT !.pc = IF @ = "waiting" THEN "acquire" ELSE @]
NotifyReader == [rd EXCEPT !.pc = IF @ = "waiting" THEN "get" ELSE @]

(* buffer_downloaded_data: copy what fits, then hand a full buffer over. *)
CopyIn ==
  /\ dl.pc = "copy"
  /\ LET k == Min({BufSize - dl.buf, dl.chunk})
     IN  /\ pool' = [pool EXCEPT ![dl.idx] =
                       [i \in 1 .. BufSize |-> IF i \in dl.buf + 1 .. dl.buf + k
                                               THEN dl.net + i - dl.buf ELSE @[i]]]
         /\ dl' = [dl EXCEPT !.buf = @ + k, !.chunk = @ - k, !.net = @ + k,
                             !.pc = IF dl.buf + k = BufSize THEN "enqueue"
                                    ELSE IF dl.chunk = k THEN "perform" ELSE "acquire"]
         /\ sent' = sent + k
  /\ UNCHANGED <<rd, filled, nr, mutex, filePos, offset, out>>

NextIdx == IF dl.idx + 1 = PoolSize THEN 0 ELSE dl.idx + 1

(* enqueue_filled_buffer, for a full buffer and, at the end, for the last    *)
(* one if it holds anything.                                                 *)
EnqueueFilledBuffer ==
  /\ dl.pc \in {"enqueue", "last"}
  /\ LET next == IF dl.pc = "last" THEN "ret" ELSE IF dl.chunk = 0 THEN "perform" ELSE "acquire"
     IN  IF dl.buf = -1 THEN dl' = [dl EXCEPT !.pc = next] /\ UNCHANGED <<filled, rd>>
         ELSE /\ mutex = "free"
              /\ filled' = Append(filled, [idx |-> dl.idx, len |-> dl.buf])
              /\ dl' = [dl EXCEPT !.pc = next, !.buf = -1, !.idx = NextIdx]
              /\ rd' = NotifyReader
  /\ UNCHANGED <<pool, nr, mutex, filePos, offset, sent, out>>

(* set_download_completion_status: the curl code first, then the state. *)
StoreRetCode ==
  /\ dl.pc = "ret"
  /\ nr' = [nr EXCEPT !.ret = dl.code]
  /\ dl' = [dl EXCEPT !.pc = "state"]
  /\ UNCHANGED <<rd, pool, filled, mutex, filePos, offset, sent, out>>

StoreState ==
  /\ dl.pc = "state"
  /\ nr' = [nr EXCEPT !.state = IF dl.code = "ok" THEN "Finished" ELSE "Failed"]
  /\ dl' = [dl EXCEPT !.pc = "notify"]
  /\ UNCHANGED <<rd, pool, filled, mutex, filePos, offset, sent, out>>

(* The end of thread_method, which takes the mutex to notify, and then of    *)
(* Thread::thread_entry_point.                                               *)
\* Mutant: the reader is not notified.
EndsSilently ==
  /\ dl.pc = "notify"
  /\ dl' = [dl EXCEPT !.pc = "exit"]
  /\ UNCHANGED <<rd, pool, filled, nr, mutex, filePos, offset, sent, out>>
LastNotify ==
  /\ dl.pc = "notify"
  /\ mutex = "free"
  /\ rd' = NotifyReader
  /\ dl' = [dl EXCEPT !.pc = "exit"]
  /\ UNCHANGED <<pool, filled, nr, mutex, filePos, offset, sent, out>>

ThreadExit ==
  /\ dl.pc = "exit"
  /\ nr' = [nr EXCEPT !.running = FALSE]
  /\ dl' = [dl EXCEPT !.pc = "exited"]
  /\ UNCHANGED <<rd, pool, filled, mutex, filePos, offset, sent, out>>

-----------------------------------------------------------------------------
(* The thread that owns the reader. *)

Call(kind, n) == rd' = [rd EXCEPT !.pc = "get", !.kind = kind, !.want = n, !.got = <<>>,
                                  !.start = filePos]
Answers(kind) == out' = [kind |-> kind, bytes |-> <<>>]

TryRead ==
  /\ rd.pc = "idle"
  /\ \E n \in 1 .. MaxRead : Call("read", n)
  /\ UNCHANGED <<dl, pool, filled, nr, mutex, filePos, offset, sent, out>>

TrySeekFromBegin ==
  /\ rd.pc = "idle"
  /\ \E pos \in 0 .. FileLen + 1 :
       \/ pos < filePos /\ Answers("unsupported") /\ UNCHANGED rd
       \/ pos = filePos /\ Answers("seek") /\ UNCHANGED rd
       \/ pos > filePos /\ Call("seek", pos - filePos) /\ UNCHANGED out
  /\ UNCHANGED <<dl, pool, filled, nr, mutex, filePos, offset, sent>>

(* With an offset, the position is known only once the server accepted it. *)
TryGetPos ==
  /\ rd.pc = "idle"
  /\ Answers(IF offset = 0 THEN "pos"
             ELSE IF ~DownloadInProgress /\ nr.ret = "nullopt" THEN "impossible"
             ELSE IF ~DownloadInProgress /\ nr.ret = "http" THEN "failure"
             ELSE IF ~nr.oneByte THEN "notReady"
             ELSE "pos")
  /\ UNCHANGED <<dl, rd, pool, filled, nr, mutex, filePos, offset, sent>>

(* read_from_filled_buffers returns to try_read or try_seek_from_begin. *)
Returns(kind, got) ==
  /\ rd' = [rd EXCEPT !.pc = "idle", !.want = 0, !.got = <<>>]
  /\ out' = [kind |-> kind, bytes |-> got]

NoMoreData == IF rd.kind = "seek" THEN "outOfBounds"
              ELSE IF rd.got = <<>> THEN "eof" ELSE "short"

\* Mutant: once the download is over the filled buffers are not looked at.
StopsEarly ==
  /\ rd.pc = "get"
  /\ rd.buf = NoBuf => mutex = "free"
  /\ \/ rd.buf # NoBuf /\ rd' = [rd EXCEPT !.pc = "copy"] /\ UNCHANGED <<mutex, out>>
     \/ rd.buf = NoBuf /\ ~DownloadInProgress /\ Returns(NoMoreData, rd.got) /\ UNCHANGED mutex
     \/ /\ rd.buf = NoBuf /\ DownloadInProgress /\ filled # <<>>
        /\ rd' = [rd EXCEPT !.pc = "copy", !.buf = [idx |-> Head(filled).idx, from |-> 0,
                                                    len |-> Head(filled).len]]
        /\ UNCHANGED <<mutex, out>>
  /\ UNCHANGED <<dl, pool, filled, nr, filePos, offset, sent>>
GetFilledBuffer ==
  /\ rd.pc = "get"
  /\ IF rd.buf # NoBuf THEN rd' = [rd EXCEPT !.pc = "copy"] /\ UNCHANGED <<mutex, out>>
     ELSE /\ mutex = "free"
          /\ \/ /\ filled # <<>>
                /\ rd' = [rd EXCEPT !.pc = "copy", !.buf = [idx |-> Head(filled).idx, from |-> 0,
                                                            len |-> Head(filled).len]]
                /\ UNCHANGED <<mutex, out>>
             \/ filled = <<>> /\ ~DownloadInProgress /\ Returns(NoMoreData, rd.got)
                /\ UNCHANGED mutex
             \/ filled = <<>> /\ DownloadInProgress /\ mutex' = "reader"
                /\ rd' = [rd EXCEPT !.pc = "block"] /\ UNCHANGED out
  /\ UNCHANGED <<dl, pool, filled, nr, filePos, offset, sent>>

ReaderWait ==
  /\ rd.pc = "block"
  /\ rd' = [rd EXCEPT !.pc = "waiting"]
  /\ mutex' = "free"
  /\ UNCHANGED <<dl, pool, filled, nr, filePos, offset, sent, out>>

CopyOut ==
  /\ rd.pc = "copy"
  /\ LET b == rd.buf
         k == Min({rd.want, b.len})
         got == rd.got \o [i \in 1 .. k |-> pool[b.idx][b.from + i]]
         next == [rd EXCEPT !.want = @ - k, !.got = got,
                            !.buf = [b EXCEPT !.from = @ + k, !.len = @ - k]]
     IN  /\ filePos' = filePos + k
         /\ \/ k = b.len /\ rd' = [next EXCEPT !.pc = "release"] /\ UNCHANGED out
            \/ k # b.len /\ rd' = [next EXCEPT !.pc = "idle", !.want = 0, !.got = <<>>]
               /\ out' = [kind |-> rd.kind, bytes |-> got]
  /\ UNCHANGED <<dl, pool, filled, nr, mutex, offset, sent>>

ReleaseEmptyBuffer ==
  /\ rd.pc = "release"
  /\ mutex = "free"
  /\ filled' = Tail(filled)
  /\ dl' = NotifyDownloader
  /\ IF rd.want > 0 THEN rd' = [rd EXCEPT !.pc = "get", !.buf = NoBuf] /\ UNCHANGED out
     ELSE /\ rd' = [rd EXCEPT !.pc = "idle", !.got = <<>>, !.buf = NoBuf]
          /\ out' = [kind |-> rd.kind, bytes |-> rd.got]
  /\ UNCHANGED <<pool, nr, mutex, filePos, offset, sent>>

(* ~NetworkReader: the abort request is stored, then notified with the mutex *)
(* held; the thread spins until the downloader left.                         *)
Destroy ==
  /\ rd.pc = "idle"
  /\ \/ ~DownloadInProgress /\ rd' = [rd EXCEPT !.pc = "spin"] /\ UNCHANGED nr
     \/ DownloadInProgress /\ rd' = [rd EXCEPT !.pc = "abort"] /\ nr' = [nr EXCEPT !.abort = TRUE]
  /\ UNCHANGED <<dl, pool, filled, mutex, filePos, offset, sent, out>>

SubmitAbort ==
  /\ rd.pc = "abort"
  /\ mutex = "free"
  /\ dl' = NotifyDownloader
  /\ rd' = [rd EXCEPT !.pc = "spin"]
  /\ UNCHANGED <<pool, filled, nr, mutex, filePos, offset, sent, out>>

Gone ==
  /\ rd.pc = "spin"
  /\ ~nr.running
  /\ rd' = [rd EXCEPT !.pc = "gone"]
  /\ UNCHANGED <<dl, pool, filled, nr, mutex, filePos, offset, sent, out>>

-----------------------------------------------------------------------------
DownloaderStep == SetUp \/ AcquireEmptyBuffer \/ DownloaderWait \/ CopyIn \/ EnqueueFilledBuffer
                  \/ StoreRetCode \/ StoreState \/ LastNotify \/ ThreadExit

ReaderStep == GetFilledBuffer \/ ReaderWait \/ CopyOut \/ ReleaseEmptyBuffer \/ SubmitAbort \/ Gone

Caller == TryRead \/ TrySeekFromBegin \/ TryGetPos \/ Destroy

Server == Deliver \/ EndTransfer

NRNext == DownloaderStep \/ ReaderStep \/ Caller \/ Server \/ AbortTransfer

NRSpec == NRInit /\ [][NRNext]_nrVars

(* Both threads are scheduled, and libcurl calls the progress callback as    *)
(* long as a transfer runs.  Nothing is assumed of the server: without a     *)
(* timeout (the default) a transfer may stall for ever.                      *)
NRFairSpec == NRSpec /\ WF_nrVars(DownloaderStep) /\ WF_nrVars(ReaderStep) /\ WF_nrVars(AbortTransfer)
-----------------------------------------------------------------------------

(* Every variable keeps its type; the reader's view stays inside a buffer. *)
NRTypeOK ==
  /\ dl \in [pc : {"ctor", "perform", "acquire", "block", "waiting", "copy", "enqueue", "last",
                   "ret", "state", "notify", "exit", "exited"},
             chunk : 0 .. MaxChunk, net : 0 .. FileLen, buf : -1 .. BufSize, idx : Slots,
             code : CurlCodes \cup {"nullopt"}]
  /\ rd.pc \in {"idle", "get", "block", "waiting", "copy", "release", "abort", "spin", "gone"}
  /\ rd.buf # NoBuf => rd.buf.idx \in Slots /\ rd.buf.from + rd.buf.len \in 1 .. BufSize
  /\ Len(filled) <= PoolSize
  /\ \A i \in DOMAIN filled : filled[i].idx \in Slots /\ filled[i].len \in 1 .. BufSize
  /\ nr.state \in {"InProgress", "Failed", "Finished"}
  /\ nr.ret \in CurlCodes \cup {"nullopt"}
  /\ mutex \in {"free", "reader", "downloader"}
  /\ filePos \in 0 .. FileLen /\ sent \in 0 .. FileLen

(* The buffer the downloader fills is none of the filled ones, the one the   *)
(* reader copies from included: the ring never wraps onto unread bytes       *)
(* (acquire_empty_buffer waits while the queue has m_buffer_pool_size).      *)
NoOverwrite == dl.buf # -1 => \A i \in DOMAIN filled : filled[i].idx # dl.idx

(* Whoever sees that the download is over finds the curl code: the throw     *)
(* that try_get_pos calls impossible is never reached, because               *)
(* set_download_completion_status stores the code before the state.          *)
CodeBeforeState == out.kind # "impossible"

(* The ring of buffers is safe between the two threads: it never wraps onto  *)
(* unread bytes (enqueue_filled_buffer and release_empty_buffer move its     *)
(* ends), and whoever sees that the download is over finds its code.         *)
RingIsKept == NRTypeOK /\ NoOverwrite /\ CodeBeforeState

InCall == rd.pc \in {"get", "block", "waiting", "copy", "release"}

(* NetworkReader is a byte stream: reads and seeks return exactly the next   *)
(* bytes of the source, whatever the order in which the two threads run, and *)
(* an end of file only after the download stopped and every byte that was    *)
(* buffered, those of an aborted or failed download included, was read.      *)
Stream == INSTANCE ByteStream WITH head <- IF InCall THEN rd.start ELSE filePos,
                                   limit <- sent, ended <- ~DownloadInProgress
IsByteStream == Stream!BSSpec

(* With a server that keeps sending, a read or a seek returns: no            *)
(* notification is lost between the check of the queue and the wait.         *)
ReadReturns == WF_nrVars(Server) => (InCall ~> ~InCall)

(* The destructor returns even if the server stalls: the downloader notices  *)
(* the request in the progress callback or in its wait for a buffer.         *)
DestructorReturns == (rd.pc \in {"abort", "spin"}) ~> (rd.pc = "gone")

(* Nobody waits for ever on the two condition variables, neither in a call   *)
(* nor in ~NetworkReader.                                                    *)
NetworkReaderServes == ReadReturns /\ DestructorReturns
=============================================================================
