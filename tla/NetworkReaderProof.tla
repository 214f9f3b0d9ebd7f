------------------------- MODULE NetworkReaderProof -------------------------
(***************************************************************************)
(* Proofs about NetworkReader for any number and size of buffers, any      *)
(* source, any chunks of libcurl and any calls: the ring of buffers is     *)
(* kept, and the two threads together implement ByteStream.                *)
(***************************************************************************)
EXTENDS NetworkReader, TLAPS

DlType ==
  [pc : {"ctor", "perform", "acquire", "block", "waiting", "copy", "enqueue", "last", "ret",
         "state", "notify", "exit", "exited"},
   chunk : 0 .. MaxChunk, net : 0 .. FileLen, buf : -1 .. BufSize, idx : Slots,
   code : CurlCodes \cup {"nullopt"}]

RdType ==
  [pc : {"idle", "get", "block", "waiting", "copy", "release", "abort", "spin", "gone"},
   kind : {"none", "read", "seek"}, want : Nat, got : Seq(Nat), start : Nat,
   buf : [idx : -1 .. PoolSize - 1, from : Nat, len : Nat]]

NrType ==
  [state : {"InProgress", "Failed", "Finished"}, ret : CurlCodes \cup {"nullopt"},
   abort : BOOLEAN, oneByte : BOOLEAN, running : BOOLEAN]

OutType ==
  [kind : {"none", "read", "seek", "unsupported", "pos", "failure", "notReady", "outOfBounds",
           "eof", "short"},
   bytes : Seq(Nat)]

EntryType == [idx : Slots, len : 1 .. BufSize]

(* Every variable keeps its type, in full.                                   *)
NRTypes ==
  /\ dl \in DlType
  /\ rd \in RdType
  /\ pool \in [Slots -> [1 .. BufSize -> Nat]]
  /\ filled \in Seq(EntryType)
  /\ nr \in NrType
  /\ mutex \in {"free", "reader", "downloader"}
  /\ filePos \in Nat /\ offset \in Nat /\ sent \in Nat
  /\ out \in OutType

Holding == dl.buf # -1

(* The bytes in the buffer that the downloader is filling.                   *)
Current == IF Holding THEN dl.buf ELSE 0

(* What the downloader has in hand at each of its steps.                     *)
DownloaderInv ==
  /\ dl.net = sent
  /\ dl.net + dl.chunk <= FileLen
  /\ dl.pc = "copy" => Holding /\ dl.buf < BufSize /\ dl.chunk > 0
  /\ dl.pc = "acquire" => dl.buf < BufSize /\ dl.chunk > 0
  /\ dl.pc \in {"block", "waiting"} => ~Holding /\ dl.chunk > 0
  /\ dl.pc = "enqueue" => dl.buf = BufSize
  /\ dl.pc \in {"ctor", "perform"} => dl.buf < BufSize
  /\ dl.pc \in {"ctor", "ret", "state", "notify", "exit", "exited"} => ~Holding
  /\ Holding => dl.buf > 0 \/ dl.pc = "copy"
  /\ dl.pc \in {"last", "ret", "state", "notify", "exit", "exited"} => dl.code # "nullopt"
  /\ dl.pc \in {"state", "notify", "exit", "exited"} => nr.ret # "nullopt"
  /\ DownloadInProgress <=> dl.pc \notin {"notify", "exit", "exited"}

(* The index d places before m_curr_downloader_buf_idx, going round the ring. *)
IdxBefore(d) == IF dl.idx >= d THEN dl.idx - d ELSE dl.idx - d + PoolSize

(* The filled buffers are the ones before m_curr_downloader_buf_idx.         *)
RingInv ==
  /\ Len(filled) <= PoolSize
  /\ Holding => Len(filled) < PoolSize
  /\ \A i \in 1 .. Len(filled) : filled[i].idx = IdxBefore(Len(filled) - i + 1)

(* The first byte of the i-th filled buffer, and one past its last.          *)
First(i) == pool[filled[i].idx][1]
Past(i) == First(i) + filled[i].len

(* The buffers hold the bytes from the reader's position to the last one     *)
(* that was downloaded, in order and without a gap.                          *)
ContentInv ==
  /\ \A i \in 1 .. Len(filled) : \A k \in 1 .. filled[i].len :
       pool[filled[i].idx][k] = First(i) + k - 1
  /\ \A i \in 1 .. Len(filled) : i > 1 => First(i) = Past(i - 1)
  /\ \A i \in 1 .. Len(filled) : Past(i) <= sent - Current + 1
  /\ filled # <<>> => /\ First(1) = filePos - rd.buf.from + 1
                      /\ Past(Len(filled)) = sent - Current + 1
  /\ filled = <<>> => filePos = sent - Current
  /\ Holding => \A k \in 1 .. dl.buf : pool[dl.idx][k] = sent - dl.buf + k

(* What the reader has in hand at each of its steps; within a call, the      *)
(* bytes it got are those that follow the position where the call began.     *)
ReaderInv ==
  /\ rd.buf # NoBuf => /\ filled # <<>>
                       /\ rd.buf.idx = filled[1].idx
                       /\ rd.buf.from + rd.buf.len = filled[1].len
                       /\ rd.buf.len > 0 \/ rd.pc = "release"
  /\ rd.buf = NoBuf \/ rd.buf.idx # -1
  /\ rd.pc \in {"block", "waiting"} => rd.buf = NoBuf
  /\ rd.pc \in {"copy", "release"} => rd.buf # NoBuf
  /\ rd.pc = "release" => rd.buf.len = 0
  /\ rd.pc \in {"get", "block", "waiting", "copy"} => rd.want > 0
  /\ InCall => /\ rd.kind \in {"read", "seek"}
               /\ rd.start <= filePos
               /\ rd.got = Stream!Bytes(rd.start, filePos - rd.start)

NRInv == NRTypes /\ DownloaderInv /\ RingInv /\ ContentInv /\ ReaderInv

-----------------------------------------------------------------------------
(* Arithmetic, sequences and records. *)

(* std::min of two numbers is one of them and at most both. *)
LEMMA MinOfTwo ==
  ASSUME NEW a \in Int, NEW b \in Int
  PROVE  /\ Min({a, b}) \in {a, b}
         /\ Min({a, b}) <= a /\ Min({a, b}) <= b
<1>1. \E x \in {a, b} : \A y \in {a, b} : x =< y
  <2>1. CASE a <= b
    BY <2>1
  <2>2. CASE b <= a
    BY <2>2
  <2> QED
    BY <2>1, <2>2
<1>2. /\ Min({a, b}) \in {a, b}
      /\ \A y \in {a, b} : Min({a, b}) =< y
  BY <1>1 DEF Min
<1> QED
  BY <1>2

(* A copy continues the bytes that a call already got. *)
LEMMA BytesConcat ==
  ASSUME NEW s \in Nat, NEW k \in Nat, NEW l \in Nat
  PROVE  Stream!Bytes(s, k) \o [i \in 1 .. l |-> s + k + i] = Stream!Bytes(s, k + l)
  BY DEF Stream!Bytes

(* A stretch of the source is a sequence of its length. *)
LEMMA BytesType ==
  ASSUME NEW s \in Nat, NEW k \in Nat
  PROVE  Stream!Bytes(s, k) \in Seq(Nat) /\ Len(Stream!Bytes(s, k)) = k
  BY DEF Stream!Bytes

(* A stretch of length zero is empty. *)
LEMMA NoBytes == \A s \in Nat : Stream!Bytes(s, 0) = <<>>
  BY DEF Stream!Bytes

(* The entries of a queue are elements of its type. *)
LEMMA QueueElement ==
  ASSUME NEW S, NEW q \in Seq(S), NEW i \in 1 .. Len(q)
  PROVE  q[i] \in S
  OBVIOUS

(* What is left of the filled queue once its first entry is taken. *)
LEMMA RemainingQueue ==
  ASSUME NEW S, NEW q \in Seq(S), q # <<>>
  PROVE  /\ Tail(q) \in Seq(S) /\ Len(Tail(q)) = Len(q) - 1
         /\ \A i \in 1 .. Len(q) - 1 : Tail(q)[i] = q[i + 1]
         /\ Head(q) = q[1] /\ q[1] \in S /\ Len(q) \in Nat \ {0}
         /\ Tail(q) = <<>> <=> Len(q) = 1
<1>1. /\ Tail(q) \in Seq(S) /\ Len(Tail(q)) = Len(q) - 1
      /\ \A i \in 1 .. Len(q) - 1 : Tail(q)[i] = q[i + 1]
      /\ Head(q) = q[1] /\ q[1] \in S /\ Len(q) \in Nat \ {0}
  OBVIOUS
<1>2. \A s \in Seq(S) : s = <<>> <=> Len(s) = 0
  OBVIOUS
<1>3. Len(q) - 1 = 0 <=> Len(q) = 1
  BY <1>1
<1> QED
  BY <1>1, <1>2, <1>3

(* What the filled queue is once an entry is appended. *)
LEMMA ExtendedQueue ==
  ASSUME NEW S, NEW q \in Seq(S), NEW e \in S
  PROVE  /\ Append(q, e) \in Seq(S) /\ Len(Append(q, e)) = Len(q) + 1
         /\ \A i \in 1 .. Len(q) : Append(q, e)[i] = q[i]
         /\ Append(q, e)[Len(q) + 1] = e
         /\ Append(q, e) # <<>>
  OBVIOUS

(* The types of the numbers that the arithmetic below is about. *)
LEMMA Sizes ==
  /\ PoolSize \in Nat /\ PoolSize > 0 /\ BufSize \in Nat /\ BufSize > 0
  /\ FileLen \in Nat /\ MaxChunk \in Nat /\ MaxRead \in Nat
  /\ \A o \in Offsets : o \in Nat /\ o <= FileLen
  BY NetworkReaderAssumption

(* The numbers the downloader thread works with. *)
LEMMA DlNumbers ==
  ASSUME NRTypes
  PROVE  /\ dl.chunk \in Nat /\ dl.chunk <= MaxChunk
         /\ dl.net \in Nat /\ dl.net <= FileLen
         /\ dl.buf \in Int /\ dl.buf >= -1 /\ dl.buf <= BufSize
         /\ dl.idx \in Nat /\ dl.idx < PoolSize /\ dl.idx \in Slots
  BY Sizes DEF NRTypes, DlType, Slots

(* The numbers the reader thread works with. *)
LEMMA RdNumbers ==
  ASSUME NRTypes
  PROVE  /\ rd.want \in Nat /\ rd.start \in Nat
         /\ rd.buf.idx \in Int /\ rd.buf.from \in Nat /\ rd.buf.len \in Nat
         /\ filePos \in Nat /\ sent \in Nat /\ Len(filled) \in Nat
  BY Sizes DEF NRTypes, RdType

(* A filled entry is a slot of the pool with at least one byte. *)
LEMMA FilledEntry ==
  ASSUME NRTypes, NEW i \in 1 .. Len(filled)
  PROVE  /\ filled[i].idx \in Slots
         /\ filled[i].len \in Nat /\ filled[i].len > 0 /\ filled[i].len <= BufSize
         /\ First(i) \in Nat /\ Past(i) \in Nat
<1>1. filled[i] \in EntryType
  BY QueueElement DEF NRTypes
<1>2. /\ filled[i].idx \in Slots
      /\ filled[i].len \in Nat /\ filled[i].len > 0 /\ filled[i].len <= BufSize
  BY <1>1, Sizes DEF EntryType
<1>3. pool[filled[i].idx] \in [1 .. BufSize -> Nat]
  BY <1>2 DEF NRTypes
<1>4. 1 \in 1 .. BufSize
  BY Sizes
<1>5. First(i) \in Nat
  BY <1>3, <1>4 DEF First
<1> QED
  BY <1>2, <1>5 DEF Past

-----------------------------------------------------------------------------
(* Steps that leave alone what a conjunct is about. *)

(* A step that leaves the downloader and the state flags alone keeps DownloaderInv. *)
LEMMA DownloaderFrame ==
  ASSUME DownloaderInv, dl' = dl, sent' = sent, nr'.state = nr.state, nr'.ret = nr.ret
  PROVE  DownloaderInv'
  BY DEF DownloaderInv, Holding, DownloadInProgress

(* A step that leaves the queue and the acquired slot alone keeps RingInv. *)
LEMMA RingFrame ==
  ASSUME RingInv, filled' = filled, dl'.idx = dl.idx, dl'.buf = dl.buf
  PROVE  RingInv'
  BY DEF RingInv, Holding, IdxBefore

(* A step that leaves the buffers and both positions alone keeps ContentInv. *)
LEMMA ContentFrame ==
  ASSUME ContentInv, UNCHANGED <<pool, filled, filePos, sent>>, rd'.buf.from = rd.buf.from,
         dl'.idx = dl.idx, dl'.buf = dl.buf
  PROVE  ContentInv'
  BY DEF ContentInv, Holding, First, Past, Current

(* A step that leaves the reader, the queue and the position alone keeps ReaderInv. *)
LEMMA ReaderFrame ==
  ASSUME ReaderInv, UNCHANGED <<rd, filled, filePos>>
  PROVE  ReaderInv'
  BY DEF ReaderInv, InCall

-----------------------------------------------------------------------------
(* The downloader's steps. *)

(* SetUp keeps the invariant. *)
LEMMA SetUpKeeps == NRInv /\ SetUp => NRInv'
<1> SUFFICES ASSUME NRInv, SetUp PROVE NRInv'
  OBVIOUS
<1>1. dl' \in DlType
  BY DEF NRInv, NRTypes, SetUp, DlType, CurlCodes
<1>2. NRTypes'
  BY <1>1 DEF NRInv, NRTypes, SetUp
<1>3. DownloaderInv'
  BY DEF NRInv, NRTypes, SetUp, DlType, DownloaderInv, Holding, DownloadInProgress
<1>4. dl'.idx = dl.idx /\ dl'.buf = dl.buf
  BY DEF NRInv, NRTypes, SetUp, DlType
<1> QED
  BY <1>2, <1>3, <1>4, RingFrame, ContentFrame, ReaderFrame DEF NRInv, SetUp

(* Deliver keeps the invariant. *)
LEMMA DeliverKeeps == NRInv /\ Deliver => NRInv'
<1> SUFFICES ASSUME NRInv, Deliver PROVE NRInv'
  OBVIOUS
<1>1. dl' \in DlType
  <2>1. PICK k \in 1 .. MaxChunk : dl' = [dl EXCEPT !.pc = "acquire", !.chunk = k]
    BY DEF Deliver
  <2>2. k \in 0 .. MaxChunk
    BY NetworkReaderAssumption
  <2> QED
    BY <2>1, <2>2 DEF NRInv, NRTypes, DlType
<1>2. nr' \in NrType
  BY DEF NRInv, NRTypes, Deliver, NrType
<1>3. NRTypes'
  BY <1>1, <1>2 DEF NRInv, NRTypes, Deliver
<1>4. DownloaderInv'
  BY DEF NRInv, NRTypes, Deliver, DlType, NrType, DownloaderInv, Holding, DownloadInProgress
<1>5. dl'.idx = dl.idx /\ dl'.buf = dl.buf
  BY DEF NRInv, NRTypes, Deliver, DlType
<1> QED
  BY <1>3, <1>4, <1>5, RingFrame, ContentFrame, ReaderFrame DEF NRInv, Deliver

(* The end of a transfer keeps the invariant. *)
LEMMA EndTransferKeeps == NRInv /\ (EndTransfer \/ AbortTransfer) => NRInv'
<1> SUFFICES ASSUME NRInv, NEW code \in CurlCodes, dl.pc = "perform", Performed(code),
                    UNCHANGED <<rd, pool, filled, nr, mutex, filePos, offset, sent, out>>
             PROVE  NRInv'
  BY DEF EndTransfer, AbortTransfer, CurlCodes
<1>0. 0 \in 0 .. MaxChunk
  BY NetworkReaderAssumption
<1>1. dl' \in DlType
  BY <1>0 DEF NRInv, NRTypes, Performed, DlType
<1>2. NRTypes'
  BY <1>1 DEF NRInv, NRTypes
<1>3. DownloaderInv'
  BY DEF NRInv, NRTypes, Performed, DlType, DownloaderInv, Holding, DownloadInProgress, CurlCodes
<1>4. dl'.idx = dl.idx /\ dl'.buf = dl.buf
  BY DEF NRInv, NRTypes, Performed, DlType
<1> QED
  BY <1>2, <1>3, <1>4, RingFrame, ContentFrame, ReaderFrame DEF NRInv

(* acquire_empty_buffer keeps the invariant. *)
LEMMA AcquireKeeps == NRInv /\ AcquireEmptyBuffer => NRInv'
<1> SUFFICES ASSUME NRInv, AcquireEmptyBuffer PROVE NRInv'
  OBVIOUS
<1>0. /\ 0 \in 0 .. MaxChunk /\ 0 \in -1 .. BufSize /\ 0 < BufSize
      /\ PoolSize \in Nat /\ dl.chunk \in Nat /\ dl.net \in Nat /\ FileLen \in Nat
  BY NetworkReaderAssumption DEF NRInv, NRTypes, DlType
<1>1. dl' \in DlType
  <2>1. \/ dl' = [dl EXCEPT !.pc = "copy"]
        \/ dl' = [dl EXCEPT !.pc = "copy", !.buf = 0]
        \/ dl' = [dl EXCEPT !.pc = "last", !.chunk = 0, !.code = "write"]
        \/ dl' = [dl EXCEPT !.pc = "block"]
    BY DEF AcquireEmptyBuffer, Performed
  <2>2. dl \in DlType /\ "write" \in CurlCodes
    BY DEF NRInv, NRTypes, CurlCodes
  <2> QED
    BY <1>0, <2>1, <2>2 DEF DlType
<1>2. NRTypes'
  BY <1>1 DEF NRInv, NRTypes, AcquireEmptyBuffer
<1>3. ReaderInv'
  BY ReaderFrame DEF NRInv, AcquireEmptyBuffer
<1>4. CASE ~Holding /\ ~QueueFull
  <2>1. dl' = [dl EXCEPT !.pc = "copy", !.buf = 0]
    BY <1>4 DEF AcquireEmptyBuffer, Holding
  <2>2. DownloaderInv'
    BY <1>0, <2>1
       DEF NRInv, NRTypes, DlType, AcquireEmptyBuffer, DownloaderInv, Holding, DownloadInProgress
  <2>3. RingInv'
    BY <1>0, <1>4, <2>1
       DEF NRInv, NRTypes, DlType, AcquireEmptyBuffer, RingInv, IdxBefore, Holding,
           QueueFull
  <2>4. ContentInv'
    BY <1>4, <2>1
       DEF NRInv, NRTypes, DlType, AcquireEmptyBuffer, ContentInv, Holding, First, Past, Current
  <2> QED
    BY <1>2, <1>3, <2>2, <2>3, <2>4 DEF NRInv
<1>5. CASE Holding \/ QueueFull
  <2>1. dl'.idx = dl.idx /\ dl'.buf = dl.buf
    BY <1>5 DEF NRInv, NRTypes, DlType, AcquireEmptyBuffer, Performed, Holding
  <2>2. ASSUME dl' = [dl EXCEPT !.pc = "copy"], Holding PROVE DownloaderInv'
    BY <1>0, <2>2
       DEF NRInv, NRTypes, DlType, AcquireEmptyBuffer, DownloaderInv, Holding, DownloadInProgress
  <2>3. ASSUME Performed("write"), ~Holding PROVE DownloaderInv'
    BY <1>0, <2>3
       DEF NRInv, NRTypes, DlType, AcquireEmptyBuffer, DownloaderInv, Holding, DownloadInProgress,
           Performed
  <2>4. ASSUME dl' = [dl EXCEPT !.pc = "block"], ~Holding PROVE DownloaderInv'
    BY <1>0, <2>4
       DEF NRInv, NRTypes, DlType, AcquireEmptyBuffer, DownloaderInv, Holding, DownloadInProgress
  <2>5. DownloaderInv'
    BY <1>5, <2>2, <2>3, <2>4 DEF AcquireEmptyBuffer, Holding
  <2> QED
    BY <1>2, <1>3, <2>1, <2>5, RingFrame, ContentFrame DEF NRInv, AcquireEmptyBuffer
<1> QED
  BY <1>4, <1>5

(* Waiting for an empty buffer keeps the invariant. *)
LEMMA DownloaderWaitKeeps == NRInv /\ DownloaderWait => NRInv'
<1> SUFFICES ASSUME NRInv, DownloaderWait PROVE NRInv'
  OBVIOUS
<1>1. dl' \in DlType
  BY DEF NRInv, NRTypes, DownloaderWait, DlType
<1>2. NRTypes'
  BY <1>1 DEF NRInv, NRTypes, DownloaderWait
<1>3. DownloaderInv'
  BY DEF NRInv, NRTypes, DownloaderWait, DlType, DownloaderInv, Holding, DownloadInProgress
<1>4. dl'.idx = dl.idx /\ dl'.buf = dl.buf
  BY DEF NRInv, NRTypes, DownloaderWait, DlType
<1> QED
  BY <1>2, <1>3, <1>4, RingFrame, ContentFrame, ReaderFrame DEF NRInv, DownloaderWait

(* After the transfer: the code, the state, the notification, the exit. *)
LEMMA CompletionKeeps ==
  NRInv /\ (StoreRetCode \/ StoreState \/ ThreadExit) => NRInv'
<1> SUFFICES ASSUME NRInv, StoreRetCode \/ StoreState \/ ThreadExit PROVE NRInv'
  OBVIOUS
<1>1. dl' \in DlType
  BY DEF NRInv, NRTypes, StoreRetCode, StoreState, ThreadExit, DlType
<1>2. nr' \in NrType
  BY DEF NRInv, NRTypes, StoreRetCode, StoreState, ThreadExit, NrType, DlType
<1>3. NRTypes'
  BY <1>1, <1>2 DEF NRInv, NRTypes, StoreRetCode, StoreState, ThreadExit
<1>4. DownloaderInv'
  <2>1. CASE StoreRetCode
    BY <2>1 DEF NRInv, NRTypes, StoreRetCode, DlType, NrType, DownloaderInv, Holding,
                DownloadInProgress
  <2>2. CASE StoreState
    BY <2>2 DEF NRInv, NRTypes, StoreState, DlType, NrType, DownloaderInv, Holding,
                DownloadInProgress
  <2>3. CASE ThreadExit
    BY <2>3 DEF NRInv, NRTypes, ThreadExit, DlType, NrType, DownloaderInv, Holding,
                DownloadInProgress
  <2> QED
    BY <2>1, <2>2, <2>3
<1>5. dl'.idx = dl.idx /\ dl'.buf = dl.buf
  BY DEF NRInv, NRTypes, StoreRetCode, StoreState, ThreadExit, DlType
<1> QED
  BY <1>3, <1>4, <1>5, RingFrame, ContentFrame, ReaderFrame
     DEF NRInv, StoreRetCode, StoreState, ThreadExit

(* A notification makes a waiting reader look at the queue again. *)
LEMMA NotifyReaderKeeps ==
  ASSUME NRInv, rd' = NotifyReader
  PROVE  /\ rd' \in RdType /\ rd'.buf = rd.buf
         /\ UNCHANGED <<filled, filePos>> => ReaderInv'
<1>1. rd' \in RdType /\ rd'.buf = rd.buf
  BY DEF NRInv, NRTypes, NotifyReader, RdType
<1>2. ASSUME UNCHANGED <<filled, filePos>> PROVE ReaderInv'
  BY <1>2 DEF NRInv, NRTypes, NotifyReader, RdType, ReaderInv, InCall
<1> QED
  BY <1>1, <1>2

(* The last notification of the downloader keeps the invariant. *)
LEMMA LastNotifyKeeps == NRInv /\ LastNotify => NRInv'
<1> SUFFICES ASSUME NRInv, LastNotify PROVE NRInv'
  OBVIOUS
<1>1. dl' \in DlType
  BY DEF NRInv, NRTypes, LastNotify, DlType
<1>2. NRTypes' /\ ReaderInv'
  BY <1>1, NotifyReaderKeeps DEF NRInv, NRTypes, LastNotify
<1>3. DownloaderInv'
  BY DEF NRInv, NRTypes, LastNotify, DlType, DownloaderInv, Holding, DownloadInProgress
<1>4. dl'.idx = dl.idx /\ dl'.buf = dl.buf
  BY DEF NRInv, NRTypes, LastNotify, DlType
<1> QED
  BY <1>2, <1>3, <1>4, RingFrame, ContentFrame, NotifyReaderKeeps DEF NRInv, LastNotify

(* The ring never wraps onto a filled buffer. *)
LEMMA RingIsFree ==
  ASSUME NRInv, Holding, NEW i \in 1 .. Len(filled)
  PROVE  filled[i].idx # dl.idx /\ filled[i].idx \in Slots
<1>1. /\ Len(filled) \in Nat /\ Len(filled) < PoolSize
      /\ filled[i].idx = IdxBefore(Len(filled) - i + 1)
  BY RdNumbers DEF NRInv, RingInv
<1>2. \A d \in 1 .. PoolSize - 1 : IdxBefore(d) # dl.idx
  BY Sizes, DlNumbers DEF NRInv, IdxBefore
<1>3. Len(filled) - i + 1 \in 1 .. PoolSize - 1
  BY <1>1, Sizes
<1> QED
  BY <1>1, <1>2, <1>3, FilledEntry DEF NRInv

Overwrite(N, f, b, k, s) ==
  [i \in 1 .. N |-> IF i \in b + 1 .. b + k THEN s + i - b ELSE f[i]]

Extended(g, N, f, b, k, s) ==
  /\ g \in [1 .. N -> Nat]
  /\ \A i \in 1 .. b : g[i] = f[i]
  /\ \A i \in b + 1 .. b + k : g[i] = s + i - b

(* What a buffer holds after k bytes from the position s on were added to b. *)
LEMMA Overwritten ==
  ASSUME NEW N \in Nat, NEW f \in [1 .. N -> Nat], NEW b \in Nat, NEW k \in Nat, b + k <= N,
         NEW s \in Nat
  PROVE  Extended(Overwrite(N, f, b, k, s), N, f, b, k, s)
<1> DEFINE g == Overwrite(N, f, b, k, s)
<1>0. g = [i \in 1 .. N |-> IF i \in b + 1 .. b + k THEN s + i - b ELSE f[i]]
  BY DEF Overwrite
<1> HIDE DEF g
<1>1. \A i \in 1 .. N : g[i] \in Nat
  <2> SUFFICES ASSUME NEW i \in 1 .. N PROVE g[i] \in Nat
    OBVIOUS
  <2>1. CASE i \in b + 1 .. b + k
    BY <1>0, <2>1
  <2>2. CASE i \notin b + 1 .. b + k
    BY <1>0, <2>2
  <2> QED
    BY <2>1, <2>2
<1>2. \A i \in 1 .. b : i \in 1 .. N /\ i \notin b + 1 .. b + k
  OBVIOUS
<1>3. \A i \in b + 1 .. b + k : i \in 1 .. N
  OBVIOUS
<1>4. g \in [1 .. N -> Nat]
  BY <1>0, <1>1
<1>5. \A i \in 1 .. b : g[i] = f[i]
  BY <1>0, <1>2
<1>6. \A i \in b + 1 .. b + k : g[i] = s + i - b
  BY <1>0, <1>3
<1> QED
  BY <1>4, <1>5, <1>6 DEF g, Extended

(* Copying a chunk into the buffer keeps the invariant. *)
LEMMA CopyInKeeps == NRInv /\ CopyIn => NRInv'
<1> SUFFICES ASSUME NRInv, CopyIn PROVE NRInv'
  OBVIOUS
<1> DEFINE k == Min({BufSize - dl.buf, dl.chunk})
<1>1. /\ BufSize \in Nat /\ FileLen \in Nat /\ MaxChunk \in Nat /\ dl.chunk \in Nat
      /\ dl.buf \in Nat /\ dl.buf < BufSize /\ dl.chunk > 0 /\ dl.net \in Nat /\ Holding
      /\ dl.net + dl.chunk <= FileLen /\ dl.net = sent /\ dl.idx \in Slots /\ dl.chunk <= MaxChunk
      /\ DownloadInProgress /\ sent \in Nat
  <2>1. NRTypes /\ dl.pc = "copy"
    BY DEF NRInv, CopyIn
  <2>2. /\ Holding /\ dl.buf < BufSize /\ dl.chunk > 0 /\ dl.net = sent /\ DownloadInProgress
        /\ dl.net + dl.chunk <= FileLen /\ dl.buf # -1
    BY <2>1 DEF NRInv, DownloaderInv, Holding
  <2>3. sent \in Nat
    BY <2>1, RdNumbers
  <2> QED
    BY <2>1, <2>2, <2>3, Sizes, DlNumbers
<1>2. /\ k \in Nat /\ k > 0 /\ k <= dl.chunk /\ dl.buf + k <= BufSize
      /\ k = dl.chunk \/ dl.buf + k = BufSize
  <2>1. BufSize - dl.buf \in Int /\ dl.chunk \in Int
    BY <1>1
  <2>2. k \in {BufSize - dl.buf, dl.chunk} /\ k <= BufSize - dl.buf /\ k <= dl.chunk
    BY <2>1, MinOfTwo
  <2> HIDE DEF k
  <2> QED
    BY <1>1, <2>2
<1> PICK old : old = pool[dl.idx]
  OBVIOUS
<1> DEFINE fresh == Overwrite(BufSize, old, dl.buf, k, dl.net)
<1>3. /\ pool' = [pool EXCEPT ![dl.idx] = fresh]
      /\ dl' = [dl EXCEPT !.buf = @ + k, !.chunk = @ - k, !.net = @ + k,
                          !.pc = IF dl.buf + k = BufSize THEN "enqueue"
                                 ELSE IF dl.chunk = k THEN "perform" ELSE "acquire"]
      /\ sent' = sent + k
      /\ UNCHANGED <<rd, filled, nr, mutex, filePos, offset, out>>
  BY DEF CopyIn, Overwrite
<1> HIDE DEF k
<1>4. /\ dl'.buf = dl.buf + k /\ dl'.chunk = dl.chunk - k /\ dl'.net = dl.net + k
      /\ dl'.idx = dl.idx /\ dl'.code = dl.code /\ dl' \in DlType
      /\ dl'.pc = IF dl.buf + k = BufSize THEN "enqueue"
                  ELSE IF dl.chunk = k THEN "perform" ELSE "acquire"
  <2>1. /\ dl.buf + k \in -1 .. BufSize /\ dl.chunk - k \in 0 .. MaxChunk
        /\ dl.net + k \in 0 .. FileLen
    BY <1>1, <1>2
  <2> QED
    BY <1>3, <2>1 DEF NRInv, NRTypes, DlType
<1>5. /\ fresh \in [1 .. BufSize -> Nat]
      /\ \A i \in 1 .. dl.buf : fresh[i] = old[i]
      /\ \A i \in dl.buf + 1 .. dl.buf + k : fresh[i] = dl.net + i - dl.buf
  <2>1. old \in [1 .. BufSize -> Nat]
    BY <1>1 DEF NRInv, NRTypes
  <2>2. /\ BufSize \in Nat /\ dl.buf \in Nat /\ k \in Nat /\ dl.net \in Nat
        /\ dl.buf + k <= BufSize
    BY <1>1, <1>2
  <2>3. Extended(fresh, BufSize, old, dl.buf, k, dl.net)
    BY <2>1, <2>2, Overwritten
  <2> HIDE DEF fresh
  <2> QED
    BY <2>3 DEF Extended
<1> HIDE DEF fresh
<1>6. /\ pool' \in [Slots -> [1 .. BufSize -> Nat]]
      /\ pool'[dl.idx] = fresh
      /\ \A b \in Slots : b # dl.idx => pool'[b] = pool[b]
  BY <1>1, <1>3, <1>5 DEF NRInv, NRTypes
<1>7. NRTypes'
  BY <1>1, <1>2, <1>3, <1>4, <1>6 DEF NRInv, NRTypes
<1>8. DownloaderInv'
  <2>1. sent' = sent + k /\ nr' = nr /\ dl.pc = "copy"
    BY <1>3 DEF CopyIn
  <2>2. dl'.buf # -1 /\ dl'.buf > 0 /\ dl'.net = sent' /\ dl'.net + dl'.chunk <= FileLen
    BY <1>1, <1>2, <1>4, <2>1
  <2>3. /\ dl'.pc \in {"enqueue", "perform", "acquire"}
        /\ dl'.pc = "enqueue" => dl'.buf = BufSize
        /\ dl'.pc \in {"perform", "acquire"} => dl'.buf < BufSize
        /\ dl'.pc = "acquire" => dl'.chunk > 0
    BY <1>1, <1>2, <1>4
  <2> QED
    BY <1>1, <2>1, <2>2, <2>3 DEF DownloaderInv, Holding, DownloadInProgress
<1>9. RingInv'
  BY <1>1, <1>2, <1>3, <1>4 DEF NRInv, RingInv, IdxBefore, Holding
<1>10. ContentInv'
  <2>1. \A i \in 1 .. Len(filled) : filled[i].idx \in Slots /\ filled[i].idx # dl.idx
    BY <1>1, RingIsFree
  <2>2. \A i \in 1 .. Len(filled) : pool'[filled[i].idx] = pool[filled[i].idx]
    BY <2>1, <1>6
  <2>3. sent' - Current' = sent - Current /\ Holding' /\ Holding
    BY <1>1, <1>2, <1>3, <1>4 DEF Current, Holding
  <2>4. \A i \in 1 .. Len(filled) : First(i)' = First(i) /\ Past(i)' = Past(i)
    BY <2>2, <1>3 DEF First, Past
  <2>5. \A i \in 1 .. dl'.buf : pool'[dl'.idx][i] = sent' - dl'.buf + i
    <3> SUFFICES ASSUME NEW i \in 1 .. dl.buf + k PROVE fresh[i] = sent - dl.buf + i
      BY <1>1, <1>2, <1>3, <1>4, <1>6
    <3>0. \A j \in 1 .. dl.buf : old[j] = sent - dl.buf + j
      BY <1>1 DEF NRInv, ContentInv
    <3>1. CASE i \in 1 .. dl.buf
      BY <3>0, <3>1, <1>5
    <3>2. CASE i \in dl.buf + 1 .. dl.buf + k
      <4>1. fresh[i] = dl.net + i - dl.buf
        BY <3>2, <1>5
      <4>2. dl.net + i - dl.buf = sent - dl.buf + i
        BY <3>2, <1>1, <1>2
      <4> QED
        BY <4>1, <4>2
    <3> QED
      BY <3>1, <3>2, <1>1, <1>2
  <2>6. Len(filled) \in Nat /\ rd' = rd /\ filled' = filled /\ filePos' = filePos
    BY <1>3 DEF NRInv, NRTypes
  <2> QED
    BY <2>2, <2>3, <2>4, <2>5, <2>6 DEF NRInv, ContentInv
<1>11. ReaderInv'
  BY <1>3, ReaderFrame DEF NRInv
<1> QED
  BY <1>7, <1>8, <1>9, <1>10, <1>11 DEF NRInv

(* enqueue_filled_buffer keeps the invariant. *)
LEMMA EnqueueKeeps == NRInv /\ EnqueueFilledBuffer => NRInv'
<1> SUFFICES ASSUME NRInv, EnqueueFilledBuffer PROVE NRInv'
  OBVIOUS
<1> DEFINE next == IF dl.pc = "last" THEN "ret" ELSE IF dl.chunk = 0 THEN "perform" ELSE "acquire"
           e == [idx |-> dl.idx, len |-> dl.buf]
<1> PICK n \in Nat : n = Len(filled)
  BY RdNumbers DEF NRInv
<1>1. /\ PoolSize \in Nat \ {0} /\ BufSize \in Nat \ {0} /\ FileLen \in Nat
      /\ dl.chunk \in Nat /\ dl.buf \in Int /\ dl.buf <= BufSize /\ dl.buf >= -1
      /\ dl.idx \in Nat /\ dl.idx < PoolSize /\ dl.net \in Nat /\ sent \in Nat /\ filePos \in Nat
      /\ n = Len(filled) /\ rd.buf.from \in Nat
  <2>1. NRTypes
    BY DEF NRInv
  <2>2. sent \in Nat /\ filePos \in Nat /\ rd.buf.from \in Nat
    BY <2>1, RdNumbers
  <2> QED
    BY <2>1, <2>2, Sizes, DlNumbers
<1>2. CASE ~Holding
  <2>1. /\ dl' = [dl EXCEPT !.pc = next]
        /\ UNCHANGED <<rd, pool, filled, nr, mutex, filePos, offset, sent, out>>
    BY <1>2 DEF EnqueueFilledBuffer, Holding
  <2>2. dl' \in DlType /\ dl'.idx = dl.idx /\ dl'.buf = dl.buf
    BY <2>1 DEF NRInv, NRTypes, DlType
  <2>3. NRTypes'
    BY <2>1, <2>2 DEF NRInv, NRTypes
  <2>4. DownloaderInv'
    BY <1>1, <1>2, <2>1
       DEF NRInv, NRTypes, DlType, EnqueueFilledBuffer, DownloaderInv, Holding, DownloadInProgress
  <2> QED
    BY <2>1, <2>2, <2>3, <2>4, RingFrame, ContentFrame, ReaderFrame DEF NRInv
<1>3. CASE Holding
  <2>1. /\ filled' = Append(filled, e)
        /\ dl' = [dl EXCEPT !.pc = next, !.buf = -1, !.idx = NextIdx]
        /\ rd' = NotifyReader
        /\ UNCHANGED <<pool, nr, mutex, filePos, offset, sent, out>>
    BY <1>3 DEF EnqueueFilledBuffer, Holding
  <2>2. dl.buf > 0 /\ n < PoolSize /\ ~Holding' /\ Current' = 0 /\ Current = dl.buf
    BY <1>1, <1>3, <2>1
       DEF NRInv, NRTypes, DlType, DownloaderInv, RingInv, Holding, Current, EnqueueFilledBuffer
  <2>3. e \in EntryType
    BY <1>1, <2>2 DEF Slots, EntryType
  <2>4. /\ filled' \in Seq(EntryType)
        /\ Len(filled') = n + 1 /\ filled' # <<>>
        /\ \A i \in 1 .. n : filled'[i] = filled[i]
        /\ filled'[n + 1] = e
        /\ n = 0 <=> filled = <<>>
    BY <2>1, <2>3, ExtendedQueue DEF NRInv, NRTypes
  <2>5. /\ NextIdx \in Slots /\ dl' \in DlType /\ dl'.idx = NextIdx /\ dl'.pc = next /\ dl'.buf = -1
        /\ dl'.net = dl.net /\ dl'.chunk = dl.chunk /\ dl'.code = dl.code
    <3>1. NextIdx \in Slots /\ -1 \in -1 .. BufSize
      BY <1>1 DEF NextIdx, Slots
    <3> QED
      BY <3>1, <2>1 DEF NRInv, NRTypes, DlType
  <2>6. NRTypes'
    BY <2>1, <2>4, <2>5, NotifyReaderKeeps DEF NRInv, NRTypes
  <2>7. DownloaderInv'
    BY <1>1, <1>3, <2>1, <2>5
       DEF NRInv, EnqueueFilledBuffer, DownloaderInv, Holding, DownloadInProgress
  <2>8. RingInv'
    <3>0. /\ PoolSize \in Nat /\ dl.idx \in Nat /\ dl.idx < PoolSize
          /\ dl'.idx = IF dl.idx + 1 = PoolSize THEN 0 ELSE dl.idx + 1
      BY <1>1, <2>5 DEF NextIdx
    <3>1. \A d \in 1 .. PoolSize - 1 : IdxBefore(d + 1)' = IdxBefore(d)
      BY <3>0 DEF IdxBefore
    <3>2. IdxBefore(1)' = dl.idx
      BY <3>0 DEF IdxBefore
    <3>3. ASSUME NEW i \in 1 .. n + 1
          PROVE  filled'[i].idx = IdxBefore(n + 1 - i + 1)'
      <4>1. CASE i = n + 1
        BY <4>1, <1>1, <2>4, <3>2
      <4>2. CASE i \in 1 .. n
        <5>1. n - i + 1 \in 1 .. PoolSize - 1 /\ (n - i + 1) + 1 = n + 1 - i + 1
          BY <4>2, <1>1, <2>2
        <5>2. filled[i].idx = IdxBefore(n - i + 1)
          BY <4>2, <1>1 DEF NRInv, RingInv
        <5> QED
          BY <4>2, <5>1, <5>2, <2>4, <3>1
      <4> QED
        BY <4>1, <4>2
    <3> QED
      BY <3>3, <1>1, <2>2, <2>4 DEF RingInv
  <2>9. ContentInv'
    <3>1. \A i \in 1 .. n : First(i)' = First(i) /\ Past(i)' = Past(i)
      BY <2>1, <2>4 DEF First, Past
    <3>2. /\ First(n + 1)' = sent - dl.buf + 1 /\ Past(n + 1)' = sent + 1
          /\ \A k \in 1 .. dl.buf : pool'[filled'[n + 1].idx][k] = sent - dl.buf + k
      <4>1. filled'[n + 1].idx = dl.idx /\ filled'[n + 1].len = dl.buf /\ pool' = pool
        BY <2>1, <2>4
      <4>2. \A k \in 1 .. dl.buf : pool[dl.idx][k] = sent - dl.buf + k
        BY <1>3 DEF NRInv, ContentInv
      <4>3. 1 \in 1 .. dl.buf /\ (sent - dl.buf + 1) + dl.buf = sent + 1
        BY <1>1, <2>2
      <4>4. First(n + 1)' = sent - dl.buf + 1
        BY <4>1, <4>2, <4>3 DEF First
      <4>5. Past(n + 1)' = First(n + 1)' + dl.buf
        BY <4>1 DEF Past
      <4> QED
        BY <4>1, <4>2, <4>3, <4>4, <4>5
    <3>3. \A i \in 1 .. n : Past(i) \in Nat
      BY <1>1, FilledEntry DEF NRInv
    <3>4. \A i \in 1 .. n + 1 : \A k \in 1 .. filled'[i].len :
             pool'[filled'[i].idx][k] = First(i)' + k - 1
      <4> SUFFICES ASSUME NEW i \in 1 .. n + 1, NEW k \in 1 .. filled'[i].len
                   PROVE  pool'[filled'[i].idx][k] = First(i)' + k - 1
        OBVIOUS
      <4>1. CASE i = n + 1
        BY <4>1, <1>1, <2>4, <3>2
      <4>2. CASE i \in 1 .. n
        BY <4>2, <2>1, <2>4, <3>1 DEF NRInv, ContentInv
      <4> QED
        BY <4>1, <4>2, <1>1
    <3>5. ASSUME NEW i \in 1 .. n + 1
          PROVE  (i > 1 => First(i)' = Past(i - 1)') /\ Past(i)' <= sent + 1
      <4>1. CASE i = n + 1
        <5>1. i > 1 => n \in 1 .. n /\ i - 1 = n /\ filled # <<>>
          BY <4>1, <2>4
        <5>2. i > 1 => Past(n) = sent - dl.buf + 1
          BY <5>1, <1>1, <2>2 DEF NRInv, ContentInv
        <5>3. sent + 1 <= sent + 1
          BY <1>1
        <5> QED
          BY <4>1, <5>1, <5>2, <5>3, <3>1, <3>2
      <4>2. CASE i \in 1 .. n
        <5>1. Past(i) <= sent - dl.buf + 1 /\ (i > 1 => First(i) = Past(i - 1))
          BY <4>2, <2>2 DEF NRInv, ContentInv
        <5>2. Past(i) \in Nat /\ Past(i) <= sent + 1
          BY <4>2, <5>1, <1>1, <2>2, <3>3
        <5>3. i > 1 => i - 1 \in 1 .. n
          BY <4>2
        <5> QED
          BY <4>2, <5>1, <5>2, <5>3, <3>1
      <4> QED
        BY <4>1, <4>2, <1>1
    <3>6. First(1)' = filePos' - rd'.buf.from + 1
      <4>1. CASE n = 0
        <5>1. rd.buf = NoBuf /\ filePos = sent - dl.buf
          BY <4>1, <2>2, <2>4 DEF NRInv, ReaderInv, ContentInv
        <5> QED
          BY <4>1, <5>1, <1>1, <2>1, <3>2, NotifyReaderKeeps DEF NoBuf
      <4>2. CASE n > 0
        <5>1. filled # <<>> /\ 1 \in 1 .. n
          BY <4>2, <1>1, <2>4
        <5>2. First(1) = filePos - rd.buf.from + 1
          BY <5>1 DEF NRInv, ContentInv
        <5>3. rd'.buf = rd.buf /\ filePos' = filePos
          BY <2>1, NotifyReaderKeeps
        <5> QED
          BY <3>1, <5>1, <5>2, <5>3
      <4> QED
        BY <4>1, <4>2, <1>1
    <3>7. sent' - Current' + 1 = sent + 1
      BY <1>1, <2>1, <2>2
    <3> QED
      BY <2>2, <2>4, <3>2, <3>4, <3>5, <3>6, <3>7 DEF ContentInv
  <2>10. ReaderInv'
    <3>1. filled # <<>> => filled' # <<>> /\ filled'[1] = filled[1]
      BY <1>1, <2>4
    <3>2. rd'.buf = rd.buf /\ filePos' = filePos
      BY <2>1, NotifyReaderKeeps
    <3> QED
      BY <2>1, <2>4, <3>1, <3>2 DEF NRInv, NRTypes, NotifyReader, RdType, ReaderInv, InCall
  <2> QED
    BY <2>6, <2>7, <2>8, <2>9, <2>10 DEF NRInv
<1> QED
  BY <1>2, <1>3

-----------------------------------------------------------------------------
(* The reader's steps. *)

(* Waiting for a filled buffer keeps the invariant. *)
LEMMA ReaderWaitKeeps == NRInv /\ ReaderWait => NRInv'
<1> SUFFICES ASSUME NRInv, ReaderWait PROVE NRInv'
  OBVIOUS
<1>1. rd' \in RdType /\ rd'.buf = rd.buf
  BY DEF NRInv, NRTypes, ReaderWait, RdType
<1>2. NRTypes'
  BY <1>1 DEF NRInv, NRTypes, ReaderWait
<1>3. ReaderInv'
  BY DEF NRInv, NRTypes, ReaderWait, RdType, ReaderInv, InCall
<1> QED
  BY <1>1, <1>2, <1>3, DownloaderFrame, RingFrame, ContentFrame DEF NRInv, ReaderWait

(* The end of the destructor, once the downloader has stopped, keeps the invariant. *)
LEMMA GoneKeeps == NRInv /\ Gone => NRInv'
<1> SUFFICES ASSUME NRInv, Gone PROVE NRInv'
  OBVIOUS
<1>1. rd' \in RdType /\ rd'.buf = rd.buf
  BY DEF NRInv, NRTypes, Gone, RdType
<1>2. NRTypes'
  BY <1>1 DEF NRInv, NRTypes, Gone
<1>3. ReaderInv'
  BY DEF NRInv, NRTypes, Gone, RdType, ReaderInv, InCall
<1> QED
  BY <1>1, <1>2, <1>3, DownloaderFrame, RingFrame, ContentFrame DEF NRInv, Gone

(* The destructor keeps the invariant. *)
LEMMA DestroyKeeps == NRInv /\ Destroy => NRInv'
<1> SUFFICES ASSUME NRInv, Destroy PROVE NRInv'
  OBVIOUS
<1>1. rd' \in RdType /\ rd'.buf = rd.buf
  BY DEF NRInv, NRTypes, Destroy, RdType
<1>2. nr' \in NrType /\ nr'.state = nr.state /\ nr'.ret = nr.ret
  BY DEF NRInv, NRTypes, Destroy, NrType
<1>3. NRTypes'
  BY <1>1, <1>2 DEF NRInv, NRTypes, Destroy
<1>4. ReaderInv'
  BY DEF NRInv, NRTypes, Destroy, RdType, ReaderInv, InCall
<1> QED
  BY <1>1, <1>2, <1>3, <1>4, DownloaderFrame, RingFrame, ContentFrame DEF NRInv, Destroy

(* A notification makes a waiting downloader look at the queue again. *)
LEMMA NotifyDownloaderKeeps ==
  ASSUME NRInv, dl' = NotifyDownloader, UNCHANGED <<sent, nr>>
  PROVE  dl' \in DlType /\ dl'.idx = dl.idx /\ dl'.buf = dl.buf /\ DownloaderInv'
<1>1. dl' \in DlType /\ dl'.idx = dl.idx /\ dl'.buf = dl.buf
  BY DEF NRInv, NRTypes, NotifyDownloader, DlType
<1>2. CASE dl.pc = "waiting"
  <2>1. dl' = [dl EXCEPT !.pc = "acquire"] /\ dl.buf = -1 /\ -1 < BufSize
    BY <1>2, Sizes DEF NRInv, NRTypes, DlType, NotifyDownloader, DownloaderInv, Holding
  <2> QED
    BY <1>1, <1>2, <2>1 DEF NRInv, NRTypes, DlType, DownloaderInv, Holding, DownloadInProgress
<1>3. CASE dl.pc # "waiting"
  <2>1. dl' = dl
    BY <1>3 DEF NRInv, NRTypes, DlType, NotifyDownloader
  <2> QED
    BY <1>1, <2>1, DownloaderFrame DEF NRInv
<1> QED
  BY <1>2, <1>3

(* submit_abort_request keeps the invariant. *)
LEMMA SubmitAbortKeeps == NRInv /\ SubmitAbort => NRInv'
<1> SUFFICES ASSUME NRInv, SubmitAbort PROVE NRInv'
  OBVIOUS
<1>1. rd' \in RdType /\ rd'.buf = rd.buf
  BY DEF NRInv, NRTypes, SubmitAbort, RdType
<1>2. dl' \in DlType /\ dl'.idx = dl.idx /\ dl'.buf = dl.buf /\ DownloaderInv'
  BY NotifyDownloaderKeeps DEF SubmitAbort
<1>3. NRTypes'
  BY <1>1, <1>2 DEF NRInv, NRTypes, SubmitAbort
<1>4. ReaderInv'
  BY DEF NRInv, NRTypes, SubmitAbort, RdType, ReaderInv, InCall
<1> QED
  BY <1>1, <1>2, <1>3, <1>4, RingFrame, ContentFrame DEF NRInv, SubmitAbort

(* A call begins with nothing got and the head where it is. *)
LEMMA CallKeeps ==
  ASSUME NRInv, NEW kind \in {"read", "seek"}, NEW n \in Nat \ {0}, rd.pc = "idle", Call(kind, n),
         UNCHANGED <<dl, pool, filled, nr, mutex, filePos, offset, sent, out>>
  PROVE  NRInv'
<1>0. filePos \in Nat /\ n \in Nat /\ <<>> \in Seq(Nat) /\ kind \in {"none", "read", "seek"}
  BY DEF NRInv, NRTypes
<1>1. rd' \in RdType /\ rd'.buf = rd.buf
  BY <1>0 DEF NRInv, NRTypes, Call, RdType
<1>2. NRTypes'
  BY <1>1 DEF NRInv, NRTypes
<1>3. ReaderInv'
  <2>1. filePos - filePos = 0 /\ Stream!Bytes(filePos, 0) = <<>> /\ filePos <= filePos
    BY RdNumbers, NoBytes DEF NRInv
  <2> QED
    BY <2>1 DEF NRInv, NRTypes, Call, RdType, ReaderInv, InCall
<1> QED
  BY <1>1, <1>2, <1>3, DownloaderFrame, RingFrame, ContentFrame DEF NRInv

(* The start of try_read keeps the invariant. *)
LEMMA TryReadKeeps == NRInv /\ TryRead => NRInv'
<1> SUFFICES ASSUME NRInv, TryRead PROVE NRInv'
  OBVIOUS
<1>1. PICK n \in 1 .. MaxRead : Call("read", n)
  BY DEF TryRead
<1>2. n \in Nat \ {0}
  BY Sizes
<1> QED
  BY <1>1, <1>2, CallKeeps DEF TryRead

(* A call that only answers keeps the invariant. *)
LEMMA AnswerKeeps ==
  ASSUME NRInv, NEW kind, Answers(kind),
         kind \in {"unsupported", "seek", "pos", "failure", "notReady"},
         UNCHANGED <<dl, rd, pool, filled, nr, mutex, filePos, offset, sent>>
  PROVE  NRInv'
<1>1. out' \in OutType
  BY DEF Answers, OutType
<1>2. NRTypes'
  BY <1>1 DEF NRInv, NRTypes
<1> QED
  BY <1>2, DownloaderFrame, RingFrame, ContentFrame, ReaderFrame DEF NRInv

(* try_seek_from_begin keeps the invariant. *)
LEMMA TrySeekKeeps == NRInv /\ TrySeekFromBegin => NRInv'
<1> SUFFICES ASSUME NRInv, TrySeekFromBegin PROVE NRInv'
  OBVIOUS
<1>1. PICK pos \in 0 .. FileLen + 1 :
        \/ pos < filePos /\ Answers("unsupported") /\ UNCHANGED rd
        \/ pos = filePos /\ Answers("seek") /\ UNCHANGED rd
        \/ pos > filePos /\ Call("seek", pos - filePos) /\ UNCHANGED out
  BY DEF TrySeekFromBegin
<1>2. pos > filePos => pos - filePos \in Nat \ {0}
  BY Sizes, RdNumbers DEF NRInv
<1> QED
  BY <1>1, <1>2, CallKeeps, AnswerKeeps DEF TrySeekFromBegin

(* try_get_pos never finds a finished download without its code. *)
LEMMA TryGetPosKeeps == NRInv /\ TryGetPos => NRInv'
<1> SUFFICES ASSUME NRInv, TryGetPos PROVE NRInv'
  OBVIOUS
<1>1. ~DownloadInProgress => nr.ret # "nullopt"
  BY DEF NRInv, NRTypes, DlType, DownloaderInv
<1>2. \E kind \in {"pos", "failure", "notReady"} : Answers(kind)
  BY <1>1 DEF TryGetPos
<1> QED
  BY <1>2, AnswerKeeps DEF TryGetPos

(* get_filled_buffer keeps the invariant. *)
LEMMA GetFilledBufferKeeps == NRInv /\ GetFilledBuffer => NRInv'
<1> SUFFICES ASSUME NRInv, GetFilledBuffer PROVE NRInv'
  OBVIOUS
<1>1. CASE rd.buf # NoBuf
  <2>1. rd' = [rd EXCEPT !.pc = "copy"]
        /\ UNCHANGED <<dl, pool, filled, nr, mutex, filePos, offset, sent, out>>
    BY <1>1 DEF GetFilledBuffer
  <2>2. rd' \in RdType /\ rd'.buf = rd.buf
    BY <2>1 DEF NRInv, NRTypes, RdType
  <2>3. NRTypes'
    BY <2>1, <2>2 DEF NRInv, NRTypes
  <2>4. ReaderInv'
    BY <1>1, <2>1 DEF NRInv, NRTypes, GetFilledBuffer, RdType, ReaderInv, InCall
  <2> QED
    BY <2>1, <2>2, <2>3, <2>4, DownloaderFrame, RingFrame, ContentFrame DEF NRInv
<1>2. CASE rd.buf = NoBuf /\ filled # <<>>
  <2> DEFINE b == [idx |-> Head(filled).idx, from |-> 0, len |-> Head(filled).len]
  <2>1. rd' = [rd EXCEPT !.pc = "copy", !.buf = b]
        /\ UNCHANGED <<dl, pool, filled, nr, mutex, filePos, offset, sent, out>>
    BY <1>2 DEF GetFilledBuffer
  <2>2. Head(filled) = filled[1] /\ 1 \in 1 .. Len(filled)
    BY <1>2, RemainingQueue DEF NRInv, NRTypes
  <2>3. filled[1].idx \in Slots /\ filled[1].len \in Nat /\ filled[1].len > 0
    BY <2>2, FilledEntry DEF NRInv
  <2>4. b \in [idx : -1 .. PoolSize - 1, from : Nat, len : Nat]
        /\ b.idx = filled[1].idx /\ b.idx # -1 /\ b.len = filled[1].len /\ b.from = 0
    BY <2>2, <2>3, Sizes DEF Slots
  <2>5. b # NoBuf
    BY <2>4 DEF NoBuf
  <2> HIDE DEF b
  <2>6. rd' \in RdType /\ rd'.buf = b /\ rd'.pc = "copy" /\ rd'.want = rd.want
        /\ rd'.kind = rd.kind /\ rd'.start = rd.start /\ rd'.got = rd.got
    BY <2>1, <2>4 DEF NRInv, NRTypes, RdType
  <2>7. NRTypes'
    BY <2>1, <2>6 DEF NRInv, NRTypes
  <2>8. ReaderInv'
    BY <1>2, <2>1, <2>3, <2>4, <2>5, <2>6 DEF NRInv, GetFilledBuffer, ReaderInv, InCall
  <2>9. rd'.buf.from = rd.buf.from
    BY <1>2, <2>4, <2>6 DEF NoBuf
  <2> QED
    BY <2>1, <2>7, <2>8, <2>9, DownloaderFrame, RingFrame, ContentFrame DEF NRInv
<1>3. CASE rd.buf = NoBuf /\ filled = <<>> /\ ~DownloadInProgress
  <2>1. /\ Returns(NoMoreData, rd.got)
        /\ UNCHANGED <<dl, pool, filled, nr, mutex, filePos, offset, sent>>
    BY <1>3 DEF GetFilledBuffer
  <2>0. 0 \in Nat /\ <<>> \in Seq(Nat)
    OBVIOUS
  <2>2. rd' \in RdType /\ rd'.buf = rd.buf
    BY <2>0, <2>1 DEF NRInv, NRTypes, RdType, Returns
  <2>3. out' \in OutType
    BY <2>1 DEF NRInv, NRTypes, RdType, OutType, Returns, NoMoreData
  <2>4. NRTypes'
    BY <2>1, <2>2, <2>3 DEF NRInv, NRTypes
  <2>5. ReaderInv'
    BY <1>3, <2>1 DEF NRInv, NRTypes, RdType, ReaderInv, InCall, Returns
  <2> QED
    BY <2>1, <2>2, <2>4, <2>5, DownloaderFrame, RingFrame, ContentFrame DEF NRInv
<1>4. CASE rd.buf = NoBuf /\ filled = <<>> /\ DownloadInProgress
  <2>1. rd' = [rd EXCEPT !.pc = "block"] /\ mutex' = "reader"
        /\ UNCHANGED <<dl, pool, filled, nr, filePos, offset, sent, out>>
    BY <1>4 DEF GetFilledBuffer
  <2>2. rd' \in RdType /\ rd'.buf = rd.buf
    BY <2>1 DEF NRInv, NRTypes, RdType
  <2>3. NRTypes'
    BY <2>1, <2>2 DEF NRInv, NRTypes
  <2>4. ReaderInv'
    BY <1>4, <2>1 DEF NRInv, NRTypes, GetFilledBuffer, RdType, ReaderInv, InCall
  <2> QED
    BY <2>1, <2>2, <2>3, <2>4, DownloaderFrame, RingFrame, ContentFrame DEF NRInv
<1> QED
  BY <1>1, <1>2, <1>3, <1>4
(* The reader's view is the rest of the first filled buffer. *)
LEMMA ViewFacts ==
  ASSUME NRInv, rd.buf # NoBuf
  PROVE  /\ filled # <<>> /\ Len(filled) \in Nat /\ Len(filled) > 0
         /\ rd.buf.idx = filled[1].idx /\ filled[1].idx \in Slots
         /\ rd.buf.from \in Nat /\ rd.buf.len \in Nat /\ filled[1].len \in Nat
         /\ rd.buf.from + rd.buf.len = filled[1].len
         /\ filled[1].len > 0 /\ filled[1].len <= BufSize
         /\ filePos \in Nat /\ First(1) \in Nat /\ First(1) = filePos - rd.buf.from + 1
<1>1. filled # <<>> /\ Len(filled) \in Nat /\ Len(filled) > 0
  BY RemainingQueue DEF NRInv, NRTypes, ReaderInv
<1>2. 1 \in 1 .. Len(filled)
  BY <1>1
<1>3. First(1) = filePos - rd.buf.from + 1
  BY <1>1 DEF NRInv, ContentInv
<1> QED
  BY <1>1, <1>2, <1>3, FilledEntry, RdNumbers DEF NRInv, ReaderInv

(* What a copy takes from the view are the next bytes of the source. *)
LEMMA CopiedBytes ==
  ASSUME NRInv, rd.buf # NoBuf, NEW k \in Nat, k <= rd.buf.len
  PROVE  [i \in 1 .. k |-> pool[rd.buf.idx][rd.buf.from + i]] = [i \in 1 .. k |-> filePos + i]
<1> SUFFICES ASSUME NEW i \in 1 .. k
             PROVE  pool[rd.buf.idx][rd.buf.from + i] = filePos + i
  OBVIOUS
<1>1. rd.buf.from + i \in 1 .. filled[1].len
  <2>1. /\ rd.buf.from \in Nat /\ rd.buf.len \in Nat
        /\ rd.buf.from + rd.buf.len = filled[1].len
    BY ViewFacts
  <2> QED
    BY <2>1
<1>2. pool[filled[1].idx][rd.buf.from + i] = First(1) + (rd.buf.from + i) - 1
  <2>1. 1 \in 1 .. Len(filled)
    BY ViewFacts
  <2>2. \A j \in 1 .. filled[1].len : pool[filled[1].idx][j] = First(1) + j - 1
    BY <2>1 DEF NRInv, ContentInv
  <2> QED
    BY <1>1, <2>2
<1>3. First(1) + (rd.buf.from + i) - 1 = filePos + i
  BY ViewFacts
<1> QED
  BY <1>2, <1>3, ViewFacts

(* Copying out of a filled buffer keeps the invariant. *)
LEMMA CopyOutKeeps == NRInv /\ CopyOut => NRInv'
<1> SUFFICES ASSUME NRInv, CopyOut PROVE NRInv'
  OBVIOUS
<1> DEFINE k == Min({rd.want, rd.buf.len})
           got == rd.got \o [i \in 1 .. k |-> pool[rd.buf.idx][rd.buf.from + i]]
           view == [rd.buf EXCEPT !.from = @ + k, !.len = @ - k]
           next == [rd EXCEPT !.want = @ - k, !.got = got, !.buf = view]
<1>1. /\ filePos' = filePos + k
      /\ \/ k = rd.buf.len /\ rd' = [next EXCEPT !.pc = "release"] /\ UNCHANGED out
         \/ /\ k # rd.buf.len /\ rd' = [next EXCEPT !.pc = "idle", !.want = 0, !.got = <<>>]
            /\ out' = [kind |-> rd.kind, bytes |-> got]
      /\ UNCHANGED <<dl, pool, filled, nr, mutex, offset, sent>>
  BY DEF CopyOut
<1>2. /\ rd.buf # NoBuf /\ rd.want \in Nat /\ rd.want > 0 /\ rd.buf.len > 0 /\ rd.start \in Nat
      /\ rd.start <= filePos /\ rd.kind \in {"read", "seek"}
      /\ rd.got = Stream!Bytes(rd.start, filePos - rd.start)
  BY RdNumbers DEF NRInv, ReaderInv, CopyOut, InCall
<1>3. /\ rd.buf.len \in Nat /\ rd.buf.from \in Nat /\ filePos \in Nat /\ First(1) \in Nat
       /\ filled # <<>> /\ rd.buf.idx = filled[1].idx
       /\ rd.buf.from + rd.buf.len = filled[1].len /\ First(1) = filePos - rd.buf.from + 1
  BY <1>2, ViewFacts
<1>4. k \in Nat /\ k > 0 /\ k <= rd.want /\ k <= rd.buf.len /\ (k = rd.want \/ k = rd.buf.len)
  <2>1. rd.want \in Int /\ rd.buf.len \in Int
    BY <1>2, <1>3
  <2>2. k \in {rd.want, rd.buf.len} /\ k <= rd.want /\ k <= rd.buf.len
    BY <2>1, MinOfTwo
  <2> HIDE DEF k
  <2> QED
    BY <1>2, <2>1, <2>2, <1>3
<1> HIDE DEF k
<1>5. got = Stream!Bytes(rd.start, filePos + k - rd.start) /\ got \in Seq(Nat)
  <2>1. got = Stream!Bytes(rd.start, filePos - rd.start) \o [i \in 1 .. k |-> filePos + i]
    BY <1>2, <1>4, CopiedBytes
  <2>2. PICK l \in Nat : l = filePos - rd.start /\ filePos = rd.start + l
                         /\ filePos + k - rd.start = l + k
    BY <1>2, <1>4, <1>3
  <2>3. [i \in 1 .. k |-> filePos + i] = [i \in 1 .. k |-> rd.start + l + i]
    BY <2>2
  <2>4. Stream!Bytes(rd.start, l) \o [i \in 1 .. k |-> rd.start + l + i]
          = Stream!Bytes(rd.start, l + k)
    BY <1>2, <1>4, BytesConcat
  <2>5. got = Stream!Bytes(rd.start, l + k)
    BY <2>1, <2>2, <2>3, <2>4
  <2>6. l + k \in Nat
    BY <1>4, <2>2
  <2> QED
    BY <1>2, <2>2, <2>5, <2>6, BytesType
<1> HIDE DEF got
<1>6. /\ view \in [idx : -1 .. PoolSize - 1, from : Nat, len : Nat]
      /\ view.idx = rd.buf.idx /\ view.from = rd.buf.from + k /\ view.len = rd.buf.len - k
      /\ view # NoBuf
  <2>1. rd.buf.from + k \in Nat /\ rd.buf.len - k \in Nat
    BY <1>4, <1>3
  <2>2. rd.buf \in [idx : -1 .. PoolSize - 1, from : Nat, len : Nat]
    BY DEF NRInv, NRTypes, RdType
  <2>3. rd.buf.idx # -1
    BY <1>2 DEF NRInv, ReaderInv
  <2> QED
    BY <2>1, <2>2, <2>3 DEF NoBuf
<1> HIDE DEF view
<1>7. rd.want - k \in Nat /\ <<>> \in Seq(Nat) /\ 0 \in Nat /\ filePos + k \in Nat
  BY <1>2, <1>4, <1>3
<1>8. /\ rd' \in RdType /\ rd'.buf = view /\ rd'.pc \in {"release", "idle"}
      /\ rd'.pc = "release" => /\ k = rd.buf.len /\ rd'.got = got /\ rd'.start = rd.start
                               /\ rd'.kind = rd.kind
      /\ rd'.pc = "idle" => k # rd.buf.len
  BY <1>5, <1>6, <1>1, <1>7 DEF NRInv, NRTypes, RdType
<1>9. out' \in OutType
  BY <1>2, <1>5, <1>1 DEF NRInv, NRTypes, OutType
<1>10. NRTypes'
  BY <1>1, <1>7, <1>8, <1>9 DEF NRInv, NRTypes
<1>11. ContentInv'
  <2>1. First(1)' = filePos' - rd'.buf.from + 1
    <3>1. First(1)' = First(1)
      BY <1>1 DEF First
    <3> QED
      BY <3>1, <1>1, <1>3, <1>4, <1>6, <1>8
  <2>2. filled # <<>>
    BY <1>2, <1>3
  <2> QED
    BY <1>1, <2>1, <2>2 DEF NRInv, ContentInv, First, Past, Current, Holding
<1>12. ReaderInv'
  <2>1. /\ filled' # <<>> /\ filled'[1] = filled[1] /\ rd'.buf.idx = filled[1].idx
        /\ rd'.buf.from + rd'.buf.len = filled[1].len
        /\ rd'.buf # NoBuf /\ rd'.buf.idx # -1
    <3>1. rd'.buf.from = rd.buf.from + k /\ rd'.buf.len = rd.buf.len - k
      BY <1>6, <1>8
    <3>2. rd'.buf.from + rd'.buf.len = filled[1].len
      BY <3>1, <1>3, <1>4
    <3> QED
      BY <1>1, <1>2, <1>3, <1>6, <1>8, <3>2 DEF NRInv, ReaderInv
  <2>2. /\ rd'.pc = "release" => rd'.buf.len = 0
        /\ rd'.pc = "idle" => rd'.buf.len > 0
    BY <1>2, <1>4, <1>6, <1>8, <1>3
  <2>3. rd'.pc = "release" => /\ rd'.kind \in {"read", "seek"}
                              /\ rd'.start <= filePos'
                              /\ rd'.got = Stream!Bytes(rd'.start, filePos' - rd'.start)
    BY <1>2, <1>4, <1>5, <1>1, <1>8, <1>3
  <2> QED
    BY <1>8, <2>1, <2>2, <2>3 DEF ReaderInv, InCall
<1> QED
  BY <1>1, <1>10, <1>11, <1>12, DownloaderFrame, RingFrame DEF NRInv

(* A buffer read to its end leaves the queue, and the next byte is the first *)
(* of the next buffer, or of the one that the downloader is filling.         *)
LEMMA ReleaseKeeps == NRInv /\ ReleaseEmptyBuffer => NRInv'
<1> SUFFICES ASSUME NRInv, ReleaseEmptyBuffer PROVE NRInv'
  OBVIOUS
<1>1. /\ rd.buf # NoBuf /\ rd.buf.len = 0 /\ rd.kind \in {"read", "seek"} /\ rd.pc = "release"
      /\ rd.start <= filePos /\ rd.got = Stream!Bytes(rd.start, filePos - rd.start)
  BY DEF NRInv, ReaderInv, ReleaseEmptyBuffer, InCall
<1> PICK n \in Nat \ {0} : n = Len(filled)
  BY <1>1, ViewFacts
<1>2. /\ filled # <<>> /\ n = Len(filled) /\ filePos \in Nat /\ rd.buf.from = filled[1].len
      /\ First(1) \in Nat /\ filled[1].len \in Nat /\ First(1) = filePos - rd.buf.from + 1
      /\ Past(1) = filePos + 1
  BY <1>1, ViewFacts DEF Past
<1>3. /\ filled' = Tail(filled) /\ dl' = NotifyDownloader
      /\ UNCHANGED <<pool, nr, mutex, filePos, offset, sent>>
      /\ \/ rd.want > 0 /\ rd' = [rd EXCEPT !.pc = "get", !.buf = NoBuf] /\ UNCHANGED out
         \/ /\ rd' = [rd EXCEPT !.pc = "idle", !.got = <<>>, !.buf = NoBuf]
            /\ out' = [kind |-> rd.kind, bytes |-> rd.got]
  BY DEF ReleaseEmptyBuffer
<1>4. /\ filled' \in Seq(EntryType) /\ Len(filled') = n - 1
      /\ \A i \in 1 .. n - 1 : filled'[i] = filled[i + 1]
      /\ filled' = <<>> <=> n = 1
  <2>1. filled \in Seq(EntryType)
    BY DEF NRInv, NRTypes
  <2> QED
    BY <1>2, <1>3, <2>1, RemainingQueue
<1>5. dl' \in DlType /\ dl'.idx = dl.idx /\ dl'.buf = dl.buf /\ DownloaderInv'
  BY <1>3, NotifyDownloaderKeeps
<1>6. NoBuf \in [idx : -1 .. PoolSize - 1, from : Nat, len : Nat] /\ NoBuf.from = 0
  BY Sizes DEF NoBuf
<1>7. /\ rd' \in RdType /\ rd'.buf = NoBuf /\ rd'.pc \in {"get", "idle"}
      /\ rd'.pc = "get" => /\ rd'.want > 0 /\ rd'.kind = rd.kind /\ rd'.start = rd.start
                           /\ rd'.got = rd.got
  <2>1. <<>> \in Seq(Nat)
    OBVIOUS
  <2>2. rd \in RdType
    BY DEF NRInv, NRTypes
  <2>3. CASE rd.want > 0 /\ rd' = [rd EXCEPT !.pc = "get", !.buf = NoBuf]
    BY <1>6, <2>2, <2>3 DEF RdType
  <2>4. CASE rd' = [rd EXCEPT !.pc = "idle", !.got = <<>>, !.buf = NoBuf]
    BY <1>6, <2>1, <2>2, <2>4 DEF RdType
  <2> QED
    BY <1>3, <2>3, <2>4
<1>8. out' \in OutType
  BY <1>1, <1>3 DEF NRInv, NRTypes, RdType, OutType
<1>9. NRTypes'
  BY <1>3, <1>4, <1>5, <1>7, <1>8 DEF NRInv, NRTypes
<1>10. RingInv'
  <2>1. \A d \in Int : IdxBefore(d)' = IdxBefore(d)
    BY <1>5 DEF IdxBefore
  <2>2. ASSUME NEW i \in 1 .. n - 1 PROVE filled'[i].idx = IdxBefore(n - 1 - i + 1)'
    <3>1. i + 1 \in 1 .. n /\ n - 1 - i + 1 = n - (i + 1) + 1 /\ n - 1 - i + 1 \in Int
      OBVIOUS
    <3>2. filled[i + 1].idx = IdxBefore(n - (i + 1) + 1)
      BY <1>2, <3>1 DEF NRInv, RingInv
    <3> QED
      BY <1>4, <2>1, <3>1, <3>2
  <2>3. n <= PoolSize /\ PoolSize \in Nat
    BY <1>2, Sizes DEF NRInv, RingInv
  <2>4. n - 1 <= PoolSize /\ n - 1 < PoolSize
    BY <2>3
  <2> QED
    BY <1>4, <2>2, <2>4 DEF RingInv
<1>11. ContentInv'
  <2>1. \A i \in 1 .. n - 1 : First(i)' = First(i + 1) /\ Past(i)' = Past(i + 1)
    BY <1>3, <1>4 DEF First, Past
  <2>2. sent' - Current' = sent - Current /\ (Holding' <=> Holding) /\ Current' = Current
    BY <1>3, <1>5 DEF Current, Holding
  <2>3. ASSUME NEW i \in 1 .. n - 1
        PROVE  /\ \A k \in 1 .. filled'[i].len : pool'[filled'[i].idx][k] = First(i)' + k - 1
               /\ i > 1 => First(i)' = Past(i - 1)'
               /\ Past(i)' <= sent' - Current' + 1
    <3>1. i + 1 \in 1 .. n /\ i + 1 > 1 /\ (i + 1) - 1 = i
      OBVIOUS
    <3>2. /\ \A k \in 1 .. filled[i + 1].len : pool[filled[i + 1].idx][k] = First(i + 1) + k - 1
          /\ First(i + 1) = Past(i)
          /\ Past(i + 1) <= sent - Current + 1
      <4> PICK j : j = i + 1
        OBVIOUS
      <4>1. j \in 1 .. Len(filled) /\ j > 1 /\ j - 1 = i
        BY <1>2, <3>1
      <4> QED
        BY <4>1 DEF NRInv, ContentInv
    <3>3. i > 1 => i - 1 \in 1 .. n - 1 /\ (i - 1) + 1 = i
      OBVIOUS
    <3>4. i > 1 => Past(i - 1)' = Past(i)
      BY <2>1, <3>3
    <3> QED
      BY <1>3, <1>4, <2>1, <2>2, <3>2, <3>4
  <2>4. ASSUME n > 1
        PROVE  First(1)' = filePos + 1 /\ Past(n - 1)' = sent - Current + 1
    <3>1. 1 \in 1 .. n - 1 /\ n - 1 \in 1 .. n - 1 /\ 1 + 1 = 2 /\ (n - 1) + 1 = n /\ 2 \in 1 .. n
      BY <2>4
    <3>2. First(2) = Past(1)
      <4>1. 2 \in 1 .. Len(filled) /\ 2 > 1 /\ 2 - 1 = 1
        BY <1>2, <3>1
      <4> QED
        BY <4>1 DEF NRInv, ContentInv
    <3>3. Past(n) = sent - Current + 1
      BY <1>2 DEF NRInv, ContentInv
    <3> QED
      BY <1>2, <2>1, <3>1, <3>2, <3>3
  <2>5. ASSUME n = 1 PROVE filePos = sent - Current
    <3>1. Past(1) = sent - Current + 1
      BY <1>2, <2>5 DEF NRInv, ContentInv
    <3>2. sent \in Int /\ Current \in Int
      BY RdNumbers, DlNumbers DEF NRInv, Current
    <3> QED
      BY <1>2, <3>1, <3>2
  <2>6. filePos - 0 = filePos
    BY <1>2
  <2>7. filled' # <<>> => /\ First(1)' = filePos' - rd'.buf.from + 1
                          /\ Past(n - 1)' = sent' - Current' + 1
    <3> SUFFICES ASSUME filled' # <<>>
                 PROVE  /\ First(1)' = filePos' - rd'.buf.from + 1
                        /\ Past(n - 1)' = sent' - Current' + 1
      OBVIOUS
    <3>1. n > 1
      BY <1>4
    <3>2. rd'.buf.from = 0 /\ filePos' = filePos
      BY <1>3, <1>6, <1>7
    <3> QED
      BY <2>2, <2>4, <2>6, <3>1, <3>2
  <2>8. filled' = <<>> => filePos' = sent' - Current'
    BY <1>3, <1>4, <2>2, <2>5
  <2>9. Holding' => \A k \in 1 .. dl'.buf : pool'[dl'.idx][k] = sent' - dl'.buf + k
    BY <1>3, <1>5, <2>2 DEF NRInv, ContentInv
  <2> QED
    BY <1>4, <2>3, <2>7, <2>8, <2>9 DEF ContentInv
<1>12. ReaderInv'
  BY <1>1, <1>3, <1>7 DEF ReaderInv, InCall
<1> QED
  BY <1>5, <1>9, <1>10, <1>11, <1>12 DEF NRInv

-----------------------------------------------------------------------------
(* The invariant holds initially and every step keeps it. *)

(* The invariant holds once the reader is constructed. *)
LEMMA InitInv == NRInit => NRInv
<1> SUFFICES ASSUME NRInit PROVE NRInv
  OBVIOUS
<1>1. offset \in Nat /\ offset <= FileLen
  BY Sizes DEF NRInit
<1>2. /\ 0 \in 0 .. MaxChunk /\ offset \in 0 .. FileLen /\ -1 \in -1 .. BufSize /\ 0 \in Slots
      /\ -1 \in -1 .. PoolSize - 1 /\ <<>> \in Seq(Nat) /\ <<>> \in Seq(EntryType)
      /\ 0 < BufSize /\ -1 < BufSize /\ 0 <= PoolSize
  BY <1>1, Sizes DEF Slots
<1>3. dl \in DlType
  BY <1>2 DEF NRInit, DlType
<1>4. rd \in RdType
  BY <1>1, <1>2 DEF NRInit, RdType, NoBuf
<1>5. nr \in NrType /\ out \in OutType
  BY <1>2 DEF NRInit, NrType, OutType
<1>6. pool \in [Slots -> [1 .. BufSize -> Nat]]
  BY DEF NRInit
<1>7. NRTypes
  BY <1>1, <1>2, <1>3, <1>4, <1>5, <1>6 DEF NRInit, NRTypes
<1>8. DownloaderInv
  BY <1>1, <1>2 DEF NRInit, DownloaderInv, Holding, DownloadInProgress
<1>9. filled = <<>> /\ Len(filled) = 0 /\ ~Holding /\ Current = 0 /\ filePos = sent - Current
  BY <1>1 DEF NRInit, Holding, Current
<1>10. RingInv /\ ContentInv
  BY <1>2, <1>9 DEF RingInv, ContentInv
<1>11. ReaderInv
  BY DEF NRInit, ReaderInv, InCall
<1> QED
  BY <1>7, <1>8, <1>10, <1>11 DEF NRInv

(* A stuttering step keeps the invariant. *)
LEMMA StutterKeeps == NRInv /\ UNCHANGED nrVars => NRInv'
<1> SUFFICES ASSUME NRInv, UNCHANGED nrVars PROVE NRInv'
  OBVIOUS
<1>1. NRTypes'
  BY DEF NRInv, NRTypes, nrVars
<1> QED
  BY <1>1, DownloaderFrame, RingFrame, ContentFrame, ReaderFrame DEF NRInv, nrVars

(* Every step of either thread, of libcurl or of the caller keeps the invariant. *)
LEMMA StepKeeps == NRInv /\ [NRNext]_nrVars => NRInv'
<1>1. NRInv /\ DownloaderStep => NRInv'
  BY SetUpKeeps, AcquireKeeps, DownloaderWaitKeeps, CopyInKeeps, EnqueueKeeps, CompletionKeeps,
     LastNotifyKeeps DEF DownloaderStep
<1>2. NRInv /\ ReaderStep => NRInv'
  BY GetFilledBufferKeeps, ReaderWaitKeeps, CopyOutKeeps, ReleaseKeeps, SubmitAbortKeeps, GoneKeeps
     DEF ReaderStep
<1>3. NRInv /\ Caller => NRInv'
  BY TryReadKeeps, TrySeekKeeps, TryGetPosKeeps, DestroyKeeps DEF Caller
<1>4. NRInv /\ (Server \/ AbortTransfer) => NRInv'
  BY DeliverKeeps, EndTransferKeeps DEF Server
<1> QED
  BY <1>1, <1>2, <1>3, <1>4, StutterKeeps DEF NRNext

(* NRInv is an inductive invariant of the two threads. *)
LEMMA InvHolds == NRSpec => []NRInv
  BY InitInv, StepKeeps, PTL DEF NRSpec

(* Nothing is read before it was downloaded. *)
LEMMA PositionBound ==
  ASSUME NRInv
  PROVE  /\ filePos \in Nat /\ sent \in Nat /\ filePos <= sent /\ sent <= FileLen
         /\ rd.buf # NoBuf => filePos + rd.buf.len <= sent
<1>1. /\ filePos \in Nat /\ sent \in Nat /\ FileLen \in Nat
      /\ dl.net \in Nat /\ dl.chunk \in Nat /\ dl.net = sent /\ dl.net + dl.chunk <= FileLen
      /\ Current \in Nat
  BY Sizes, RdNumbers, DlNumbers DEF NRInv, DownloaderInv, Current, Holding
<1>2. CASE filled = <<>>
  <2>1. filePos = sent - Current /\ rd.buf = NoBuf
    BY <1>2 DEF NRInv, ContentInv, ReaderInv
  <2> QED
    BY <1>1, <2>1
<1>3. CASE filled # <<>>
  <2>1. 1 \in 1 .. Len(filled)
    BY <1>3, RemainingQueue DEF NRInv, NRTypes
  <2>2. First(1) \in Nat /\ filled[1].len \in Nat /\ filled[1].len > 0
    BY <2>1, FilledEntry DEF NRInv
  <2>3. /\ First(1) + filled[1].len <= sent - Current + 1
        /\ First(1) = filePos - rd.buf.from + 1
    BY <1>3, <2>1 DEF NRInv, ContentInv, Past
  <2>4. CASE rd.buf = NoBuf
    <3>1. rd.buf.from = 0
      BY <2>4 DEF NoBuf
    <3> QED
      BY <1>1, <2>2, <2>3, <2>4, <3>1
  <2>5. CASE rd.buf # NoBuf
    <3>1. rd.buf.from \in Nat /\ rd.buf.len \in Nat /\ rd.buf.from + rd.buf.len = filled[1].len
      BY <2>5, ViewFacts
    <3> QED
      BY <1>1, <2>2, <2>3, <3>1
  <2> QED
    BY <2>4, <2>5
<1> QED
  BY <1>2, <1>3

(* The ring of buffers between the downloader and the reader is safe for any *)
(* number and size of buffers: it never wraps onto unread bytes, its entries *)
(* and the reader's view stay inside their buffers, and try_get_pos never    *)
(* finds a finished download without its curl code.                          *)
THEOREM RingIsAlwaysKept == NRSpec => []RingIsKept
<1>1. NRInv => RingIsKept
  <2> SUFFICES ASSUME NRInv PROVE RingIsKept
    OBVIOUS
  <2>1. dl \in DlType /\ rd \in RdType /\ nr \in NrType /\ out \in OutType
        /\ mutex \in {"free", "reader", "downloader"} /\ filled \in Seq(EntryType)
    BY DEF NRInv, NRTypes
  <2>2. rd.buf # NoBuf => rd.buf.idx \in Slots /\ rd.buf.from + rd.buf.len \in 1 .. BufSize
    BY ViewFacts, Sizes
  <2>3. DOMAIN filled = 1 .. Len(filled)
    BY <2>1
  <2>4. \A i \in DOMAIN filled : filled[i].idx \in Slots /\ filled[i].len \in 1 .. BufSize
    BY <2>3, FilledEntry, Sizes DEF NRInv
  <2>5. filePos \in 0 .. FileLen /\ sent \in 0 .. FileLen
    BY PositionBound, Sizes
  <2>6. Len(filled) <= PoolSize
    BY DEF NRInv, RingInv
  <2>7. NRTypeOK
    BY <2>1, <2>2, <2>4, <2>5, <2>6 DEF NRTypeOK, DlType, RdType, NrType
  <2>8. NoOverwrite
    BY <2>3, RingIsFree DEF NoOverwrite, Holding
  <2>9. CodeBeforeState
    BY <2>1 DEF CodeBeforeState, OutType
  <2> QED
    BY <2>7, <2>8, <2>9 DEF RingIsKept
<1> QED
  BY <1>1, InvHolds, PTL

-----------------------------------------------------------------------------
(* The two threads implement ByteStream: bytes are produced when they are    *)
(* copied into a buffer, and taken when a call returns.                      *)

(* The head that a caller sees: it moves when a call returns.                *)
SeenHead == IF InCall THEN rd.start ELSE filePos

(* A step that the caller cannot see stutters in ByteStream. *)
LEMMA SameView ==
  ASSUME SeenHead' = SeenHead, sent' = sent, nr'.state = nr.state, out' = out
  PROVE  UNCHANGED Stream!bsVars
  BY DEF Stream!bsVars, SeenHead, DownloadInProgress

(* Steps of the downloader that hand nothing over. *)
LEMMA DownloaderStutters ==
  ASSUME NRInv,
         \/ SetUp \/ Deliver \/ EndTransfer \/ AbortTransfer \/ AcquireEmptyBuffer \/ DownloaderWait
         \/ EnqueueFilledBuffer \/ StoreRetCode \/ LastNotify \/ ThreadExit
  PROVE  UNCHANGED Stream!bsVars
<1>1. UNCHANGED <<filePos, sent, out>>
  BY DEF SetUp, Deliver, EndTransfer, AbortTransfer, AcquireEmptyBuffer, DownloaderWait,
         EnqueueFilledBuffer, StoreRetCode, LastNotify, ThreadExit
<1>2. rd' = rd \/ rd' = NotifyReader
  BY DEF SetUp, Deliver, EndTransfer, AbortTransfer, AcquireEmptyBuffer, DownloaderWait,
         EnqueueFilledBuffer, StoreRetCode, LastNotify, ThreadExit
<1>3. nr'.state = nr.state
  BY DEF NRInv, NRTypes, NrType, SetUp, Deliver, EndTransfer, AbortTransfer, AcquireEmptyBuffer,
         DownloaderWait, EnqueueFilledBuffer, StoreRetCode, LastNotify, ThreadExit
<1>4. SeenHead' = SeenHead
  BY <1>1, <1>2 DEF NRInv, NRTypes, RdType, NotifyReader, SeenHead, InCall
<1> QED
  BY <1>1, <1>3, <1>4, SameView

(* A copy into a buffer, and the end of the download, are what is produced. *)
LEMMA ProducesBytes ==
  ASSUME NRInv, CopyIn \/ StoreState
  PROVE  Stream!Produce
<1>1. DownloadInProgress /\ sent \in Nat
  BY RdNumbers DEF NRInv, DownloaderInv, CopyIn, StoreState
<1>2. rd' = rd /\ filePos' = filePos /\ out' = out
  BY DEF CopyIn, StoreState
<1>3. SeenHead' = SeenHead
  BY <1>2 DEF SeenHead, InCall
<1>4. sent' >= sent
  <2>1. CASE StoreState
    BY <2>1, <1>1 DEF StoreState
  <2>2. CASE CopyIn
    <3> PICK k : k = Min({BufSize - dl.buf, dl.chunk})
      OBVIOUS
    <3>1. sent' = sent + k
      BY <2>2 DEF CopyIn
    <3>2. BufSize - dl.buf \in Int /\ dl.chunk \in Int /\ BufSize - dl.buf > 0 /\ dl.chunk > 0
      BY <2>2, Sizes, DlNumbers DEF NRInv, DownloaderInv, CopyIn
    <3>3. k \in {BufSize - dl.buf, dl.chunk}
      BY <3>2, MinOfTwo
    <3> QED
      BY <1>1, <3>1, <3>2, <3>3
  <2> QED
    BY <2>1, <2>2
<1> QED
  BY <1>1, <1>2, <1>3, <1>4 DEF Stream!Produce, SeenHead

(* A call that returns with all it asked for takes those bytes. *)
LEMMA ReturnTakes ==
  ASSUME NEW k \in Nat, SeenHead \in Nat, sent \in Nat, SeenHead + k <= sent,
         SeenHead' = SeenHead + k, NEW kind \in {"read", "seek"},
         out' = [kind |-> kind, bytes |-> Stream!Bytes(SeenHead, k)],
         sent' = sent, nr' = nr
  PROVE  Stream!Take
<1>1. k \in 0 .. sent - SeenHead
  OBVIOUS
<1> QED
  BY <1>1 DEF Stream!Take, SeenHead, DownloadInProgress

(* Copying out of a filled buffer is a Take when the call returns, and unseen otherwise. *)
LEMMA CopyOutTakes ==
  ASSUME NRInv, CopyOut
  PROVE  Stream!Take \/ UNCHANGED Stream!bsVars
<1> DEFINE k == Min({rd.want, rd.buf.len})
           got == rd.got \o [i \in 1 .. k |-> pool[rd.buf.idx][rd.buf.from + i]]
<1>1. /\ filePos' = filePos + k
      /\ \/ rd'.pc = "release" /\ rd'.start = rd.start /\ UNCHANGED out
         \/ rd'.pc = "idle" /\ out' = [kind |-> rd.kind, bytes |-> got]
      /\ UNCHANGED <<nr, sent>>
  BY DEF CopyOut, NRInv, NRTypes, RdType
<1>2. /\ rd.buf # NoBuf /\ rd.want \in Nat /\ rd.start \in Nat /\ rd.buf.len \in Nat
      /\ rd.start <= filePos /\ rd.kind \in {"read", "seek"} /\ rd.pc = "copy"
      /\ rd.got = Stream!Bytes(rd.start, filePos - rd.start)
  BY RdNumbers DEF NRInv, ReaderInv, CopyOut, InCall
<1>3. k \in {rd.want, rd.buf.len} /\ k <= rd.buf.len
  <2>1. rd.want \in Int /\ rd.buf.len \in Int
    BY <1>2
  <2> QED
    BY <2>1, MinOfTwo
<1> HIDE DEF k
<1>4. k \in Nat /\ filePos \in Nat /\ sent \in Nat /\ filePos + k <= sent
  BY <1>2, <1>3, PositionBound
<1>5. CASE rd'.pc = "release"
  <2>1. SeenHead' = SeenHead /\ out' = out
    BY <1>1, <1>2, <1>5 DEF SeenHead, InCall
  <2> QED
    BY <1>1, <2>1, SameView
<1>6. CASE rd'.pc = "idle"
  <2>1. SeenHead = rd.start /\ SeenHead' = filePos + k
    BY <1>1, <1>2, <1>6 DEF SeenHead, InCall
  <2>2. PICK l \in Nat : l = filePos - rd.start /\ filePos = rd.start + l
    BY <1>2, <1>4
  <2>3. got = Stream!Bytes(rd.start, l) \o [i \in 1 .. k |-> filePos + i]
    BY <1>2, <1>3, <1>4, <2>2, CopiedBytes
  <2>4. [i \in 1 .. k |-> filePos + i] = [i \in 1 .. k |-> rd.start + l + i]
    BY <2>2
  <2>5. Stream!Bytes(rd.start, l) \o [i \in 1 .. k |-> rd.start + l + i]
          = Stream!Bytes(rd.start, l + k)
    <3>1. rd.start \in Nat /\ l \in Nat /\ k \in Nat
      BY <1>2, <1>4
    <3> QED
      BY <3>1, BytesConcat
  <2>6. got = Stream!Bytes(SeenHead, l + k)
    BY <2>1, <2>3, <2>4, <2>5
  <2> HIDE DEF got
  <2>7. l + k \in Nat /\ SeenHead \in Nat /\ SeenHead + (l + k) <= sent
        /\ SeenHead' = SeenHead + (l + k)
    BY <1>2, <1>4, <2>1, <2>2
  <2>8. out' = [kind |-> rd.kind, bytes |-> Stream!Bytes(SeenHead, l + k)]
    BY <1>1, <1>6, <2>6
  <2> QED
    BY <1>1, <1>2, <1>4, <2>7, <2>8, ReturnTakes
<1> QED
  BY <1>1, <1>5, <1>6

(* Releasing a drained buffer is a Take when the call returns, and unseen otherwise. *)
LEMMA ReleaseTakes ==
  ASSUME NRInv, ReleaseEmptyBuffer
  PROVE  Stream!Take \/ UNCHANGED Stream!bsVars
<1>1. /\ rd.start \in Nat /\ rd.start <= filePos /\ rd.kind \in {"read", "seek"}
      /\ rd.pc = "release" /\ rd.got = Stream!Bytes(rd.start, filePos - rd.start)
      /\ SeenHead = rd.start
  BY RdNumbers DEF NRInv, ReaderInv, ReleaseEmptyBuffer, InCall, SeenHead
<1>2. /\ filePos' = filePos /\ UNCHANGED <<nr, sent>>
      /\ \/ rd'.pc = "get" /\ rd'.start = rd.start /\ UNCHANGED out
         \/ rd'.pc = "idle" /\ out' = [kind |-> rd.kind, bytes |-> rd.got]
  BY DEF ReleaseEmptyBuffer, NRInv, NRTypes, RdType
<1>3. CASE rd'.pc = "get"
  <2>1. SeenHead' = SeenHead /\ out' = out
    BY <1>1, <1>2, <1>3 DEF SeenHead, InCall
  <2> QED
    BY <1>2, <2>1, SameView
<1>4. CASE rd'.pc = "idle"
  <2>1. PICK l \in Nat : l = filePos - rd.start /\ filePos = rd.start + l
    BY <1>1, PositionBound
  <2>2. SeenHead' = SeenHead + l /\ SeenHead \in Nat /\ sent \in Nat /\ SeenHead + l <= sent
    BY <1>1, <1>2, <1>4, <2>1, PositionBound DEF SeenHead, InCall
  <2>3. out' = [kind |-> rd.kind, bytes |-> Stream!Bytes(SeenHead, l)]
    BY <1>1, <1>2, <1>4, <2>1
  <2> QED
    BY <1>1, <1>2, <2>2, <2>3, ReturnTakes
<1> QED
  BY <1>2, <1>3, <1>4

(* A call that finds nothing more is told so only at the end of the stream. *)
LEMMA GetExhausts ==
  ASSUME NRInv, GetFilledBuffer
  PROVE  Stream!Exhaust \/ UNCHANGED Stream!bsVars
<1>1. /\ rd.start \in Nat /\ rd.start <= filePos /\ rd.kind \in {"read", "seek"}
      /\ rd.pc = "get" /\ rd.got = Stream!Bytes(rd.start, filePos - rd.start)
      /\ SeenHead = rd.start
  BY RdNumbers DEF NRInv, ReaderInv, GetFilledBuffer, InCall, SeenHead
<1>2. CASE filled = <<>> /\ ~DownloadInProgress /\ rd.buf = NoBuf
  <2>1. Returns(NoMoreData, rd.got) /\ UNCHANGED <<nr, sent, filePos>>
    BY <1>2 DEF GetFilledBuffer
  <2>2. filePos = sent /\ sent \in Nat
    <3>1. ~Holding /\ Current = 0 /\ filePos = sent - Current /\ sent \in Nat
      BY <1>2, RdNumbers DEF NRInv, NRTypes, DlType, DownloaderInv, ContentInv, Current
    <3> QED
      BY <3>1
  <2>3. SeenHead' = sent /\ out' = [kind |-> NoMoreData, bytes |-> rd.got]
    BY <2>1, <2>2 DEF Returns, SeenHead, InCall, NRInv, NRTypes, RdType
  <2>4. /\ NoMoreData \in {"short", "eof", "outOfBounds"}
        /\ NoMoreData = "eof" => rd.got = <<>>
    BY DEF NoMoreData
  <2>5. rd.got = <<>> => SeenHead = sent
    <3>1. PICK l \in Nat : l = filePos - rd.start /\ filePos = rd.start + l
      BY <1>1, <2>2
    <3>2. Len(rd.got) = l
      BY <1>1, <3>1, BytesType
    <3> QED
      BY <1>1, <2>2, <3>1, <3>2
  <2>6. rd.got = Stream!Bytes(SeenHead, sent - SeenHead)
    BY <1>1, <2>2
  <2> QED
    BY <1>2, <2>1, <2>3, <2>4, <2>5, <2>6 DEF Stream!Exhaust, SeenHead, DownloadInProgress
<1>3. CASE ~(filled = <<>> /\ ~DownloadInProgress /\ rd.buf = NoBuf)
  <2>1. /\ UNCHANGED <<nr, sent, filePos, out>>
        /\ rd'.pc \in {"copy", "block"} /\ rd'.start = rd.start
    BY <1>3 DEF GetFilledBuffer, NRInv, NRTypes, RdType
  <2>2. SeenHead' = SeenHead
    BY <1>1, <2>1 DEF SeenHead, InCall
  <2> QED
    BY <2>1, <2>2, SameView
<1> QED
  BY <1>2, <1>3

(* The reader's other steps leave the head where the caller saw it. *)
LEMMA ReaderStutters ==
  ASSUME NRInv, ReaderWait \/ SubmitAbort \/ Gone \/ Destroy \/ TryRead
  PROVE  UNCHANGED Stream!bsVars
<1>1. UNCHANGED <<filePos, sent, out>>
  BY DEF ReaderWait, SubmitAbort, Gone, Destroy, TryRead
<1>2. nr'.state = nr.state
  BY DEF NRInv, NRTypes, NrType, ReaderWait, SubmitAbort, Gone, Destroy, TryRead
<1>3. SeenHead' = SeenHead
  BY <1>1 DEF NRInv, NRTypes, RdType, ReaderWait, SubmitAbort, Gone, Destroy, TryRead, Call,
              SeenHead, InCall
<1> QED
  BY <1>1, <1>2, <1>3, SameView

(* A seek answers at once or starts a call; a position query answers. *)
LEMMA SeekOrAnswer ==
  ASSUME NRInv, TrySeekFromBegin \/ TryGetPos
  PROVE  Stream!Take \/ Stream!Answer \/ UNCHANGED Stream!bsVars
<1>1. rd.pc = "idle" /\ UNCHANGED <<filePos, sent, nr>> /\ SeenHead = filePos /\ filePos \in Nat
      /\ sent \in Nat /\ filePos <= sent
  BY PositionBound DEF TrySeekFromBegin, TryGetPos, SeenHead, InCall
<1>2. ASSUME NEW kind \in {"pos", "notReady", "failure", "unsupported"}, Answers(kind), rd' = rd
      PROVE  Stream!Answer
  <2>1. SeenHead' = SeenHead
    BY <1>1, <1>2 DEF SeenHead, InCall
  <2> QED
    BY <1>1, <1>2, <2>1 DEF Stream!Answer, Answers, SeenHead, DownloadInProgress
<1>3. ASSUME Answers("seek"), rd' = rd
      PROVE  Stream!Take
  <2>1. SeenHead' = SeenHead + 0 /\ SeenHead + 0 <= sent
    BY <1>1, <1>3 DEF SeenHead, InCall
  <2>2. out' = [kind |-> "seek", bytes |-> Stream!Bytes(SeenHead, 0)]
    BY <1>1, <1>3, NoBytes DEF Answers
  <2> QED
    BY <1>1, <2>1, <2>2, ReturnTakes
<1>4. ASSUME NEW n, Call("seek", n), out' = out
      PROVE  UNCHANGED Stream!bsVars
  <2>1. SeenHead' = SeenHead
    BY <1>1, <1>4 DEF SeenHead, InCall, Call, NRInv, NRTypes, RdType
  <2> QED
    BY <1>1, <1>4, <2>1, SameView
<1>5. CASE TrySeekFromBegin
  BY <1>2, <1>3, <1>4, <1>5 DEF TrySeekFromBegin
<1>6. CASE TryGetPos
  <2>1. ~DownloadInProgress => nr.ret # "nullopt"
    BY DEF NRInv, NRTypes, DlType, DownloaderInv
  <2>2. \E kind \in {"pos", "failure", "notReady"} : Answers(kind)
    BY <1>6, <2>1 DEF TryGetPos
  <2> QED
    BY <1>2, <1>6, <2>2 DEF TryGetPos
<1> QED
  BY <1>5, <1>6

(* NetworkReader is a byte stream, for any ring of buffers, any source and   *)
(* any interleaving of its two threads: a call returns exactly the next      *)
(* bytes of the source, and an end of file is answered only when the         *)
(* download stopped and all that was buffered has been read.                 *)
THEOREM ImplementsByteStream == NRSpec => IsByteStream
<1>1. NRInit => Stream!BSInit
  <2> SUFFICES ASSUME NRInit PROVE Stream!BSInit
    OBVIOUS
  <2>1. ~InCall /\ filePos = sent /\ DownloadInProgress
    BY DEF NRInit, InCall, DownloadInProgress
  <2> QED
    BY <2>1 DEF NRInit, Stream!BSInit
<1>2. NRInv /\ [NRNext]_nrVars => [Stream!BSNext]_(Stream!bsVars)
  <2> SUFFICES ASSUME NRInv, [NRNext]_nrVars PROVE Stream!BSNext \/ UNCHANGED Stream!bsVars
    OBVIOUS
  <2>1. CASE UNCHANGED nrVars
    <3>1. SeenHead' = SeenHead
      BY <2>1 DEF nrVars, SeenHead, InCall
    <3> QED
      BY <2>1, <3>1, SameView DEF nrVars
  <2>2. CASE DownloaderStep
    BY <2>2, DownloaderStutters, ProducesBytes DEF DownloaderStep, Stream!BSNext
  <2>3. CASE ReaderStep
    BY <2>3, GetExhausts, ReaderStutters, CopyOutTakes, ReleaseTakes DEF ReaderStep, Stream!BSNext
  <2>4. CASE Caller
    BY <2>4, ReaderStutters, SeekOrAnswer DEF Caller, Stream!BSNext
  <2>5. CASE Server \/ AbortTransfer
    BY <2>5, DownloaderStutters DEF Server
  <2> QED
    BY <2>1, <2>2, <2>3, <2>4, <2>5 DEF NRNext
<1> QED
  BY <1>1, <1>2, InvHolds, PTL DEF NRSpec, IsByteStream, Stream!BSSpec
=============================================================================
