--------------------------- MODULE BufferedReader ---------------------------
(***************************************************************************)
(* clp::BufferedReader and the BufferReader inside it: a window over the   *)
(* bytes of a source reader that grows from a checkpoint and otherwise     *)
(* slides.  A byte is its position in the source, counted from 1.  A call  *)
(* that loops is a sequence of steps, one per turn of its loop.            *)
(***************************************************************************)
EXTENDS Integers, Sequences, FiniteSets, FiniteSetsExt

CONSTANTS
  SrcLen,     \* bytes of the source
  Base,       \* m_base_buffer_size
  Delims,     \* positions of the delimiter in the source
  MaxWant     \* bytes a caller reads at once, at most

VARIABLES
  src,        \* position of m_reader
  br,         \* [pos, highest, begin, check, size, cap, data, rpos]
  call,       \* the call that is in progress: [op, want, got]
  ret,        \* what the last call returned: [op, rc, start, bytes]
  strayed     \* a seek came up short while a checkpoint was set

brVars == <<src, br, call, ret, strayed>>

None == -1
NoCall == [op |-> "none", want |-> 0, got |-> <<>>, start |-> 0]
RoundUp(n) == ((n + Base - 1) \div Base) * Base
SrcBytes(from, k) == [i \in 1 .. k |-> from + i]

BRInit ==
  /\ src = 0
  /\ br = [pos |-> 0, highest |-> 0, begin |-> 0, check |-> None, size |-> Base, cap |-> Base,
           data |-> <<>>, rpos |-> 0]
  /\ call = NoCall
  /\ ret = [op |-> "none", rc |-> "Success", start |-> 0, bytes |-> <<>>]
  /\ strayed = FALSE

BufferEnd(b) == b.begin + Len(b.data)
UpdatePos(b, p) == [b EXCEPT !.pos = p, !.highest = Max({@, p})]

(* refill_reader_buffer: where the new bytes go, and how many are asked for. *)
(* With a checkpoint the buffer grows; without one it is kept only if the    *)
(* new bytes still fit behind what it holds.                                 *)
RefillPlan(b, n) ==
  IF b.check # None THEN [at |-> Len(b.data), ask |-> RoundUp(BufferEnd(b) + n), keep |-> TRUE]
  ELSE LET ask == Base - (BufferEnd(b) % Base)
           fits == ask <= b.size - Len(b.data)
       IN  [at |-> IF fits THEN Len(b.data) ELSE 0, ask |-> ask, keep |-> fits]

Refill(b, s, n) ==
  LET filled(plan, got, size) ==
        [rc |-> IF got = 0 THEN "EndOfFile" ELSE "Success", src |-> s + got,
         br |-> [b EXCEPT !.data = (IF plan.keep THEN @ ELSE <<>>) \o SrcBytes(s, got),
                          !.rpos = plan.at, !.size = size, !.cap = Max({@, size}),
                          !.begin = IF plan.keep THEN @ ELSE BufferEnd(b)]]
      by(plan) == filled(plan, Max({0, Min({plan.ask, SrcLen - s})}),
                         IF b.check # None THEN Max({b.size, Len(b.data) + plan.ask}) ELSE b.size)
  IN  by(RefillPlan(b, n))

\* Mutant: the window keeps its old beginning.
KeepsBegin(b) ==
  LET left == SubSeq(b.data, b.rpos + 1, Len(b.data))
  IN  [b EXCEPT !.data = left, !.rpos = 0, !.size = RoundUp(Len(left)),
                !.cap = Max({@, RoundUp(Len(left))})]
(* drop_content_before_current_pos *)
DropContent(b) ==
  LET left == SubSeq(b.data, b.rpos + 1, Len(b.data))
  IN  [b EXCEPT !.data = left, !.rpos = 0, !.begin = @ + b.rpos, !.size = RoundUp(Len(left)),
                !.cap = Max({@, RoundUp(Len(left))})]

Finish(c, rc) == /\ call' = NoCall
                 /\ ret' = [op |-> c.op, rc |-> rc, start |-> c.start, bytes |-> c.got]

Idle == call.op = "none"

-----------------------------------------------------------------------------
TryRefillBufferIfEmpty ==
  /\ Idle
  /\ br.rpos = Len(br.data)
  /\ LET filled(r) ==
           /\ br' = r.br /\ src' = r.src
           /\ Finish([NoCall EXCEPT !.op = "refill", !.start = br.pos], r.rc)
     IN  filled(Refill(br, src, Base))
  /\ UNCHANGED strayed

SetCheckpoint ==
  /\ Idle
  /\ br' = [(IF br.check # None /\ br.check < br.pos /\ Len(br.data) # Base
             THEN DropContent(br) ELSE br) EXCEPT !.check = br.pos]
  /\ Finish([NoCall EXCEPT !.op = "set", !.start = br.pos], "Success")
  /\ UNCHANGED <<src, strayed>>

(* try_seek_from_begin: inside the window only the head moves.  Without a    *)
(* checkpoint the window is dropped and the source is moved; with one the    *)
(* window grows, and the end of the source makes the seek come up short.     *)
SeekBound == IF br.check # None THEN br.check ELSE br.pos

GrowTo(p, r) ==
  IF r.rc = "Success" /\ p \in br.begin .. BufferEnd(r.br)
  THEN [rc |-> "Success", br |-> UpdatePos([r.br EXCEPT !.rpos = p - br.begin], p), src |-> r.src]
  ELSE [rc |-> "Truncated", br |-> r.br, src |-> r.src]
Seek(p) ==
  IF p = br.pos THEN [rc |-> "Success", br |-> br, src |-> src]
  ELSE IF p < SeekBound THEN [rc |-> "Unsupported", br |-> br, src |-> src]
  ELSE IF p \in br.begin .. BufferEnd(br)
       THEN [rc |-> "Success", br |-> UpdatePos([br EXCEPT !.rpos = p - br.begin], p), src |-> src]
  ELSE IF br.check = None
       THEN [rc |-> "Success", src |-> p,
             br |-> UpdatePos([br EXCEPT !.data = <<>>, !.rpos = 0, !.begin = p], p)]
  ELSE GrowTo(p, Refill(br, src, p - BufferEnd(br)))

Strays(r) == strayed' = (strayed \/ (r.rc = "Truncated" /\ br.rpos # Len(br.data)))

TrySeekFromBegin ==
  LET moved(p, r) ==
        /\ br' = r.br /\ src' = r.src
        /\ Finish([NoCall EXCEPT !.op = "seek", !.start = p], r.rc)
        /\ Strays(r)
  IN  Idle /\ \E p \in 0 .. SrcLen + 1 : moved(p, Seek(p))

(* clear_checkpoint seeks to the highest position reached and drops what is  *)
(* before it; it throws when that seek fails.                                *)
ClearCheckpoint ==
  LET moved(r) ==
        /\ br' = IF r.rc = "Success" THEN [DropContent(r.br) EXCEPT !.check = None] ELSE r.br
        /\ src' = r.src
        /\ Finish([NoCall EXCEPT !.op = "clear", !.start = br.highest], r.rc)
        /\ Strays(r)
  IN  Idle /\ br.check # None /\ moved(Seek(br.highest))

-----------------------------------------------------------------------------
(* try_read and try_read_to_delimiter: a turn takes what the buffer holds,   *)
(* or refills an exhausted buffer; the end of the source ends the call.      *)
TryRead ==
  /\ Idle
  /\ \E n \in 1 .. MaxWant :
       call' = [op |-> "read", want |-> n, got |-> <<>>, start |-> br.pos]
  /\ UNCHANGED <<src, br, ret, strayed>>

TryReadToDelimiter ==
  /\ Idle
  /\ call' = [op |-> "line", want |-> 0, got |-> <<>>, start |-> br.pos]
  /\ UNCHANGED <<src, br, ret, strayed>>

(* What one turn takes from the buffer: up to `want' bytes, or up to and     *)
(* including the first delimiter.                                            *)
Taken(c, left) ==
  IF c.op = "read" THEN Min({c.want, Len(left)})
  ELSE LET at == {i \in DOMAIN left : left[i] \in Delims}
       IN  IF at = {} THEN Len(left) ELSE Min(at)

Satisfied(c) == IF c.op = "read" THEN c.want = 0
                ELSE c.got # <<>> /\ c.got[Len(c.got)] \in Delims

TakeFromBuffer ==
  /\ ~Idle
  /\ br.rpos < Len(br.data)
  /\ LET left == SubSeq(br.data, br.rpos + 1, Len(br.data))
         k == Taken(call, left)
         c == [call EXCEPT !.got = @ \o SubSeq(left, 1, k),
                           !.want = IF call.op = "read" THEN @ - k ELSE 0]
     IN  /\ br' = UpdatePos([br EXCEPT !.rpos = @ + k], br.pos + k)
         /\ IF Satisfied(c) THEN Finish(c, "Success") ELSE call' = c /\ UNCHANGED ret
  /\ UNCHANGED <<src, strayed>>

RefillDuringCall ==
  /\ ~Idle
  /\ br.rpos = Len(br.data)
  /\ LET filled(r) ==
           /\ br' = r.br /\ src' = r.src
           /\ IF r.rc = "EndOfFile"
              THEN Finish(call, IF call.got = <<>> THEN "EndOfFile" ELSE "Success")
              ELSE UNCHANGED <<call, ret>>
     IN  filled(Refill(br, src, Base))
  /\ UNCHANGED strayed

BRNext == \/ TryRefillBufferIfEmpty \/ SetCheckpoint \/ ClearCheckpoint \/ TrySeekFromBegin
          \/ TryRead \/ TryReadToDelimiter \/ TakeFromBuffer \/ RefillDuringCall

BRSpec == BRInit /\ [][BRNext]_brVars
-----------------------------------------------------------------------------
(* The pieces of the reader's state keep their ranges. *)
BRTypeOK ==
  /\ src \in 0 .. SrcLen + 1
  /\ br.rpos \in 0 .. Len(br.data)
  /\ br.check \in {None} \cup 0 .. SrcLen + 1
  /\ br.pos <= br.highest
  /\ br.size <= br.cap
  /\ \A i \in DOMAIN br.data : br.data[i] \in 1 .. SrcLen

(* The window is where it says it is, and the head of the inner reader is    *)
(* the head the caller sees, except after a seek that came up short while a  *)
(* checkpoint was set: refill_reader_buffer has then moved the inner head to *)
(* the end of the old window and try_seek_from_begin returns without         *)
(* putting it back.                                                          *)
WindowIsSource ==
  /\ \A i \in DOMAIN br.data : br.data[i] = br.begin + i
  /\ br.data # <<>> => BufferEnd(br) = src
  /\ ~strayed => br.begin + br.rpos = br.pos

(* A read returns the bytes that follow the position it was made at, and     *)
(* fewer than asked for only at the end of the source, wherever checkpoints  *)
(* were set and cleared before it.                                           *)
ReadsFollowPosition ==
  ~strayed /\ ret.op \in {"read", "line"} =>
    ret.bytes = SrcBytes(ret.start, Len(ret.bytes))

(* What keeps a refill inside the allocation is the capacity of m_buffer:    *)
(* clearing a checkpoint at the end of the window resizes it to 0, and the   *)
(* next refill without a checkpoint writes behind its size.                  *)
RefillFitsCapacity ==
  LET p == RefillPlan(br, Base)
  IN  br.check = None /\ br.rpos = Len(br.data) => p.at + p.ask <= br.cap

(* clear_checkpoint never throws (its comment: "Should never happen"): the   *)
(* highest position reached is always inside the window.                     *)
ClearSucceeds == ret.op = "clear" /\ ~strayed => ret.rc = "Success"

(* From the checkpoint on every byte that was read can be read again.        *)
CheckpointIsKept == br.check # None /\ ~strayed => br.begin <= br.check
=============================================================================
