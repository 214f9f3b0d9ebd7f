----------------------------- MODULE ByteStream -----------------------------
(***************************************************************************)
(* What a streaming ReaderInterface promises its caller: the bytes of a    *)
(* source, each once and in order, and an end of file that is final.  The  *)
(* source is the sequence 1 .. limit of byte positions; `limit' is where   *)
(* the stream ends, fixed once the producer stops.                         *)
(***************************************************************************)
EXTENDS Naturals, Sequences

VARIABLES
  head,    \* the position of the read head
  limit,   \* bytes the producer has handed over so far
  ended,   \* whether the producer stopped
  out      \* what the last operation returned: [kind, bytes]

bsVars == <<head, limit, ended, out>>

Bytes(from, k) == [i \in 1 .. k |-> from + i]

BSInit ==
  /\ head = limit
  /\ ~ended
  /\ out = [kind |-> "none", bytes |-> <<>>]

(* The producer hands over more bytes, or stops, possibly at once. *)
Produce == /\ ~ended
           /\ limit' >= limit
           /\ ended' \in BOOLEAN
           /\ UNCHANGED <<head, out>>

(* A read or a seek moves the head over bytes the producer handed over, and  *)
(* may come up short only once the producer stopped and nothing is left.     *)
Take == \E k \in 0 .. limit - head :
          /\ head' = head + k
          /\ out' \in {[kind |-> w, bytes |-> Bytes(head, k)] : w \in {"read", "seek"}}
          /\ UNCHANGED <<limit, ended>>

Exhaust == /\ ended
           /\ head' = limit
           /\ out'.kind \in {"short", "eof", "outOfBounds"}
           /\ out'.bytes = Bytes(head, limit - head)
           /\ out'.kind = "eof" => head = limit
           /\ UNCHANGED <<limit, ended>>

(* Anything else a caller asks (the position, a seek backwards) moves nothing. *)
Answer == /\ out'.kind \in {"pos", "notReady", "failure", "unsupported"}
          /\ out'.bytes = <<>>
          /\ UNCHANGED <<head, limit, ended>>

BSNext == Produce \/ Take \/ Exhaust \/ Answer

BSSpec == BSInit /\ [][BSNext]_bsVars
=============================================================================
