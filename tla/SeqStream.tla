----------------------------- MODULE SeqStream -----------------------------
(***************************************************************************)
(* The sequence-number translator of sovVault (SeqStream in                *)
(* src/src/qr.rs): TCP numbers the bytes of a stream modulo 2^32, the      *)
(* matching engine keys its rows by absolute numbers that never wrap.  A   *)
(* stream keeps the raw number at its head and the absolute one.           *)
(***************************************************************************)
EXTENDS Integers

CONSTANT SeqSpace    \* the range of raw sequence numbers, 2^32 in the code

ASSUME SeqSpaceAssumption == SeqSpace \in Nat /\ SeqSpace > 1 /\ SeqSpace % 2 = 0

RawSeq == 0 .. SeqSpace - 1

(* A stream is inactive until its first packet gives it a baseline.        *)
Stream == [raw : RawSeq, abs : Nat, active : BOOLEAN]

IdleStream == [raw |-> 0, abs |-> 0, active |-> FALSE]

(* reset_baseline *)
Baseline(isn) == [raw |-> isn, abs |-> isn, active |-> TRUE]

(* x as i32, for the wrapping difference x of two raw numbers.             *)
Signed(x) == IF x < SeqSpace \div 2 THEN x ELSE x - SeqSpace

(* Mutant: the difference does not wrap.                                   *)
PlainDiff(str, raw) == raw - str.raw

Diff(str, raw) == Signed((raw - str.raw) % SeqSpace)

(* abs_of: what lies at or behind the head is clamped to the head.         *)
AbsOf(str, raw) ==
  IF ~str.active THEN raw
  ELSE IF Diff(str, raw) > 0 THEN str.abs + Diff(str, raw)
  ELSE str.abs

(***************************************************************************)
(* feed_packet: the stream after a packet of len bytes at seq, and the     *)
(* part of the packet it takes for new, [start, start + new) in absolute   *)
(* numbers.  The first packet only sets the baseline; the head does not    *)
(* move past its bytes.                                                    *)
(***************************************************************************)
Fed(stream, start, new) == [stream |-> stream, start |-> start, new |-> new]

Advance(str, seq, len, start, new) ==
  Fed([str EXCEPT !.raw = (seq + len) % SeqSpace, !.abs = start + new], start, new)

(* Mutant: the sign is not looked at.                                      *)
AheadUnsigned(str, seq, len) == (seq + len - str.raw) % SeqSpace

(* The bytes of a packet that lie ahead of the head, 0 when the difference *)
(* is negative as an i32.                                                  *)
Ahead(str, seq, len) ==
  LET tail == (seq + len - str.raw) % SeqSpace
  IN  IF Signed(tail) < 0 THEN 0 ELSE tail

(* Mutant: a packet that overlaps the head is new as a whole.              *)
FeedPacketWhole(str, seq, len) ==
  CASE ~str.active -> Fed(Baseline(seq), seq, len)
    [] str.active /\ Diff(str, seq) <= 0 /\ Ahead(str, seq, len) = 0 ->
         Fed(str, str.abs, 0)
    [] OTHER ->
         Advance(str, seq, len, str.abs + Diff(str, seq), len)

FeedPacket(str, seq, len) ==
  CASE ~str.active -> Fed(Baseline(seq), seq, len)
    [] str.active /\ Diff(str, seq) > 0 ->
         Advance(str, seq, len, str.abs + Diff(str, seq), len)
    [] str.active /\ Diff(str, seq) <= 0 /\ Ahead(str, seq, len) > 0 ->
         Advance(str, seq, len, str.abs, Ahead(str, seq, len))
    [] OTHER -> Fed(str, str.abs, 0)
=============================================================================
