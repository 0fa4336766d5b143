-------------------------------- MODULE Keys --------------------------------
(***************************************************************************)
(* The keys of sovVault's tables (src/src/id.rs, the key builders of       *)
(* src/src/db.rs, the bounds of src/src/query.rs).  A key is a row of      *)
(* unsigned fields, each big-endian and of a fixed width.  LMDB compares   *)
(* keys byte by byte, and so two keys of one table compare like the        *)
(* numbers whose digits their fields are.  That number stands for the key  *)
(* here, and the number of values of a field for its width.                *)
(***************************************************************************)
EXTENDS Integers, Sequences

CONSTANTS
  FileRange,    \* values of a file id, 2^32 in the code
  OffsetRange,  \* values of an offset in a file, 2^32
  TimeRange,    \* values of a timestamp, 2^64
  IncRange,     \* values of an incarnation, 2^16
  EndRange,     \* values of the end of a request as a key has it, 2^48
  CountRange,   \* values of a count in a QR_PAIR row, 2^16
  Undecodable   \* what decode returns when the bytes are no row

ASSUME KeysAssumption ==
  /\ FileRange \in Nat \ {0} /\ OffsetRange \in Nat \ {0} /\ TimeRange \in Nat \ {0}
  /\ IncRange \in Nat \ {0} /\ EndRange \in Nat \ {0} /\ CountRange \in Nat \ {0}

File == 0 .. FileRange - 1
Offset == 0 .. OffsetRange - 1
Time == 0 .. TimeRange - 1

IdxRange == FileRange * OffsetRange
Idxs == 0 .. IdxRange - 1

(* Two fields, the first over the second, whose values are 0 .. range - 1. *)
Over(first, range, second) == first * range + second

(* A range from lo to hi, both included.                                   *)
InRange(key, range) == range.lo <= key /\ key <= range.hi

-----------------------------------------------------------------------------
(* encode and decode: where a record lies names it.                        *)
Idx(file, offset) == Over(file, OffsetRange, offset)
FileOf(idx) == idx \div OffsetRange
OffsetOf(idx) == idx % OffsetRange

(* RECORD_TS and QR_TIME; CONN_QR and QR_KEY have a hash in front.         *)
TimeKey(ts, idx) == Over(ts, IdxRange, idx)
ConnQrKey(conn, ts, idx) == Over(Over(conn, TimeRange, ts), IdxRange, idx)

(* QR_PENDING; an end that has outgrown its 48 bits loses the upper ones.  *)
PendingKey(conn, inc, end) == Over(Over(conn, IncRange, inc), EndRange, end % EndRange)

(* ts_bounds and conn_qr_bounds: all the records from one instant to       *)
(* another; without a window from 0 to the last instant there is.          *)
TsBounds(from, to) == [lo |-> TimeKey(from, 0), hi |-> TimeKey(to, IdxRange - 1)]
ConnQrBounds(conn, from, to) ==
  [lo |-> ConnQrKey(conn, from, 0), hi |-> ConnQrKey(conn, to, IdxRange - 1)]

(* scan_pending_upto: the prefix of the incarnation, which is below all    *)
(* the keys it starts, up to a limit that is cut to what an end can be.    *)
PendingBounds(conn, inc, limit) ==
  [lo |-> PendingKey(conn, inc, 0),
   hi |-> PendingKey(conn, inc, IF limit < EndRange THEN limit ELSE EndRange - 1)]

-----------------------------------------------------------------------------
(* QrPairValue, the row of a request: head stands for its fields of fixed  *)
(* width, q and r are the locators of the packets of request and response, *)
(* keys stands for the two byte strings at the end.                        *)
EncodePair(pair) ==
  <<pair.head, Len(pair.q) % CountRange, Len(pair.r) % CountRange>>
    \o pair.q \o pair.r \o <<pair.keys>>

(* The counts say where each part ends, and the last must end the bytes.   *)
DecodePair(words) ==
  LET afterQ == 3 + words[2]
      afterR == afterQ + words[3]
  IN  IF Len(words) # afterR + 1 THEN Undecodable
      ELSE [head |-> words[1],
            q |-> SubSeq(words, 4, afterQ),
            r |-> SubSeq(words, afterQ + 1, afterR),
            keys |-> words[afterR + 1]]
=============================================================================
