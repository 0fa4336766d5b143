--------------------------- MODULE StreamTracking ---------------------------
(***************************************************************************)
(* A translator that follows one direction of a TCP stream as a tap sees   *)
(* it.  The sender numbers its bytes from its initial number on; the tap   *)
(* captures segments in the order they pass, again when they are           *)
(* retransmitted, and late when the network reorders them.  The true       *)
(* number of a byte is its raw number without the wrap.                    *)
(***************************************************************************)
EXTENDS SeqStream, FiniteSetsExt

CONSTANTS
  InitialSeqs,   \* the initial sequence numbers
  MaxSeg,        \* longest segment
  Window,        \* how far behind the newest byte a segment may still lie
  Taps           \* ordered: the network does not reorder first transmissions;
                 \* joined: the length of the first packet the tap sees, 0 for
                 \* the SYN; sent: bound on the bytes sent

ASSUME TrackingAssumption ==
  /\ InitialSeqs \subseteq RawSeq
  /\ MaxSeg \in Nat \ {0}
  /\ Window \in Nat
  /\ Window + MaxSeg < SeqSpace \div 2
  /\ Taps \subseteq [ordered: BOOLEAN, joined: 0 .. MaxSeg, sent: Nat]

VARIABLES
  tap,     \* never changes
  str,     \* the translator
  isn,     \* the true number of the first byte the tap may see
  sent,    \* bytes sent so far: true numbers isn .. isn + sent - 1
  seen,    \* the true numbers of the bytes captured so far
  last     \* the last packet: its bytes seen first, and those reported as new

vars == <<tap, str, isn, sent, seen, last>>

Bytes(from, len) == from .. (from + len - 1)

(* The tap sees the SYN, a packet of no bytes, or joins a stream midway.   *)
Init ==
  /\ tap \in Taps
  /\ isn \in InitialSeqs
  /\ str = FeedPacket(IdleStream, isn, tap.joined).stream
  /\ sent = tap.joined
  /\ seen = Bytes(isn, tap.joined)
  /\ last = [bytes |-> {}, new |-> {}]

Capture(from, len) ==
  LET fed == FeedPacket(str, from % SeqSpace, len)
  IN  /\ str' = fed.stream
      /\ seen' = seen \cup Bytes(from, len)
      /\ last' = [bytes |-> Bytes(from, len) \ seen,
                  new |-> Bytes(fed.start, fed.new)]
      /\ UNCHANGED <<tap, isn>>

(* The receiver's window: the sender is never further ahead of the newest  *)
(* byte that passed.                                                       *)
MaySend(len) ==
  /\ sent + len <= tap.sent
  /\ isn + sent + len <= str.abs + Window

(* A segment of len new bytes, behind which back bytes are sent again,     *)
(* passes the tap as it is sent.                                           *)
Send(back, len) ==
  /\ MaySend(len)
  /\ sent' = sent + len
  /\ Capture(isn + sent - back, back + len)

(* A segment is lost before the tap and will pass later, if at all.        *)
Lose(len) ==
  /\ ~tap.ordered
  /\ MaySend(len)
  /\ sent' = sent + len
  /\ UNCHANGED <<tap, str, isn, seen, last>>

(* Bytes sent before pass, for the first time or again, cut anywhere.      *)
Resend(from, len) ==
  /\ from >= isn + sent - Window
  /\ from + len <= isn + sent
  /\ Capture(from, len)
  /\ UNCHANGED sent

Next ==
  \/ \E len \in 1 .. MaxSeg :
       \/ \E back \in 0 .. MaxSeg - len : back <= sent /\ Send(back, len)
       \/ Lose(len)
  \/ \E from \in isn .. (isn + sent - 1), len \in 1 .. MaxSeg : Resend(from, len)

Spec == Init /\ [][Next]_vars

-----------------------------------------------------------------------------
(* However often the raw numbers wrap, the head is the true number after   *)
(* the newest byte the tap has seen: no retransmission, whole or partial,  *)
(* moves it back or too far ahead (feed_packet); a tap that joined midway  *)
(* has it lie within the first packet until it sees another byte.  Any     *)
(* number the peer may acknowledge ahead of it is translated to its true   *)
(* number (abs_of).                                                        *)
FirstPacket == Bytes(isn, tap.joined)

HeadIsTrue ==
  \/ seen \subseteq FirstPacket /\ str.abs \in isn .. isn + tap.joined
  \/ str.abs = Max(seen) + 1

AckAheadIsTrue ==
  \A n \in (str.abs + 1) .. (isn + sent) : AbsOf(str, n % SeqSpace) = n

TranslationIsTrue == HeadIsTrue /\ AckAheadIsTrue

(* What is reported as new is exactly what was captured for the first time *)
(* when segments pass in order: each byte is new once, but for the packet  *)
(* at which a tap joined, whose bytes are new again when sent again.       *)
NewIsFirstSeen ==
  [][tap.ordered /\ last' # last =>
       /\ last'.bytes \subseteq last'.new
       /\ last'.new \subseteq last'.bytes \cup FirstPacket]_vars
=============================================================================
