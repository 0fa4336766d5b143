----------------------------- MODULE Reassembly -----------------------------
(***************************************************************************)
(* The reassembly engine of sovVault (src/src/reassembly.rs): the segments *)
(* of each capture device arrive as chunks at absolute byte offsets, out   *)
(* of order and more than once.  A chunk at the segment's cursor is handed *)
(* downstream at once, one ahead of it waits in a buffer, and three byte   *)
(* budgets (segment L2, device L2.5, global L3) bound what may wait.       *)
(*                                                                         *)
(* The engine is owned by one ingest thread, so each public call is one    *)
(* step.  The bytes of a segment are identified by their offset: the       *)
(* content of a chunk is what the sender recorded at [off, off + len).     *)
(***************************************************************************)
EXTENDS Integers, FiniteSets, Functions

CONSTANTS
  Dev,             \* the capture devices, dev_id
  MaxSeq,          \* segment numbers are 0 .. MaxSeq
  SegSize,         \* bytes in a segment as its sender sealed it
  MaxLen,          \* longest chunk
  L2Cap,           \* Budgets.l2_segment_cap
  L25Cap,          \* Budgets.l25_conn_cap
  L3Cap,           \* Budgets.l3_global_cap
  EvictWindow,     \* Budgets.evict_window_secs
  EvictThreshold,  \* Budgets.evict_threshold
  Times            \* the clock values set_now may inject

(* A device's number is one of 2^32.                                       *)
ASSUME DevicesAssumption == IsFiniteSet(Dev)

ASSUME SizesAssumption ==
  /\ MaxSeq \in Nat
  /\ SegSize \in Nat \ {0}
  /\ MaxLen \in 1 .. SegSize

ASSUME BudgetsAssumption ==
  /\ L2Cap \in Nat
  /\ L25Cap \in Nat
  /\ L3Cap \in Nat
  /\ EvictWindow \in Nat
  /\ EvictThreshold \in Nat

ASSUME TimesAssumption == Times \subseteq Nat

SegSeq == 0 .. MaxSeq

(* SegmentState.  "Absent" is a key the map of segments lacks; "Sealed" is *)
(* never stored, a segment being released when it is complete.             *)
SegmentState == {"Absent", "New", "Unfinished", "Skipped", "Error"}

(* A chunk that waits: its absolute offset and its length.                 *)
Chunk == [off : Nat, len : Nat \ {0}]

-----------------------------------------------------------------------------
VARIABLES
  buf,      \* the segments, the budgets' counters, the quarantined devices
  lastSeq,  \* last_seq: the highest sealed segment number of each device
  now,      \* the injected clock
  events    \* what the last call returned

vars == <<buf, lastSeq, now, events>>

(***************************************************************************)
(* buf groups the fields that one call changes together.  segs is the map  *)
(* of SegmentBufs; a key it lacks is "Absent" and reads as a new one,      *)
(* which is what unwrap_or((0, 0)) and or_insert_with do.                  *)
(***************************************************************************)
EmptySeg ==
  [state |-> "Absent",
   next |-> 0,        \* next_expected
   pend |-> {},       \* pending, the chunks that wait
   bytes |-> 0]       \* pending_bytes

Seg(b, d, s) == b.segs[d][s]

EventKinds == {"Append", "Dup", "Gap", "Sealed", "SealGap", "SeqSkipped",
               "SegmentError", "Evict", "Quarantine", "QuarantinedDrop"}

(* The consecutive Append events of one call are one event here, for the   *)
(* bytes [from, to): the consumer concatenates them anyway.                *)
Event(kind, d, s, from, to) ==
  [kind |-> kind, dev |-> d, seq |-> s, from |-> from, to |-> to]

Offsets(p) == {c.off : c \in p}
End(c) == c.off + c.len
SaturatingSub(a, b) == IF a >= b THEN a - b ELSE 0

(* What is charged to the segments of a device, and to the device.         *)
Charges(b, d) == [s \in SegSeq |-> Seg(b, d, s).bytes]
DevBytes(b, d) == SumFunctionOnSet(Charges(b, d), SegSeq)

-----------------------------------------------------------------------------
(* Dropping all that waits in a segment, and what the budgets get back     *)
(* (mark_segment_error, drop_segment_pending, release_segment).            *)
Emptied(seg) == [seg EXCEPT !.pend = {}, !.bytes = 0]

DropPending(b, d, s) ==
  [b EXCEPT !.segs[d][s] = Emptied(@),
            !.global = SaturatingSub(@, Seg(b, d, s).bytes),
            !.conn[d] = SaturatingSub(@, Seg(b, d, s).bytes)]

(* quarantine: every segment of the device is skipped and emptied, its     *)
(* budget entry and its eviction count are removed.  The code subtracts    *)
(* from the global counter segment by segment; their sum never exceeds the *)
(* counter (AccountingConsistent), so it is one subtraction here.          *)
Skip(seg) ==
  [Emptied(seg) EXCEPT !.state = IF @ = "Absent" THEN @ ELSE "Skipped"]

QuarantineDev(b, d) ==
  [b EXCEPT !.quarantined = @ \cup {d},
            !.segs[d] = [s \in SegSeq |-> Skip(@[s])],
            !.global = SaturatingSub(@, DevBytes(b, d)),
            !.conn[d] = 0,
            !.streak[d] = 0,
            !.window[d] = 0]

Without(seg, c) == [seg EXCEPT !.pend = @ \ {c}, !.bytes = @ - c.len]

RemoveChunk(b, d, s, c) ==
  [b EXCEPT !.segs[d][s] = Without(@, c),
            !.global = @ - c.len,
            !.conn[d] = @ - c.len]

(* What an eviction may pick among the devices D: a chunk at the lowest    *)
(* offset.  The code walks a HashMap, so a tie may go either way.          *)
Waiting(b, D) ==
  {w \in [dev : D, seq : SegSeq,
          chunk : UNION {Seg(b, d, s).pend : d \in D, s \in SegSeq}] :
     w.chunk \in Seg(b, w.dev, w.seq).pend}

Oldest(b, D) ==
  {w \in Waiting(b, D) : \A v \in Waiting(b, D) : w.chunk.off <= v.chunk.off}

EvictEvent(w) == Event("Evict", w.dev, w.seq, w.chunk.off, End(w.chunk))

(* Mutant: the window is never restarted.                                  *)
CountForever(b, d) == [b EXCEPT !.streak[d] = @ + 1]

(* The count of a device's evictions within the window.  A count of 0 is   *)
(* an entry the code has yet to create.                                    *)
CountEviction(b, d) ==
  IF b.streak[d] = 0 \/ now - b.window[d] > EvictWindow
  THEN [b EXCEPT !.streak[d] = 1, !.window[d] = now]
  ELSE [b EXCEPT !.streak[d] = @ + 1]

(* evict_oldest_in_dev: one chunk goes, and the device is quarantined once *)
(* it has been through EvictThreshold evictions.                           *)
EvictFromDev(b, w) ==
  LET counted == CountEviction(RemoveChunk(b, w.dev, w.seq, w.chunk), w.dev)
  IN  IF counted.streak[w.dev] >= EvictThreshold
      THEN [buf |-> QuarantineDev(counted, w.dev),
            ev |-> {EvictEvent(w), Event("Quarantine", w.dev, 0, 0, 0)}]
      ELSE [buf |-> counted, ev |-> {EvictEvent(w)}]

Untouched(b) == [buf |-> b, ev |-> {}]

EvictOldestInDev(b, d) ==
  IF Waiting(b, {d}) = {} THEN {Untouched(b)}
  ELSE {EvictFromDev(b, w) : w \in Oldest(b, {d})}

(* Mutant: the oldest chunk, whoever holds it.                             *)
VictimsByAge(b) == Oldest(b, Dev)

(* evict_oldest_global: quarantined devices first, then the lowest offset. *)
GlobalVictims(b) ==
  IF Waiting(b, b.quarantined) # {} THEN Oldest(b, b.quarantined)
  ELSE Oldest(b, Dev)

EvictOldestGlobal(b) ==
  IF GlobalVictims(b) = {} THEN {Untouched(b)}
  ELSE {[buf |-> RemoveChunk(b, w.dev, w.seq, w.chunk), ev |-> {EvictEvent(w)}] :
          w \in GlobalVictims(b)}

-----------------------------------------------------------------------------
(* The insertion: a chunk already waiting at the same offset is replaced,  *)
(* and the three counters grow by the new length all the same.             *)
With(seg, c) ==
  [seg EXCEPT !.state = IF @ = "Absent" THEN "New" ELSE @,
              !.pend = {x \in @ : x.off # c.off} \cup {c},
              !.bytes = @ + c.len]

Insert(b, d, s, c) ==
  [b EXCEPT !.segs[d][s] = With(@, c),
            !.global = @ + c.len,
            !.conn[d] = @ + c.len]

(* Mutant: one chunk is popped, what follows it is not.                    *)
PoppedOnce(p, n, D, e) ==
  /\ D = {c \in p : c.off = n}
  /\ IF D = {} THEN e = n ELSE \E c \in D : End(c) = e

(***************************************************************************)
(* drain_contiguous pops the chunk at the cursor and moves the cursor to   *)
(* its end until no chunk starts there.  Popped(p, n, D, e) says that,     *)
(* from cursor n, it pops exactly the chunks D of p and stops at e.        *)
(***************************************************************************)
Popped(p, n, D, e) ==
  /\ e \notin Offsets(p)
  /\ \A c \in D : /\ c.off >= n
                  /\ End(c) <= e
                  /\ c.off = n \/ \E x \in D : End(x) = c.off
  /\ IF n \in Offsets(p) THEN \E c \in D : c.off = n ELSE D = {}
  /\ IF D = {} THEN e = n ELSE \E c \in D : End(c) = e

(* Mutant: the segment's own counter is left as it is.                     *)
DrainSegCharged(seg, D, e) ==
  [seg EXCEPT !.pend = @ \ D,
              !.next = e,
              !.state = IF D = {} THEN @ ELSE "Unfinished"]

(* The chunks D tile [n, e), so the counters fall by e - n.                *)
DrainSeg(seg, D, e) ==
  [seg EXCEPT !.pend = @ \ D,
              !.next = e,
              !.state = IF D = {} THEN @ ELSE "Unfinished",
              !.bytes = @ - (e - seg.next)]

Drain(b, d, s, D, e) ==
  LET popped == e - Seg(b, d, s).next
  IN  [b EXCEPT !.segs[d][s] = DrainSeg(@, D, e),
                !.global = @ - popped,
                !.conn[d] = SaturatingSub(@, popped)]

-----------------------------------------------------------------------------
(* Mutant: quarantine counts for a device that still holds bytes.          *)
IsQuarantinedHolder(d) == d \in buf.quarantined /\ buf.conn[d] > 0

(* The cases of place_chunk, in the order of its early returns.            *)
IsQuarantined(d) == d \in buf.quarantined

DropQuarantined(d, s, off, len) ==
  /\ IsQuarantined(d)
  /\ events' = {Event("QuarantinedDrop", d, s, off, off + len)}
  /\ UNCHANGED <<buf, lastSeq, now>>

DropDuplicate(d, s, off, len) ==
  /\ ~IsQuarantined(d)
  /\ off + len <= Seg(buf, d, s).next
  /\ events' = {Event("Dup", d, s, off, off + len)}
  /\ UNCHANGED <<buf, lastSeq, now>>

(* The part of a chunk that lies ahead of the cursor n.                    *)
NewPart(off, len, n) ==
  IF off < n THEN [off |-> n, len |-> off + len - n]
  ELSE [off |-> off, len |-> len]

OverSegmentCap(seg, c) == c.off > seg.next /\ seg.bytes + c.len > L2Cap

(* Mutant: the failed segment starts afresh.                               *)
FailedAfresh(seg) == [EmptySeg EXCEPT !.state = "Error"]

(* mark_segment_error: what waits is dropped and the chunk with it; a      *)
(* segment that does not exist yet is not created.                         *)
Failed(seg) == [seg EXCEPT !.state = IF @ = "Absent" THEN @ ELSE "Error"]

FailSegment(d, s, off, len) ==
  LET seg == Seg(buf, d, s)
  IN  /\ ~IsQuarantined(d)
      /\ off + len > seg.next
      /\ OverSegmentCap(seg, NewPart(off, len, seg.next))
      /\ buf' = [DropPending(buf, d, s) EXCEPT !.segs[d][s] = Failed(@)]
      /\ events' = {Event("SegmentError", d, s, 0, 0),
                    Event("Gap", d, s, seg.next, seg.next)}
      /\ UNCHANGED <<lastSeq, now>>

(* Mutant: the device is held to the global cap.                           *)
AfterDevBudgetWrongCap(b, d, s, c) ==
  IF c.off > Seg(b, d, s).next /\ b.conn[d] + c.len > L3Cap
  THEN EvictOldestInDev(b, d)
  ELSE {Untouched(b)}

AfterDevBudget(b, d, s, c) ==
  IF c.off > Seg(b, d, s).next /\ b.conn[d] + c.len > L25Cap
  THEN EvictOldestInDev(b, d)
  ELSE {Untouched(b)}

AfterGlobalBudget(b, c) ==
  IF b.global + c.len > L3Cap THEN EvictOldestGlobal(b) ELSE {Untouched(b)}

AppendEvents(d, s, from, to) ==
  IF from = to THEN {} ELSE {Event("Append", d, s, from, to)}

AcceptChunk(d, s, off, len) ==
  LET n == Seg(buf, d, s).next
      c == NewPart(off, len, n)
  IN  /\ ~IsQuarantined(d)
      /\ off + len > n
      /\ ~OverSegmentCap(Seg(buf, d, s), c)
      /\ \E r1 \in AfterDevBudget(buf, d, s, c) :
         \E r2 \in AfterGlobalBudget(r1.buf, c) :
           LET in == Insert(r2.buf, d, s, c)
           IN  \E D \in SUBSET Seg(in, d, s).pend :
               \E e \in {n} \cup {End(x) : x \in D} :
                 /\ Popped(Seg(in, d, s).pend, n, D, e)
                 /\ buf' = Drain(in, d, s, D, e)
                 /\ events' = r1.ev \cup r2.ev \cup AppendEvents(d, s, n, e)
      /\ UNCHANGED <<lastSeq, now>>

PlaceChunk(d, s, off, len) ==
  \/ DropQuarantined(d, s, off, len)
  \/ DropDuplicate(d, s, off, len)
  \/ FailSegment(d, s, off, len)
  \/ AcceptChunk(d, s, off, len)

-----------------------------------------------------------------------------
(* seal.  Segment numbers between the last sealed one and this one are     *)
(* reported as skipped; the segment is released when all of it has been    *)
(* handed on, and kept waiting for a refill otherwise.                     *)
SkippedEvents(d, s) ==
  IF s > 0 /\ lastSeq[d] > 0
  THEN {Event("SeqSkipped", d, m, 0, 0) : m \in (lastSeq[d] + 1) .. (s - 1)}
  ELSE {}

(* Mutant: the next segment is noted.                                      *)
NoteNext(d, s) ==
  lastSeq' = [lastSeq EXCEPT ![d] = IF s >= @ THEN s + 1 ELSE @]

NoteSealed(d, s) ==
  lastSeq' = [lastSeq EXCEPT ![d] = IF s > @ THEN s ELSE @]

(* Mutant: the segment goes and its charge stays.                          *)
ReleaseUncharged(b, d, s) == [b EXCEPT !.segs[d][s] = EmptySeg]

(* release_segment: the entry is removed, so it reads as a new one again.  *)
Release(b, d, s) == [DropPending(b, d, s) EXCEPT !.segs[d][s] = EmptySeg]

SealUnknown(d, s) ==
  /\ Seg(buf, d, s).state = "Absent"
  /\ NoteSealed(d, s)
  /\ events' = SkippedEvents(d, s)
  /\ UNCHANGED <<buf, now>>

SealComplete(d, s, size) ==
  /\ Seg(buf, d, s).state # "Absent"
  /\ Seg(buf, d, s).next = size
  /\ NoteSealed(d, s)
  /\ buf' = Release(buf, d, s)
  /\ events' = SkippedEvents(d, s) \cup {Event("Sealed", d, s, 0, size)}
  /\ UNCHANGED now

SealWithGap(d, s, size) ==
  /\ Seg(buf, d, s).state # "Absent"
  /\ Seg(buf, d, s).next # size
  /\ NoteSealed(d, s)
  /\ events' = SkippedEvents(d, s)
                 \cup {Event("SealGap", d, s, Seg(buf, d, s).next, size)}
  /\ UNCHANGED <<buf, now>>

Seal(d, s, size) ==
  SealUnknown(d, s) \/ SealComplete(d, s, size) \/ SealWithGap(d, s, size)

(* set_now.  Nothing in the running service calls it: Times = {0} is the   *)
(* service, a larger set the engine as its tests drive it.                 *)
SetNow(t) ==
  /\ t > now
  /\ now' = t
  /\ events' = {}
  /\ UNCHANGED <<buf, lastSeq>>

-----------------------------------------------------------------------------
Init ==
  /\ buf = [segs |-> [d \in Dev |-> [s \in SegSeq |-> EmptySeg]],
            conn |-> [d \in Dev |-> 0],      \* conn_pending, absent = 0
            global |-> 0,                    \* global_pending
            quarantined |-> {},
            streak |-> [d \in Dev |-> 0],    \* evict, absent = 0
            window |-> [d \in Dev |-> 0]]
  /\ lastSeq = [d \in Dev |-> 0]
  /\ now = 0
  /\ events = {}

(* A sender cuts a segment of SegSize bytes into chunks of up to MaxLen    *)
(* bytes; a refill may cut it elsewhere than the first delivery did.       *)
Next ==
  \/ \E d \in Dev, s \in SegSeq, off \in 0 .. SegSize - 1, len \in 1 .. MaxLen :
       off + len <= SegSize /\ PlaceChunk(d, s, off, len)
  \/ \E d \in Dev, s \in SegSeq : Seal(d, s, SegSize)
  \/ \E t \in Times : SetNow(t)

Spec == Init /\ [][Next]_vars

-----------------------------------------------------------------------------
(* The type of the state.                                                  *)
SegmentBuf ==
  [state : SegmentState, next : Nat, pend : SUBSET Chunk, bytes : Int]

(* The global counter is left to AccountingConsistent, which equates it    *)
(* with a sum of integers.                                                 *)
BufOK(b) ==
  /\ DOMAIN b = {"segs", "conn", "global", "quarantined", "streak", "window"}
  /\ b.segs \in [Dev -> [SegSeq -> SegmentBuf]]
  /\ b.conn \in [Dev -> Int]
  /\ b.quarantined \subseteq Dev
  /\ b.streak \in [Dev -> Nat]
  /\ b.window \in [Dev -> Nat]

TypeOK ==
  /\ BufOK(buf)
  /\ lastSeq \in [Dev -> SegSeq]
  /\ now \in Nat
  /\ events \subseteq [kind : EventKinds, dev : Dev, seq : SegSeq,
                       from : Nat, to : Nat]

Lengths(p) == [c \in p |-> c.len]
BufferedBytes(seg) == SumFunctionOnSet(Lengths(seg.pend), seg.pend)

(* The L2 budget holds: whatever is evicted, replaced, drained or dropped  *)
(* on the way, no segment is ever charged more than its cap (the check in  *)
(* place_chunk before the insertion).                                      *)
SegmentWithinCap ==
  \A d \in Dev, s \in SegSeq : Seg(buf, d, s).bytes <= L2Cap

(* Nothing that could be handed on is left waiting: no chunk starts at its *)
(* segment's cursor between two calls (drain_contiguous).                  *)
NoReadyChunkWaits ==
  \A d \in Dev, s \in SegSeq :
    Seg(buf, d, s).next \notin Offsets(Seg(buf, d, s).pend)

(* The three counters agree with each other, and cover what really waits,  *)
(* so that the unchecked subtractions of RemoveChunk and Drain never       *)
(* underflow a u64.                                                        *)
AccountingConsistent ==
  /\ \A d \in Dev : buf.conn[d] = DevBytes(buf, d)
  /\ buf.global = SumFunctionOnSet([d \in Dev |-> DevBytes(buf, d)], Dev)
  /\ \A d \in Dev, s \in SegSeq :
       Seg(buf, d, s).bytes >= BufferedBytes(Seg(buf, d, s))

(* As long as the clock does not move, and in the service it never does, a *)
(* device exceeds its L2.5 cap by at most one chunk for each eviction it   *)
(* may have before it is quarantined: the streak bounds the overshoot.     *)
OvershootBounded ==
  now = 0 => \A d \in Dev : buf.conn[d] <= L25Cap + (buf.streak[d] + 1) * MaxLen

(* The bytes handed on are those between the old cursor and the new one,   *)
(* and the cursor goes back only when the segment is released complete.    *)
CursorFollowsAppends ==
  [][\A d \in Dev, s \in SegSeq :
       LET from == Seg(buf, d, s).next
           to == Seg(buf', d, s).next
       IN  \/ to = from
           \/ to > from /\ Event("Append", d, s, from, to) \in events'
           \/ to = 0 /\ Event("Sealed", d, s, 0, from) \in events']_vars

(* Quarantine is final and only gives memory back: no later chunk, seal or *)
(* eviction lifts it, and the device's buffered bytes never grow again.    *)
QuarantineOnlyShrinks ==
  [][\A d \in buf.quarantined :
       /\ d \in buf'.quarantined
       /\ buf'.conn[d] <= buf.conn[d]
       /\ \A s \in SegSeq : Seg(buf', d, s).pend \subseteq Seg(buf, d, s).pend]_vars

(* L3 evicts as a last resort and spares the innocent: a chunk evicted     *)
(* without a device's own eviction count moving means that the global      *)
(* budget was at its end, and that no quarantined device held a chunk      *)
(* unless it was the one to lose it.                                       *)
GlobalEvictionIsLastResort ==
  [][\A ev \in events' :
       /\ ev.kind = "Evict"
       /\ buf'.streak = buf.streak /\ buf'.window = buf.window
       /\ buf'.quarantined = buf.quarantined
       => /\ buf.global + MaxLen > L3Cap
          /\ \/ ev.dev \in buf.quarantined
             \/ Waiting(buf, buf.quarantined) = {}]_vars

(* With a clock that moves, only a burst quarantines: the evictions that   *)
(* make a device's count full all fall into one window (evict_window_secs).*)
QuarantineNeedsBurst ==
  [][\A d \in buf'.quarantined \ buf.quarantined :
       EvictThreshold > 1 => /\ buf.streak[d] = EvictThreshold - 1
                             /\ now <= buf.window[d] + EvictWindow]_vars
=============================================================================
