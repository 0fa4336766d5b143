-------------------------- MODULE ReassemblyProofs --------------------------
(* Theorems about Reassembly and about LiveIngest around it, for every     *)
(* choice of their constants.                                              *)
EXTENDS LiveIngest, SumProofs, SequenceTheorems, TLAPS

(***************************************************************************)
(* What an eviction may do to the buffer b: cursors stay where they are,   *)
(* nothing starts to wait, and a segment is charged no more than before    *)
(* unless its device is quarantined, whose segments start again from 0.    *)
(***************************************************************************)
Evicted(b, r) ==
  /\ BufOK(r)
  /\ b.quarantined \subseteq r.quarantined
  /\ \A d \in Dev, s \in SegSeq :
       /\ Seg(r, d, s).next = Seg(b, d, s).next
       /\ Seg(r, d, s).pend \subseteq Seg(b, d, s).pend
       /\ \/ Seg(r, d, s).bytes <= Seg(b, d, s).bytes
          \/ d \in r.quarantined /\ Seg(r, d, s).bytes <= 0

LEMMA EvictedRefl ==
  ASSUME NEW b, BufOK(b)
  PROVE  Evicted(b, b)
  BY DEF Evicted, BufOK, Seg, SegmentBuf

LEMMA EvictedTrans ==
  ASSUME NEW a, NEW b, NEW c, BufOK(a), Evicted(a, b), Evicted(b, c)
  PROVE  Evicted(a, c)
<1>1. ASSUME NEW x, BufOK(x), NEW d \in Dev, NEW s \in SegSeq
      PROVE  Seg(x, d, s).bytes \in Int
  BY <1>1 DEF BufOK, Seg, SegmentBuf
<1>2. BufOK(b) /\ BufOK(c)
  BY DEF Evicted
<1>3. ASSUME NEW d \in Dev, NEW s \in SegSeq
      PROVE  \/ Seg(c, d, s).bytes <= Seg(a, d, s).bytes
             \/ d \in c.quarantined /\ Seg(c, d, s).bytes <= 0
  <2>1. /\ Seg(a, d, s).bytes \in Int
        /\ Seg(b, d, s).bytes \in Int
        /\ Seg(c, d, s).bytes \in Int
    BY <1>1, <1>2
  <2> QED
    BY <2>1 DEF Evicted
<1> QED
  BY <1>3 DEF Evicted

(* Replacing one segment of a buffer leaves the others alone.              *)
LEMMA SegsUpdate ==
  ASSUME NEW segs \in [Dev -> [SegSeq -> SegmentBuf]],
         NEW d \in Dev, NEW s \in SegSeq, NEW seg \in SegmentBuf
  PROVE  LET new == [segs EXCEPT ![d][s] = seg]
         IN  /\ new \in [Dev -> [SegSeq -> SegmentBuf]]
             /\ \A e \in Dev, q \in SegSeq :
                  new[e][q] = IF e = d /\ q = s THEN seg ELSE segs[e][q]
  OBVIOUS

LEMMA WithoutType ==
  ASSUME NEW seg \in SegmentBuf, NEW c \in seg.pend
  PROVE  /\ Without(seg, c) \in SegmentBuf
         /\ Without(seg, c).next = seg.next
         /\ Without(seg, c).pend \subseteq seg.pend
         /\ Without(seg, c).bytes <= seg.bytes
<1>1. seg.pend \ {c} \in SUBSET Chunk
  BY DEF SegmentBuf
<1>2. c.len \in Nat /\ seg.bytes \in Int
  BY DEF SegmentBuf, Chunk
<1>3. seg.bytes - c.len \in Int
  BY <1>2
<1>4. Without(seg, c) \in SegmentBuf
  BY <1>1, <1>3 DEF Without, SegmentBuf
<1>5. /\ Without(seg, c).bytes = seg.bytes - c.len
      /\ Without(seg, c).pend = seg.pend \ {c}
      /\ Without(seg, c).next = seg.next
  BY DEF Without, SegmentBuf
<1> QED
  BY <1>2, <1>4, <1>5

LEMMA RemoveChunkEvicts ==
  ASSUME NEW b, BufOK(b), NEW d \in Dev, NEW s \in SegSeq,
         NEW c \in Seg(b, d, s).pend
  PROVE  Evicted(b, RemoveChunk(b, d, s, c))
<1> DEFINE r == RemoveChunk(b, d, s, c)
           seg == Without(b.segs[d][s], c)
<1>1. c \in Chunk
  BY DEF BufOK, Seg, SegmentBuf
<1>2. /\ r.segs = [b.segs EXCEPT ![d][s] = seg]
      /\ r.conn = [b.conn EXCEPT ![d] = @ - c.len]
      /\ r.quarantined = b.quarantined
      /\ r.streak = b.streak
      /\ r.window = b.window
      /\ DOMAIN r = DOMAIN b
  BY DEF RemoveChunk, BufOK
<1>3. /\ seg \in SegmentBuf
      /\ seg.next = Seg(b, d, s).next
      /\ seg.pend \subseteq Seg(b, d, s).pend
      /\ seg.bytes <= Seg(b, d, s).bytes
  BY WithoutType DEF BufOK, Seg
<1>4. /\ r.segs \in [Dev -> [SegSeq -> SegmentBuf]]
      /\ \A e \in Dev, q \in SegSeq :
           Seg(r, e, q) = IF e = d /\ q = s THEN seg ELSE Seg(b, e, q)
  BY <1>2, <1>3, SegsUpdate DEF BufOK, Seg
<1>5. r.conn \in [Dev -> Int]
  BY <1>1, <1>2 DEF BufOK, Chunk
<1>6. BufOK(r)
  BY <1>2, <1>4, <1>5 DEF BufOK
<1>7. \A e \in Dev, q \in SegSeq : Seg(b, e, q).bytes \in Int
  BY DEF BufOK, Seg, SegmentBuf
<1> HIDE DEF r, seg
<1>8. QED
  BY <1>2, <1>3, <1>4, <1>6, <1>7 DEF Evicted, r

LEMMA SkipType ==
  ASSUME NEW seg \in SegmentBuf
  PROVE  /\ Skip(seg) \in SegmentBuf
         /\ Skip(seg).next = seg.next
         /\ Skip(seg).pend = {}
         /\ Skip(seg).bytes = 0
<1> DEFINE e == Emptied(seg)
<1>a. {} \in SUBSET Chunk /\ 0 \in Int
  OBVIOUS
<1>b. e \in SegmentBuf
  BY <1>a DEF Emptied, SegmentBuf
<1>c. e.next = seg.next /\ e.pend = {} /\ e.bytes = 0
  BY DEF Emptied, SegmentBuf
<1>1. /\ e \in SegmentBuf
      /\ e.next = seg.next /\ e.pend = {} /\ e.bytes = 0
  BY <1>b, <1>c
<1> HIDE DEF e
<1>2. (IF e.state = "Absent" THEN e.state ELSE "Skipped") \in SegmentState
  BY <1>1 DEF SegmentBuf, SegmentState
<1>3. /\ [e EXCEPT !.state = IF @ = "Absent" THEN @ ELSE "Skipped"] \in SegmentBuf
      /\ Skip(seg) = [e EXCEPT !.state = IF @ = "Absent" THEN @ ELSE "Skipped"]
  BY <1>1, <1>2 DEF SegmentBuf, Skip, e
<1> QED
  BY <1>1, <1>3 DEF SegmentBuf

LEMMA CountEvictionEvicts ==
  ASSUME NEW b, BufOK(b), NEW d \in Dev, now \in Nat
  PROVE  Evicted(b, CountEviction(b, d))
<1> DEFINE r == CountEviction(b, d)
<1>1. /\ r.segs = b.segs /\ r.conn = b.conn /\ r.quarantined = b.quarantined
      /\ DOMAIN r = DOMAIN b
  BY DEF CountEviction, BufOK
<1>2. r.streak \in [Dev -> Nat] /\ r.window \in [Dev -> Nat]
  <2>1. \/ /\ r.streak = [b.streak EXCEPT ![d] = 1]
           /\ r.window = [b.window EXCEPT ![d] = now]
        \/ /\ r.streak = [b.streak EXCEPT ![d] = b.streak[d] + 1]
           /\ r.window = b.window
    <3> DEFINE fresh == b.streak[d] = 0 \/ now - b.window[d] > EvictWindow
    <3>1. CASE fresh
      <4>1. r = [b EXCEPT !.streak[d] = 1, !.window[d] = now]
        BY <3>1 DEF CountEviction
      <4> QED
        BY <4>1 DEF BufOK
    <3>2. CASE ~fresh
      <4>1. r = [b EXCEPT !.streak[d] = @ + 1]
        BY <3>2 DEF CountEviction
      <4> QED
        BY <4>1 DEF BufOK
    <3> QED
      BY <3>1, <3>2
  <2>2. b.streak[d] + 1 \in Nat
    BY DEF BufOK
  <2>3. b.streak \in [Dev -> Nat] /\ b.window \in [Dev -> Nat]
    BY DEF BufOK
  <2> HIDE DEF r
  <2> QED
    BY <2>1, <2>2, <2>3
<1>3. \A e \in Dev, q \in SegSeq :
        Seg(r, e, q) = Seg(b, e, q) /\ Seg(b, e, q).bytes \in Int
  BY <1>1 DEF BufOK, Seg, SegmentBuf
<1>4. BufOK(r)
  BY <1>1, <1>2 DEF BufOK
<1> QED
  BY <1>1, <1>3, <1>4 DEF Evicted

LEMMA QuarantineEvicts ==
  ASSUME NEW b, BufOK(b), NEW d \in Dev
  PROVE  Evicted(b, QuarantineDev(b, d))
<1> DEFINE r == QuarantineDev(b, d)
<1>1. /\ r.segs = [b.segs EXCEPT ![d] = [s \in SegSeq |-> Skip(b.segs[d][s])]]
      /\ r.conn = [b.conn EXCEPT ![d] = 0]
      /\ r.quarantined = b.quarantined \cup {d}
      /\ r.streak = [b.streak EXCEPT ![d] = 0]
      /\ r.window = [b.window EXCEPT ![d] = 0]
      /\ DOMAIN r = DOMAIN b
  BY DEF QuarantineDev, BufOK
<1>2. [s \in SegSeq |-> Skip(b.segs[d][s])] \in [SegSeq -> SegmentBuf]
  BY SkipType DEF BufOK
<1>3. BufOK(r)
  BY <1>1, <1>2 DEF BufOK
<1>4. \A e \in Dev, q \in SegSeq :
        Seg(r, e, q) = IF e = d THEN Skip(Seg(b, e, q)) ELSE Seg(b, e, q)
  BY <1>1 DEF BufOK, Seg
<1>5. \A e \in Dev, q \in SegSeq :
        Seg(b, e, q) \in SegmentBuf /\ Seg(b, e, q).bytes \in Int
  BY DEF BufOK, Seg, SegmentBuf
<1> HIDE DEF r
<1>6. \A e \in Dev, q \in SegSeq :
        /\ Seg(r, e, q).next = Seg(b, e, q).next
        /\ Seg(r, e, q).pend \subseteq Seg(b, e, q).pend
        /\ \/ Seg(r, e, q).bytes <= Seg(b, e, q).bytes
           \/ e \in r.quarantined /\ Seg(r, e, q).bytes <= 0
  BY <1>1, <1>4, <1>5, SkipType
<1> QED
  BY <1>1, <1>3, <1>6 DEF Evicted, r

EventType == [kind : EventKinds, dev : Dev, seq : SegSeq, from : Nat, to : Nat]

LEMMA WaitingType ==
  ASSUME NEW b, BufOK(b), NEW D \in SUBSET Dev, NEW w \in Waiting(b, D)
  PROVE  /\ w.dev \in D /\ w.seq \in SegSeq /\ w.chunk \in Chunk
         /\ w.chunk \in Seg(b, w.dev, w.seq).pend
         /\ EvictEvent(w) \in EventType
<1>1. /\ w.dev \in D /\ w.seq \in SegSeq
      /\ w.chunk \in Seg(b, w.dev, w.seq).pend
  BY DEF Waiting
<1>2. w.chunk \in Chunk
  BY <1>1 DEF BufOK, Seg, SegmentBuf
<1>3. w.chunk.off \in Nat /\ End(w.chunk) \in Nat
  BY <1>2 DEF Chunk, End
<1> QED
  BY <1>1, <1>2, <1>3 DEF EvictEvent, Event, EventType, EventKinds

LEMMA DevEvictionEvicts ==
  ASSUME NEW b, BufOK(b), NEW d \in Dev, now \in Nat,
         NEW r \in EvictOldestInDev(b, d)
  PROVE  Evicted(b, r.buf) /\ r.ev \subseteq EventType
<1>1. CASE r = Untouched(b)
  BY <1>1, EvictedRefl DEF Untouched
<1>2. CASE \E w \in Oldest(b, {d}) : r = EvictFromDev(b, w)
  <2>1. PICK w \in Oldest(b, {d}) : r = EvictFromDev(b, w)
    BY <1>2
  <2>2. w \in Waiting(b, {d})
    BY DEF Oldest
  <2>3. /\ w.dev = d /\ w.seq \in SegSeq /\ w.chunk \in Seg(b, d, w.seq).pend
        /\ EvictEvent(w) \in EventType
    BY <2>2, WaitingType
  <2> DEFINE removed == RemoveChunk(b, d, w.seq, w.chunk)
             counted == CountEviction(removed, d)
  <2>4. Evicted(b, removed)
    BY <2>3, RemoveChunkEvicts
  <2>5. Evicted(removed, counted)
    BY <2>4, CountEvictionEvicts DEF Evicted
  <2>6. Evicted(b, counted)
    BY <2>4, <2>5, EvictedTrans
  <2>7. Evicted(counted, QuarantineDev(counted, d))
    BY <2>6, QuarantineEvicts DEF Evicted
  <2>8. Evicted(b, QuarantineDev(counted, d))
    BY <2>6, <2>7, EvictedTrans
  <2>9. 0 \in SegSeq
    BY SizesAssumption DEF SegSeq
  <2>10. Event("Quarantine", d, 0, 0, 0) \in EventType
    BY <2>9 DEF Event, EventType, EventKinds
  <2>11. /\ r.buf = counted \/ r.buf = QuarantineDev(counted, d)
         /\ r.ev \subseteq {EvictEvent(w), Event("Quarantine", d, 0, 0, 0)}
    BY <2>1, <2>3 DEF EvictFromDev
  <2> QED
    BY <2>3, <2>6, <2>8, <2>10, <2>11
<1> QED
  BY <1>1, <1>2 DEF EvictOldestInDev

LEMMA GlobalEvictionEvicts ==
  ASSUME NEW b, BufOK(b), NEW r \in EvictOldestGlobal(b)
  PROVE  Evicted(b, r.buf) /\ r.ev \subseteq EventType
<1>1. CASE r = Untouched(b)
  BY <1>1, EvictedRefl DEF Untouched
<1>2. CASE \E w \in GlobalVictims(b) :
             /\ r.buf = RemoveChunk(b, w.dev, w.seq, w.chunk)
             /\ r.ev = {EvictEvent(w)}
  <2>1. PICK w \in GlobalVictims(b) :
               /\ r.buf = RemoveChunk(b, w.dev, w.seq, w.chunk)
               /\ r.ev = {EvictEvent(w)}
    BY <1>2
  <2>2. \E D \in SUBSET Dev : w \in Waiting(b, D)
    BY DEF GlobalVictims, Oldest, BufOK
  <2>3. /\ w.dev \in Dev /\ w.seq \in SegSeq
        /\ w.chunk \in Seg(b, w.dev, w.seq).pend
        /\ EvictEvent(w) \in EventType
    BY <2>2, WaitingType
  <2> QED
    BY <2>1, <2>3, RemoveChunkEvicts
<1> QED
  BY <1>1, <1>2 DEF EvictOldestGlobal

-----------------------------------------------------------------------------
(* Insertion and drain of one segment.  The cursor never goes back, the    *)
(* segment is charged at most the new chunk more, and a chunk at the       *)
(* cursor is popped at once, so it leaves nothing on the charge.           *)
LEMMA WithType ==
  ASSUME NEW seg \in SegmentBuf, NEW c \in Chunk
  PROVE  /\ With(seg, c) \in SegmentBuf
         /\ With(seg, c).next = seg.next
         /\ With(seg, c).pend = {x \in seg.pend : x.off # c.off} \cup {c}
         /\ With(seg, c).bytes = seg.bytes + c.len
<1>1. {x \in seg.pend : x.off # c.off} \cup {c} \in SUBSET Chunk
  BY DEF SegmentBuf
<1>2. seg.bytes + c.len \in Int
  BY DEF SegmentBuf, Chunk
<1>3. (IF seg.state = "Absent" THEN "New" ELSE seg.state) \in SegmentState
  BY DEF SegmentBuf, SegmentState
<1>4. With(seg, c) \in SegmentBuf
  BY <1>1, <1>2, <1>3 DEF With, SegmentBuf
<1> QED
  BY <1>4 DEF With, SegmentBuf

LEMMA DrainSegType ==
  ASSUME NEW seg \in SegmentBuf, NEW D, NEW e \in Nat
  PROVE  /\ DrainSeg(seg, D, e) \in SegmentBuf
         /\ DrainSeg(seg, D, e).next = e
         /\ DrainSeg(seg, D, e).pend = seg.pend \ D
         /\ DrainSeg(seg, D, e).bytes = seg.bytes - (e - seg.next)
<1>1. seg.pend \ D \in SUBSET Chunk
  BY DEF SegmentBuf
<1>2. seg.bytes - (e - seg.next) \in Int
  BY DEF SegmentBuf
<1>3. (IF D = {} THEN seg.state ELSE "Unfinished") \in SegmentState
  BY DEF SegmentBuf, SegmentState
<1>4. DrainSeg(seg, D, e) \in SegmentBuf
  BY <1>1, <1>2, <1>3 DEF DrainSeg, SegmentBuf
<1> QED
  BY <1>4 DEF DrainSeg, SegmentBuf

LEMMA PoppedEnd ==
  ASSUME NEW p \in SUBSET Chunk, NEW n \in Nat, NEW D \in SUBSET p, NEW e,
         Popped(p, n, D, e)
  PROVE  /\ e \in Nat /\ e >= n
         /\ e \notin Offsets(p)
         /\ \A c \in D : c.off = n => e >= n + c.len
         /\ n \in Offsets(p) => \E c \in D : c.off = n
<1>1. \A c \in D : c.off \in Nat /\ c.len \in Nat /\ c.off >= n /\ End(c) <= e
  BY DEF Popped, Chunk
<1>2. e \in Nat
  BY <1>1 DEF Popped, End
<1>3. e >= n
  BY <1>1, <1>2 DEF Popped, End
<1>4. e \notin Offsets(p) /\ (n \in Offsets(p) => \E c \in D : c.off = n)
  BY DEF Popped
<1>5. \A c \in D : c.off = n => e >= n + c.len
  BY <1>1, <1>2 DEF End
<1> QED
  BY <1>2, <1>3, <1>4, <1>5

LEMMA StoreSeg ==
  ASSUME NEW seg \in SegmentBuf, NEW c \in Chunk, c.off >= seg.next,
         NEW D \in SUBSET With(seg, c).pend, NEW e,
         Popped(With(seg, c).pend, seg.next, D, e)
  PROVE  LET out == DrainSeg(With(seg, c), D, e)
         IN  /\ e \in Nat /\ e >= seg.next
             /\ out \in SegmentBuf
             /\ out.next = e
             /\ e \notin Offsets(out.pend)
             /\ out.bytes <= seg.bytes + c.len
             /\ c.off = seg.next => out.bytes <= seg.bytes
<1> DEFINE held == With(seg, c)
           out == DrainSeg(held, D, e)
<1>1. /\ held \in SegmentBuf /\ held.next = seg.next
      /\ held.pend = {x \in seg.pend : x.off # c.off} \cup {c}
      /\ held.bytes = seg.bytes + c.len
  BY WithType
<1>2. seg.next \in Nat /\ seg.bytes \in Int /\ c.len \in Nat
  BY DEF SegmentBuf, Chunk
<1>3. held.pend \in SUBSET Chunk
  BY <1>1 DEF SegmentBuf
<1> HIDE DEF held
<1>4. /\ e \in Nat /\ e >= seg.next
      /\ e \notin Offsets(held.pend)
      /\ \A x \in D : x.off = seg.next => e >= seg.next + x.len
      /\ seg.next \in Offsets(held.pend) => \E x \in D : x.off = seg.next
  <2>1. D \in SUBSET held.pend /\ Popped(held.pend, seg.next, D, e)
    BY DEF held
  <2> QED
    BY <1>2, <1>3, <2>1, PoppedEnd
<1>5. /\ out \in SegmentBuf /\ out.next = e /\ out.pend = held.pend \ D
      /\ out.bytes = held.bytes - (e - held.next)
  BY <1>1, <1>4, DrainSegType
<1> HIDE DEF out
<1>6. out.bytes = seg.bytes + c.len - (e - seg.next)
  <2>1. held.bytes - (e - held.next) = seg.bytes + c.len - (e - seg.next)
    BY <1>1, <1>2, <1>4
  <2> QED
    BY <1>5, <2>1
<1>7. ASSUME c.off = seg.next
      PROVE  out.bytes <= seg.bytes
  <2>1. \E x \in D : x.off = seg.next
    BY <1>1, <1>4, <1>7 DEF Offsets
  <2>2. D \subseteq held.pend
    BY DEF held
  <2>3. c \in D
    BY <1>1, <1>7, <2>1, <2>2
  <2> QED
    BY <1>2, <1>4, <1>6, <1>7, <2>3
<1>8. e \notin Offsets(out.pend)
  BY <1>4, <1>5 DEF Offsets
<1>9. out.bytes <= seg.bytes + c.len
  BY <1>2, <1>4, <1>6
<1> QED
  BY <1>4, <1>5, <1>7, <1>8, <1>9 DEF out, held

LEMMA InsertType ==
  ASSUME NEW b, BufOK(b), NEW d \in Dev, NEW s \in SegSeq, NEW c \in Chunk
  PROVE  LET r == Insert(b, d, s, c)
         IN  /\ BufOK(r)
             /\ r.quarantined = b.quarantined
             /\ \A x \in Dev, q \in SegSeq :
                  Seg(r, x, q) = IF x = d /\ q = s
                                 THEN With(Seg(b, d, s), c) ELSE Seg(b, x, q)
<1> DEFINE r == Insert(b, d, s, c)
           seg == With(b.segs[d][s], c)
<1>1. /\ r.segs = [b.segs EXCEPT ![d][s] = seg]
      /\ r.conn = [b.conn EXCEPT ![d] = @ + c.len]
      /\ r.quarantined = b.quarantined
      /\ r.streak = b.streak
      /\ r.window = b.window
      /\ DOMAIN r = DOMAIN b
  BY DEF Insert, BufOK
<1>2. seg \in SegmentBuf
  BY WithType DEF BufOK
<1>3. r.conn \in [Dev -> Int]
  BY <1>1 DEF BufOK, Chunk
<1>4. /\ r.segs \in [Dev -> [SegSeq -> SegmentBuf]]
      /\ \A x \in Dev, q \in SegSeq :
           r.segs[x][q] = IF x = d /\ q = s THEN seg ELSE b.segs[x][q]
  BY <1>1, <1>2, SegsUpdate DEF BufOK
<1>5. BufOK(r)
  BY <1>1, <1>3, <1>4 DEF BufOK
<1> QED
  BY <1>1, <1>4, <1>5 DEF Seg

LEMMA DrainType ==
  ASSUME NEW b, BufOK(b), NEW d \in Dev, NEW s \in SegSeq, NEW D, NEW e \in Nat
  PROVE  LET r == Drain(b, d, s, D, e)
         IN  /\ BufOK(r)
             /\ r.quarantined = b.quarantined
             /\ \A x \in Dev, q \in SegSeq :
                  Seg(r, x, q) = IF x = d /\ q = s
                                 THEN DrainSeg(Seg(b, d, s), D, e)
                                 ELSE Seg(b, x, q)
<1> DEFINE r == Drain(b, d, s, D, e)
           seg == DrainSeg(b.segs[d][s], D, e)
           popped == e - b.segs[d][s].next
<1>1. /\ r.segs = [b.segs EXCEPT ![d][s] = seg]
      /\ r.conn = [b.conn EXCEPT ![d] = SaturatingSub(@, popped)]
      /\ r.quarantined = b.quarantined
      /\ r.streak = b.streak
      /\ r.window = b.window
      /\ DOMAIN r = DOMAIN b
  BY DEF Drain, BufOK, Seg
<1>2. seg \in SegmentBuf
  BY DrainSegType DEF BufOK
<1>3. SaturatingSub(b.conn[d], popped) \in Int
  BY DEF BufOK, SegmentBuf, SaturatingSub
<1>4. r.conn \in [Dev -> Int]
  BY <1>1, <1>3 DEF BufOK
<1>5. /\ r.segs \in [Dev -> [SegSeq -> SegmentBuf]]
      /\ \A x \in Dev, q \in SegSeq :
           r.segs[x][q] = IF x = d /\ q = s THEN seg ELSE b.segs[x][q]
  BY <1>1, <1>2, SegsUpdate DEF BufOK
<1>6. BufOK(r)
  BY <1>1, <1>4, <1>5 DEF BufOK
<1> QED
  BY <1>1, <1>5, <1>6 DEF Seg

(* What waits in a segment, dropped with or without the segment.           *)
LEMMA DropPendingType ==
  ASSUME NEW b, BufOK(b), NEW d \in Dev, NEW s \in SegSeq, NEW seg \in SegmentBuf
  PROVE  LET r == [DropPending(b, d, s) EXCEPT !.segs[d][s] = seg]
         IN  /\ BufOK(r)
             /\ r.quarantined = b.quarantined
             /\ \A x \in Dev, q \in SegSeq :
                  Seg(r, x, q) = IF x = d /\ q = s THEN seg ELSE Seg(b, x, q)
<1> DEFINE p == DropPending(b, d, s)
           r == [p EXCEPT !.segs[d][s] = seg]
           back == b.segs[d][s].bytes
<1>1. /\ p.segs = [b.segs EXCEPT ![d][s] = Emptied(@)]
      /\ p.conn = [b.conn EXCEPT ![d] = SaturatingSub(@, back)]
      /\ p.quarantined = b.quarantined
      /\ p.streak = b.streak
      /\ p.window = b.window
      /\ DOMAIN p = DOMAIN b
  BY DEF DropPending, BufOK, Seg
<1>2. SaturatingSub(b.conn[d], back) \in Int
  BY DEF BufOK, SegmentBuf, SaturatingSub
<1>3. p.conn \in [Dev -> Int]
  BY <1>1, <1>2 DEF BufOK
<1> HIDE DEF p
<1>4. /\ r.segs = [p.segs EXCEPT ![d][s] = seg]
      /\ r.conn = p.conn
      /\ r.quarantined = p.quarantined
      /\ r.streak = p.streak
      /\ r.window = p.window
      /\ DOMAIN r = DOMAIN p
  BY <1>1 DEF BufOK
<1>5. r.segs = [b.segs EXCEPT ![d][s] = seg]
  BY SMTT(40), <1>1, <1>4 DEF BufOK
<1> HIDE DEF r
<1>6. /\ r.segs \in [Dev -> [SegSeq -> SegmentBuf]]
      /\ \A x \in Dev, q \in SegSeq :
           r.segs[x][q] = IF x = d /\ q = s THEN seg ELSE b.segs[x][q]
  BY <1>5, SegsUpdate DEF BufOK
<1>7. BufOK(r)
  BY <1>1, <1>3, <1>4, <1>6 DEF BufOK
<1>8. QED
  BY <1>1, <1>4, <1>6, <1>7 DEF Seg, r, p

-----------------------------------------------------------------------------
(***************************************************************************)
(* What a call on the segment (d, s) may do.  It is stated over buf and    *)
(* buf' once for all the actions that write buf; the theorems follow.      *)
(***************************************************************************)
ChargeOK(b, d, s) ==
  Seg(b, d, s).bytes <= L2Cap

OthersKept(d, s) ==
  \A x \in Dev, q \in SegSeq :
    (x # d \/ q # s) =>
      /\ Seg(buf', x, q).next = Seg(buf, x, q).next
      /\ Seg(buf', x, q).pend \subseteq Seg(buf, x, q).pend
      /\ ChargeOK(buf, x, q) => ChargeOK(buf', x, q)

Ready(seg) == seg.next \in Offsets(seg.pend)

LEMMA NewPartType ==
  ASSUME NEW off \in Nat, NEW len \in Nat \ {0}, NEW n \in Nat, off + len > n
  PROVE  LET c == NewPart(off, len, n)
         IN  /\ c \in Chunk
             /\ c.off >= n
             /\ c.len <= len
<1>1. CASE off < n
  <2>1. NewPart(off, len, n) = [off |-> n, len |-> off + len - n]
    BY <1>1 DEF NewPart
  <2>2. off + len - n \in Nat \ {0} /\ off + len - n <= len
    BY <1>1
  <2> QED
    BY <2>1, <2>2 DEF Chunk
<1>2. CASE ~(off < n)
  BY <1>2 DEF NewPart, Chunk
<1> QED
  BY <1>1, <1>2

LEMMA AcceptStep ==
  ASSUME BufOK(buf), now \in Nat, NEW d \in Dev, NEW s \in SegSeq,
         NEW off \in Nat, NEW len \in Nat \ {0}, AcceptChunk(d, s, off, len)
  PROVE  LET old == Seg(buf, d, s)
             new == Seg(buf', d, s)
         IN  /\ BufOK(buf')
             /\ events' \subseteq EventType
             /\ OthersKept(d, s)
             /\ new.next >= old.next
             /\ new.next = old.next
                  \/ Event("Append", d, s, old.next, new.next) \in events'
             /\ ~Ready(new)
             /\ ChargeOK(buf, d, s) /\ len <= L2Cap => ChargeOK(buf', d, s)
<1> DEFINE old == Seg(buf, d, s)
           n == old.next
           c == NewPart(off, len, n)
<1>1. old \in SegmentBuf /\ n \in Nat /\ old.bytes \in Int
  BY DEF BufOK, Seg, SegmentBuf
<1>2. off + len > n /\ ~OverSegmentCap(old, c)
  BY DEF AcceptChunk
<1>3. c \in Chunk /\ c.off >= n /\ c.len <= len /\ c.len \in Nat /\ c.off \in Nat
  BY <1>1, <1>2, NewPartType DEF Chunk
<1>4. PICK r1 \in AfterDevBudget(buf, d, s, c) :
      \E r2 \in AfterGlobalBudget(r1.buf, c) :
        LET put == Insert(r2.buf, d, s, c)
        IN  \E D \in SUBSET Seg(put, d, s).pend :
            \E e \in {n} \cup {End(x) : x \in D} :
              /\ Popped(Seg(put, d, s).pend, n, D, e)
              /\ buf' = Drain(put, d, s, D, e)
              /\ events' = r1.ev \cup r2.ev \cup AppendEvents(d, s, n, e)
  BY DEF AcceptChunk
<1>5. PICK r2 \in AfterGlobalBudget(r1.buf, c) :
        LET put == Insert(r2.buf, d, s, c)
        IN  \E D \in SUBSET Seg(put, d, s).pend :
            \E e \in {n} \cup {End(x) : x \in D} :
              /\ Popped(Seg(put, d, s).pend, n, D, e)
              /\ buf' = Drain(put, d, s, D, e)
              /\ events' = r1.ev \cup r2.ev \cup AppendEvents(d, s, n, e)
  BY <1>4
<1> DEFINE b == r2.buf
           put == Insert(b, d, s, c)
           seg == Seg(b, d, s)
<1>a. PICK D \in SUBSET Seg(put, d, s).pend :
        \E e \in {n} \cup {End(x) : x \in D} :
          /\ Popped(Seg(put, d, s).pend, n, D, e)
          /\ buf' = Drain(put, d, s, D, e)
          /\ events' = r1.ev \cup r2.ev \cup AppendEvents(d, s, n, e)
  BY <1>5
<1>6. PICK e \in {n} \cup {End(x) : x \in D} :
        /\ Popped(Seg(put, d, s).pend, n, D, e)
        /\ buf' = Drain(put, d, s, D, e)
        /\ events' = r1.ev \cup r2.ev \cup AppendEvents(d, s, n, e)
  BY <1>a
<1>7. Evicted(buf, r1.buf) /\ r1.ev \subseteq EventType
  BY EvictedRefl, DevEvictionEvicts DEF AfterDevBudget, Untouched
<1>8. Evicted(r1.buf, b) /\ r2.ev \subseteq EventType
  BY <1>7, EvictedRefl, GlobalEvictionEvicts DEF AfterGlobalBudget, Untouched, Evicted
<1>9. Evicted(buf, b)
  BY <1>7, <1>8, EvictedTrans
<1>10. BufOK(b) /\ seg \in SegmentBuf /\ seg.next = n
  BY <1>9 DEF Evicted, BufOK, Seg
<1> HIDE DEF c, b, seg
<1>11. /\ BufOK(put)
       /\ \A x \in Dev, q \in SegSeq :
            Seg(put, x, q) = IF x = d /\ q = s THEN With(seg, c) ELSE Seg(b, x, q)
  BY <1>3, <1>10, InsertType DEF seg
<1>12. Seg(put, d, s) = With(seg, c)
  BY <1>11
<1> HIDE DEF put
<1> DEFINE out == DrainSeg(With(seg, c), D, e)
<1>13. /\ e \in Nat /\ e >= n
       /\ out.next = e /\ e \notin Offsets(out.pend)
       /\ out.bytes <= seg.bytes + c.len
       /\ c.off = n => out.bytes <= seg.bytes
       /\ out \in SegmentBuf
  BY <1>3, <1>6, <1>10, <1>12, StoreSeg
<1>14. /\ BufOK(buf')
       /\ \A x \in Dev, q \in SegSeq :
            Seg(buf', x, q) = IF x = d /\ q = s THEN out ELSE Seg(b, x, q)
  BY <1>6, <1>11, <1>13, <1>12, DrainType
<1> HIDE DEF out
<1>15. Seg(buf', d, s) = out
  BY <1>14
<1>16. events' \subseteq EventType
  <2>1. Event("Append", d, s, n, e) \in EventType
    BY <1>1, <1>13 DEF Event, EventType, EventKinds
  <2> QED
    BY <2>1, <1>6, <1>7, <1>8 DEF AppendEvents
<1>17. OthersKept(d, s)
  <2>1. SUFFICES ASSUME NEW x \in Dev, NEW q \in SegSeq, x # d \/ q # s
                 PROVE  /\ Seg(b, x, q).next = Seg(buf, x, q).next
                        /\ Seg(b, x, q).pend \subseteq Seg(buf, x, q).pend
                        /\ ChargeOK(buf, x, q) => ChargeOK(b, x, q)
    BY <1>14 DEF OthersKept, ChargeOK
  <2>2. Seg(b, x, q).bytes \in Int /\ Seg(buf, x, q).bytes \in Int
    BY <1>10 DEF BufOK, Seg, SegmentBuf
  <2>3. Seg(b, x, q).bytes <= Seg(buf, x, q).bytes \/ Seg(b, x, q).bytes <= 0
    BY <1>9 DEF Evicted
  <2>4. ChargeOK(buf, x, q) => ChargeOK(b, x, q)
    BY <2>2, <2>3, BudgetsAssumption DEF ChargeOK
  <2> QED
    BY <2>4, <1>9 DEF Evicted
<1>18. n = e \/ Event("Append", d, s, n, e) \in events'
  BY <1>6 DEF AppendEvents
<1>19. ASSUME ChargeOK(buf, d, s), len <= L2Cap
       PROVE  ChargeOK(buf', d, s)
  <2>1. out.bytes \in Int /\ seg.bytes \in Int
    BY <1>10, <1>13 DEF SegmentBuf
  <2>2. seg.bytes <= old.bytes \/ seg.bytes <= 0
    BY <1>9 DEF Evicted, seg
  <2>3. old.bytes <= L2Cap
    BY <1>19 DEF ChargeOK
  <2>4. c.off > n => old.bytes + c.len <= L2Cap
    BY <1>1, <1>2, <1>3, BudgetsAssumption DEF OverSegmentCap, c
  <2>5. out.bytes <= L2Cap
    BY <1>1, <1>3, <1>13, <1>19, <2>1, <2>2, <2>3, <2>4, BudgetsAssumption
  <2> QED
    BY <1>15, <2>5 DEF ChargeOK
<1> QED
  BY <1>13, <1>14, <1>15, <1>16, <1>17, <1>18, <1>19 DEF Ready

LEMMA FailStep ==
  ASSUME BufOK(buf), NEW d \in Dev, NEW s \in SegSeq, NEW off, NEW len,
         FailSegment(d, s, off, len)
  PROVE  /\ BufOK(buf')
         /\ events' \subseteq EventType
         /\ OthersKept(d, s)
         /\ Seg(buf', d, s).next = Seg(buf, d, s).next
         /\ Seg(buf', d, s).pend = {}
         /\ Seg(buf', d, s).bytes = 0
<1> DEFINE p == DropPending(buf, d, s)
           seg == Failed(p.segs[d][s])
           n == Seg(buf, d, s).next
<1>1. buf' = [p EXCEPT !.segs[d][s] = seg]
  BY DEF FailSegment
<1>2. p.segs[d][s] = Emptied(Seg(buf, d, s))
  BY DEF DropPending, BufOK, Seg
<1>3. Seg(buf, d, s) \in SegmentBuf /\ n \in Nat
  BY DEF BufOK, Seg, SegmentBuf
<1>4. seg \in SegmentBuf /\ seg.next = n /\ seg.pend = {} /\ seg.bytes = 0
  <2> DEFINE e == Emptied(Seg(buf, d, s))
  <2>1. {} \in SUBSET Chunk /\ 0 \in Int
    OBVIOUS
  <2>2. e \in SegmentBuf /\ e.next = n /\ e.pend = {} /\ e.bytes = 0
    BY <1>3, <2>1 DEF Emptied, SegmentBuf
  <2> HIDE DEF e
  <2>3. (IF e.state = "Absent" THEN e.state ELSE "Error") \in SegmentState
    BY <2>2 DEF SegmentBuf, SegmentState
  <2>4. Failed(e) \in SegmentBuf
    BY <2>2, <2>3 DEF Failed, SegmentBuf
  <2>5. Failed(e).next = n /\ Failed(e).pend = {} /\ Failed(e).bytes = 0
    BY <2>2 DEF Failed, SegmentBuf
  <2> QED
    BY <1>2, <2>4, <2>5 DEF e
<1> HIDE DEF seg
<1>5. /\ BufOK(buf')
      /\ \A x \in Dev, q \in SegSeq :
           Seg(buf', x, q) = IF x = d /\ q = s THEN seg ELSE Seg(buf, x, q)
  BY <1>1, <1>4, DropPendingType
<1>6. events' \subseteq EventType
  <2>1. events' = {Event("SegmentError", d, s, 0, 0), Event("Gap", d, s, n, n)}
    BY DEF FailSegment
  <2> QED
    BY <1>3, <2>1 DEF Event, EventType, EventKinds
<1> QED
  BY <1>4, <1>5, <1>6 DEF OthersKept, ChargeOK

LEMMA EmptySegType ==
  EmptySeg \in SegmentBuf /\ EmptySeg.next = 0 /\ EmptySeg.pend = {}
    /\ EmptySeg.bytes = 0
<1>1. {} \in SUBSET Chunk /\ 0 \in Int /\ "Absent" \in SegmentState
  BY DEF SegmentState
<1> QED
  BY <1>1 DEF EmptySeg, SegmentBuf

LEMMA SealedEventsType ==
  ASSUME NEW d \in Dev, NEW s \in SegSeq, lastSeq \in [Dev -> SegSeq]
  PROVE  SkippedEvents(d, s) \subseteq EventType
<1>1. ASSUME NEW m \in (lastSeq[d] + 1) .. (s - 1)
      PROVE  Event("SeqSkipped", d, m, 0, 0) \in EventType
  <2>1. m \in SegSeq
    BY SizesAssumption DEF SegSeq
  <2> QED
    BY <2>1 DEF Event, EventType, EventKinds
<1> QED
  BY <1>1 DEF SkippedEvents

LEMMA ReleaseStep ==
  ASSUME BufOK(buf), NEW d \in Dev, NEW s \in SegSeq, buf' = Release(buf, d, s)
  PROVE  /\ BufOK(buf')
         /\ OthersKept(d, s)
         /\ Seg(buf', d, s) = EmptySeg
<1>1. /\ BufOK(buf')
      /\ \A x \in Dev, q \in SegSeq :
           Seg(buf', x, q) = IF x = d /\ q = s THEN EmptySeg ELSE Seg(buf, x, q)
  BY EmptySegType, DropPendingType DEF Release
<1> QED
  BY <1>1 DEF OthersKept, ChargeOK

-----------------------------------------------------------------------------
(* The inductive invariant.  Type correctness alone is not enough for the  *)
(* cursor property, nor the charge for the readiness: each call needs what *)
(* the previous ones left.                                                 *)
SegmentWithinCapInv == MaxLen <= L2Cap => SegmentWithinCap

Inv == TypeOK /\ NoReadyChunkWaits /\ SegmentWithinCapInv

LEMMA InitInv == Init => Inv
<1> SUFFICES ASSUME Init PROVE Inv
  OBVIOUS
<1>1. 0 \in SegSeq
  BY SizesAssumption DEF SegSeq
<1>2. \A d \in Dev, s \in SegSeq : Seg(buf, d, s) = EmptySeg
  BY DEF Init, Seg
<1>3. BufOK(buf)
  BY EmptySegType DEF Init, BufOK
<1>4. TypeOK
  BY <1>1, <1>3 DEF Init, TypeOK
<1>5. NoReadyChunkWaits
  BY <1>2, EmptySegType DEF NoReadyChunkWaits, Offsets
<1>6. SegmentWithinCap
  BY <1>2, EmptySegType, BudgetsAssumption DEF SegmentWithinCap
<1> QED
  BY <1>4, <1>5, <1>6 DEF Inv, SegmentWithinCapInv

(* From what a call does to its own segment and to the others, the         *)
(* invariant's parts about the segments follow.                            *)
LEMMA SegmentsKept ==
  ASSUME Inv, NEW d \in Dev, NEW s \in SegSeq, OthersKept(d, s),
         ~Ready(Seg(buf', d, s)),
         MaxLen <= L2Cap /\ ChargeOK(buf, d, s) => ChargeOK(buf', d, s)
  PROVE  NoReadyChunkWaits' /\ SegmentWithinCapInv'
<1>1. ASSUME NEW x \in Dev, NEW q \in SegSeq
      PROVE  Seg(buf', x, q).next \notin Offsets(Seg(buf', x, q).pend)
  <2>1. CASE x = d /\ q = s
    BY <2>1 DEF Ready
  <2>2. CASE x # d \/ q # s
    BY <2>2 DEF OthersKept, Inv, NoReadyChunkWaits, Offsets
  <2> QED
    BY <2>1, <2>2
<1>2. ASSUME MaxLen <= L2Cap, NEW x \in Dev, NEW q \in SegSeq
      PROVE  ChargeOK(buf', x, q)
  <2>1. ChargeOK(buf, x, q)
    BY <1>2 DEF Inv, SegmentWithinCapInv, SegmentWithinCap, ChargeOK
  <2>2. CASE x = d /\ q = s
    BY <1>2, <2>1, <2>2
  <2>3. CASE x # d \/ q # s
    BY <2>1, <2>3 DEF OthersKept
  <2> QED
    BY <2>2, <2>3
<1> QED
  BY <1>1, <1>2
     DEF NoReadyChunkWaits, SegmentWithinCapInv, SegmentWithinCap, ChargeOK

(* How the cursors move in one step.                                       *)
CursorStep ==
  \A d \in Dev, s \in SegSeq :
    LET from == Seg(buf, d, s).next
        to == Seg(buf', d, s).next
    IN  \/ to = from
        \/ to > from /\ Event("Append", d, s, from, to) \in events'
        \/ to = 0 /\ Event("Sealed", d, s, 0, from) \in events'

LEMMA BufKept ==
  ASSUME Inv, buf' = buf
  PROVE  BufOK(buf') /\ NoReadyChunkWaits' /\ SegmentWithinCapInv' /\ CursorStep
BY DEF Inv, TypeOK, BufOK, NoReadyChunkWaits, SegmentWithinCapInv,
       SegmentWithinCap, CursorStep, Seg, Offsets

LEMMA PlaceStep ==
  ASSUME Inv, NEW d \in Dev, NEW s \in SegSeq, NEW off \in 0 .. SegSize - 1,
         NEW len \in 1 .. MaxLen, PlaceChunk(d, s, off, len)
  PROVE  Inv' /\ CursorStep
<1>1. off \in Nat /\ len \in Nat \ {0} /\ len <= MaxLen /\ off + len \in Nat
  BY SizesAssumption
<1>2. BufOK(buf) /\ now \in Nat
  BY DEF Inv, TypeOK
<1>3. lastSeq' = lastSeq /\ now' = now
  BY DEF PlaceChunk, DropQuarantined, DropDuplicate, FailSegment, AcceptChunk
<1>4. CASE DropQuarantined(d, s, off, len) \/ DropDuplicate(d, s, off, len)
  <2>1. buf' = buf
    BY <1>4 DEF DropQuarantined, DropDuplicate
  <2>2. events' \subseteq EventType
    BY <1>1, <1>4 DEF DropQuarantined, DropDuplicate, Event, EventType, EventKinds
  <2>3. TypeOK'
    BY <1>3, <2>1, <2>2 DEF Inv, TypeOK, BufOK, EventType
  <2> QED
    BY <2>1, <2>3, BufKept DEF Inv
<1>5. CASE FailSegment(d, s, off, len)
  <2>1. /\ BufOK(buf')
        /\ events' \subseteq EventType
        /\ OthersKept(d, s)
        /\ Seg(buf', d, s).next = Seg(buf, d, s).next
        /\ Seg(buf', d, s).pend = {}
        /\ Seg(buf', d, s).bytes = 0
    BY <1>2, <1>5, FailStep
  <2>2. TypeOK'
    BY <1>2, <1>3, <2>1 DEF Inv, TypeOK, EventType
  <2>3. ~Ready(Seg(buf', d, s)) /\ ChargeOK(buf', d, s)
    BY <2>1, BudgetsAssumption DEF Ready, Offsets, ChargeOK
  <2>4. NoReadyChunkWaits' /\ SegmentWithinCapInv'
    BY <2>1, <2>3, SegmentsKept
  <2>5. CursorStep
    BY <2>1 DEF CursorStep, OthersKept
  <2> QED
    BY <2>2, <2>4, <2>5 DEF Inv
<1>6. CASE AcceptChunk(d, s, off, len)
  <2>1. /\ BufOK(buf')
        /\ events' \subseteq EventType
        /\ OthersKept(d, s)
        /\ Seg(buf', d, s).next >= Seg(buf, d, s).next
        /\ Seg(buf', d, s).next = Seg(buf, d, s).next
             \/ Event("Append", d, s, Seg(buf, d, s).next, Seg(buf', d, s).next)
                  \in events'
        /\ ~Ready(Seg(buf', d, s))
        /\ ChargeOK(buf, d, s) /\ len <= L2Cap => ChargeOK(buf', d, s)
    BY <1>1, <1>2, <1>6, AcceptStep
  <2>2. TypeOK'
    BY <1>2, <1>3, <2>1 DEF Inv, TypeOK, EventType
  <2>3. MaxLen <= L2Cap => len <= L2Cap
    BY <1>1, SizesAssumption, BudgetsAssumption
  <2>4. NoReadyChunkWaits' /\ SegmentWithinCapInv'
    BY <2>1, <2>3, SegmentsKept
  <2>5. Seg(buf', d, s).next \in Nat /\ Seg(buf, d, s).next \in Nat
    BY <1>2, <2>1 DEF BufOK, Seg, SegmentBuf
  <2>6. CursorStep
    BY <2>1, <2>5 DEF CursorStep, OthersKept
  <2> QED
    BY <2>2, <2>4, <2>6 DEF Inv
<1> QED
  BY <1>4, <1>5, <1>6 DEF PlaceChunk

LEMMA SealStep ==
  ASSUME Inv, NEW d \in Dev, NEW s \in SegSeq, Seal(d, s, SegSize)
  PROVE  Inv' /\ CursorStep
<1>1. BufOK(buf) /\ now' = now /\ now \in Nat
  BY DEF Inv, TypeOK, Seal, SealUnknown, SealComplete, SealWithGap
<1>2. lastSeq' \in [Dev -> SegSeq]
  <2>1. NoteSealed(d, s)
    BY DEF Seal, SealUnknown, SealComplete, SealWithGap
  <2> QED
    BY <2>1 DEF Inv, TypeOK, NoteSealed
<1>3. Seg(buf, d, s).next \in Nat /\ SegSize \in Nat
  BY <1>1, SizesAssumption DEF BufOK, Seg, SegmentBuf
<1>4. SkippedEvents(d, s) \subseteq EventType
  BY SealedEventsType DEF Inv, TypeOK
<1>5. events' \subseteq EventType
  <2>1. /\ Event("Sealed", d, s, 0, SegSize) \in EventType
        /\ Event("SealGap", d, s, Seg(buf, d, s).next, SegSize) \in EventType
    BY <1>3 DEF Event, EventType, EventKinds
  <2>2. events' \subseteq SkippedEvents(d, s)
                 \cup {Event("Sealed", d, s, 0, SegSize),
                       Event("SealGap", d, s, Seg(buf, d, s).next, SegSize)}
    BY DEF Seal, SealUnknown, SealComplete, SealWithGap
  <2> QED
    BY <1>4, <2>1, <2>2
<1>6. CASE SealComplete(d, s, SegSize)
  <2>1. /\ BufOK(buf')
        /\ OthersKept(d, s)
        /\ Seg(buf', d, s) = EmptySeg
    BY <1>1, <1>6, ReleaseStep DEF SealComplete
  <2>2. ~Ready(Seg(buf', d, s)) /\ ChargeOK(buf', d, s)
    BY <2>1, EmptySegType, BudgetsAssumption DEF Ready, Offsets, ChargeOK
  <2>3. NoReadyChunkWaits' /\ SegmentWithinCapInv'
    BY <2>1, <2>2, SegmentsKept
  <2>4. /\ Seg(buf', d, s).next = 0
        /\ Event("Sealed", d, s, 0, Seg(buf, d, s).next) \in events'
    BY <1>6, <2>1, EmptySegType DEF SealComplete
  <2>5. CursorStep
    BY <2>1, <2>4 DEF CursorStep, OthersKept
  <2>6. TypeOK'
    BY <1>1, <1>2, <1>5, <2>1 DEF TypeOK, EventType
  <2> QED
    BY <2>3, <2>5, <2>6 DEF Inv
<1>7. CASE SealUnknown(d, s) \/ SealWithGap(d, s, SegSize)
  <2>1. buf' = buf
    BY <1>7 DEF SealUnknown, SealWithGap
  <2>2. BufOK(buf') /\ NoReadyChunkWaits' /\ SegmentWithinCapInv' /\ CursorStep
    BY <2>1, BufKept
  <2>3. TypeOK'
    BY <1>1, <1>2, <1>5, <2>2 DEF TypeOK, EventType
  <2> QED
    BY <2>2, <2>3 DEF Inv
<1> QED
  BY <1>6, <1>7 DEF Seal

LEMMA NextInv == Inv /\ [Next]_vars => Inv' /\ (CursorStep \/ UNCHANGED vars)
<1> SUFFICES ASSUME Inv, [Next]_vars
             PROVE  Inv' /\ (CursorStep \/ UNCHANGED vars)
  OBVIOUS
<1>1. ASSUME NEW d \in Dev, NEW s \in SegSeq, NEW off \in 0 .. SegSize - 1,
             NEW len \in 1 .. MaxLen, PlaceChunk(d, s, off, len)
      PROVE  Inv' /\ CursorStep
  BY <1>1, PlaceStep
<1>2. ASSUME NEW d \in Dev, NEW s \in SegSeq, Seal(d, s, SegSize)
      PROVE  Inv' /\ CursorStep
  BY <1>2, SealStep
<1>3. ASSUME NEW t \in Times, SetNow(t)
      PROVE  Inv' /\ CursorStep
  <2>1. buf' = buf /\ lastSeq' = lastSeq /\ now' \in Nat /\ events' = {}
    BY <1>3, TimesAssumption DEF SetNow
  <2>2. BufOK(buf') /\ NoReadyChunkWaits' /\ SegmentWithinCapInv' /\ CursorStep
    BY <2>1, BufKept
  <2>3. TypeOK'
    BY <2>1, <2>2 DEF Inv, TypeOK
  <2> QED
    BY <2>2, <2>3 DEF Inv
<1>4. CASE UNCHANGED vars
  <2>1. buf' = buf /\ lastSeq' = lastSeq /\ now' = now /\ events' = events
    BY <1>4 DEF vars
  <2>2. BufOK(buf') /\ NoReadyChunkWaits' /\ SegmentWithinCapInv'
    BY <2>1, BufKept
  <2>3. TypeOK'
    BY <2>1, <2>2 DEF Inv, TypeOK
  <2> QED
    BY <1>4, <2>2, <2>3 DEF Inv
<1> QED
  BY <1>1, <1>2, <1>3, <1>4 DEF Next

LEMMA SpecInv == Spec => []Inv
<1> QED
  BY InitInv, NextInv, PTL DEF Spec

(* The state keeps its type: place_chunk, seal and the evictions they make *)
(* leave well-formed segments, counters and events, whatever the sizes.    *)
THEOREM TypeCorrect == Spec => []TypeOK
<1>1. Inv => TypeOK
  BY DEF Inv
<1> QED
  BY <1>1, SpecInv, PTL

(* drain_contiguous never stops early: between two calls no chunk starts   *)
(* at its segment's cursor.                                                *)
THEOREM DrainComplete == Spec => []NoReadyChunkWaits
<1>1. Inv => NoReadyChunkWaits
  BY DEF Inv
<1> QED
  BY <1>1, SpecInv, PTL

(* The L2 cap holds for every segment, when a single chunk fits the cap:   *)
(* evictions, replacements and a quarantine in the same call included.     *)
THEOREM SegmentCap == ASSUME MaxLen <= L2Cap PROVE Spec => []SegmentWithinCap
<1>1. Inv => SegmentWithinCap
  BY DEF Inv, SegmentWithinCapInv
<1> QED
  BY <1>1, SpecInv, PTL

(* Downstream sees each segment as one stream without holes: cursors move  *)
(* only with the Append that covers the bytes, and back only on Sealed.    *)
THEOREM CursorTheorem == Spec => CursorFollowsAppends
<1>1. Inv /\ [Next]_vars => [CursorStep]_vars
  BY NextInv
<1>2. Spec => [][CursorStep]_vars
  BY <1>1, SpecInv, PTL DEF Spec
<1> QED
  BY <1>2 DEF CursorFollowsAppends, CursorStep

-----------------------------------------------------------------------------
(***************************************************************************)
(* The byte budgets of the reassembly engine, for every choice of its      *)
(* constants: that the three counters agree, what an eviction may do, and  *)
(* how far a device may exceed its cap. The engine has a step per call,    *)
(* and the counters are sums, so each step is shown to move one term of a  *)
(* sum.                                                                    *)
(***************************************************************************)

(* The bytes of the chunks p.                                              *)
Buffered(p) == SumFunctionOnSet(Lengths(p), p)

(* A finite set of chunks.                                                 *)
Chunks(p) == p \in SUBSET Chunk /\ IsFiniteSet(p)

(* The bytes of a finite set of chunks are a natural.                      *)
LEMMA BufferedNat ==
  ASSUME NEW p, Chunks(p)
  PROVE  Buffered(p) \in Nat
<1>1. \A c \in p : Lengths(p)[c] \in Nat
  BY DEF Lengths, Chunks, Chunk
<1> QED
  BY <1>1, SumNonnegative DEF Buffered, Chunks

(* No chunks have no bytes.                                                *)
LEMMA BufferedNone == Buffered({}) = 0
BY SumEmpty DEF Buffered

(* Taking a chunk out takes its length out.                                *)
LEMMA BufferedRemove ==
  ASSUME NEW p, Chunks(p), NEW c \in p
  PROVE  /\ Chunks(p \ {c})
         /\ Buffered(p) = c.len + Buffered(p \ {c})
<1>1. \A x \in p : Lengths(p)[x] \in Int /\ Lengths(p)[x] = x.len
  BY DEF Lengths, Chunks, Chunk
<1>2. IsFiniteSet(p) /\ IsFiniteSet(p \ {c})
  BY FS_RemoveElement DEF Chunks
<1>3. SumFunctionOnSet(Lengths(p), p)
        = Lengths(p)[c] + SumFunctionOnSet(Lengths(p), p \ {c})
  BY <1>1, <1>2, SumRemove
<1>4. \A x \in p \ {c} : Lengths(p \ {c})[x] = Lengths(p)[x]
  BY DEF Lengths
<1>5. SumFunctionOnSet(Lengths(p \ {c}), p \ {c})
        = SumFunctionOnSet(Lengths(p), p \ {c})
  BY <1>1, <1>2, <1>4, SumSame
<1> QED
  BY <1>1, <1>2, <1>3, <1>5 DEF Buffered, Chunks

(* Putting a new chunk in puts its length in.                              *)
LEMMA BufferedAdd ==
  ASSUME NEW p, Chunks(p), NEW c \in Chunk, c \notin p
  PROVE  /\ Chunks(p \cup {c})
         /\ Buffered(p \cup {c}) = c.len + Buffered(p)
<1> DEFINE q == p \cup {c}
<1>1. Chunks(q) /\ c \in q /\ q \ {c} = p
  BY FS_AddElement DEF Chunks
<1> HIDE DEF q
<1>2. Buffered(q) = c.len + Buffered(q \ {c})
  BY <1>1, BufferedRemove
<1> QED
  BY <1>1, <1>2 DEF q

(* The bytes of some of the chunks and those of the others are the bytes   *)
(* of all: by induction over the part D, one chunk moved at a time.        *)
LEMMA BufferedSplit ==
  ASSUME NEW p, Chunks(p), NEW D \in SUBSET p
  PROVE  /\ Chunks(D) /\ Chunks(p \ D)
         /\ Buffered(p) = Buffered(D) + Buffered(p \ D)
<1> DEFINE P == {s \in SUBSET D : Buffered(p) = Buffered(s) + Buffered(p \ s)}
<1>1. ASSUME NEW s \in SUBSET p PROVE Chunks(s)
  BY FS_Subset DEF Chunks
<1>2. {} \in P
  <2>1. p \ {} = p /\ Buffered(p) \in Nat
    BY BufferedNat
  <2> QED
    BY <2>1, BufferedNone
<1>3. ASSUME NEW s \in SUBSET D, s # {}, \A x \in s : s \ {x} \in P
      PROVE  s \in P
  <2>1. PICK x \in s : Buffered(p) = Buffered(s \ {x}) + Buffered(p \ (s \ {x}))
    BY <1>3
  <2> HIDE DEF P
  <2>2. Buffered(s) = x.len + Buffered(s \ {x})
    BY <1>1, BufferedRemove
  <2> DEFINE rest == p \ (s \ {x})
  <2>3. rest \in SUBSET p /\ x \in rest /\ rest \ {x} = p \ s
    OBVIOUS
  <2> HIDE DEF rest
  <2>4. Buffered(rest) = x.len + Buffered(p \ s)
    BY <1>1, <2>3, BufferedRemove
  <2>5. Buffered(s \ {x}) \in Nat /\ Buffered(p \ s) \in Nat /\ x.len \in Nat
    <3>1. s \ {x} \in SUBSET p /\ p \ s \in SUBSET p /\ x \in Chunk
      BY DEF Chunks
    <3> QED
      BY <1>1, <3>1, BufferedNat DEF Chunk
  <2>6. Buffered(p) = Buffered(s) + Buffered(p \ s)
    BY <2>1, <2>2, <2>4, <2>5 DEF rest
  <2> QED
    BY <2>6 DEF P
<1>4. D \in P
  <2>1. IsFiniteSet(D)
    BY <1>1 DEF Chunks
  <2> HIDE DEF P
  <2> QED
    BY <1>2, <1>3, <2>1, FiniteInduction
<1> QED
  BY <1>1, <1>4

(* Some of the chunks have no more bytes than all of them.                 *)
LEMMA BufferedPart ==
  ASSUME NEW p, Chunks(p), NEW D \in SUBSET p
  PROVE  Buffered(D) <= Buffered(p)
<1>1. /\ Chunks(D) /\ Chunks(p \ D)
      /\ Buffered(p) = Buffered(D) + Buffered(p \ D)
  BY BufferedSplit
<1>2. Buffered(D) \in Nat /\ Buffered(p \ D) \in Nat
  BY <1>1, BufferedNat
<1> QED
  BY <1>1, <1>2

-----------------------------------------------------------------------------
(* No two chunks start at the same offset: pending is a map from offsets.  *)
Distinct(p) == \A x, y \in p : x.off = y.off => x = y

(* Among the chunks that a drain pops no two overlap: each one but the     *)
(* first starts where another ends, so that of two chunks the one at the   *)
(* lower offset ends before the other starts. By induction on the offset   *)
(* of the later one.                                                       *)
LEMMA NoOverlap ==
  ASSUME NEW p \in SUBSET Chunk, Distinct(p), NEW n \in Nat, NEW D \in SUBSET p, NEW e,
         Popped(p, n, D, e), NEW c \in D, NEW y \in D, c.off < y.off
  PROVE  End(c) <= y.off
<1> DEFINE Apart(z) == \A x \in D : x.off < z.off => End(x) <= z.off
           N == {k \in Nat : \A z \in D : z.off <= k => Apart(z)}
<1>1. \A z \in D : /\ z.off \in Nat /\ z.len \in Nat \ {0} /\ End(z) = z.off + z.len
                   /\ z.off >= n
                   /\ z.off = n \/ \E x \in D : End(x) = z.off
  BY DEF Popped, Chunk, End
<1>2. \A x, z \in D : x.off = z.off => x = z
  BY DEF Distinct
<1>3. 0 \in N
  BY <1>1
<1>4. ASSUME NEW k \in N PROVE k + 1 \in N
  <2>1. k \in Nat /\ \A z \in D : z.off <= k => Apart(z)
    OBVIOUS
  <2> HIDE DEF N
  <2>2. ASSUME NEW z \in D, z.off <= k + 1, NEW x \in D, x.off < z.off
        PROVE  End(x) <= z.off
    <3>1. z.off # n
      BY <1>1, <2>2
    <3>2. PICK w \in D : End(w) = z.off
      BY <1>1, <3>1
    <3>3. w.off <= k /\ x.off <= k
      <4>1. /\ z.off \in Nat /\ x.off \in Nat /\ w.off \in Nat
            /\ w.len \in Nat \ {0} /\ z.off = w.off + w.len
        BY <1>1, <3>2
      <4> QED
        BY <2>1, <2>2, <4>1
    <3>4. Apart(w) /\ Apart(x)
      BY <2>1, <3>3
    <3>5. CASE x.off < w.off
      BY <1>1, <3>2, <3>4, <3>5
    <3>6. CASE x.off = w.off
      BY <1>1, <1>2, <3>2, <3>6
    <3>7. CASE x.off > w.off
      BY <1>1, <2>2, <3>2, <3>4, <3>7
    <3> QED
      BY <1>1, <3>5, <3>6, <3>7
  <2>3. \A z \in D : z.off <= k + 1 => Apart(z)
    BY <2>2
  <2> QED
    BY <2>1, <2>3 DEF N
<1>5. N = Nat
  <2>1. N \in SUBSET Nat
    OBVIOUS
  <2> HIDE DEF N
  <2> QED
    BY <1>3, <1>4, <2>1, SetInduction
<1>6. y.off \in N /\ y.off <= y.off
  BY <1>1, <1>5
<1> QED
  BY <1>6

(* The chunks that a drain pops tile the bytes from the old cursor to the  *)
(* new one: their lengths add up to the cursor's move. This is what lets   *)
(* the model (and the code, chunk by chunk) take e - n off the counters.   *)
(* By induction on where a popped chunk ends: the chunks that end no later *)
(* than it have all the bytes up to there.                                 *)
LEMMA PoppedTiles ==
  ASSUME NEW p, Chunks(p), Distinct(p), NEW n \in Nat, NEW D \in SUBSET p, NEW e,
         Popped(p, n, D, e)
  PROVE  Buffered(D) = e - n
<1> DEFINE Below(k) == {x \in D : End(x) <= k}
           N == {k \in Nat : \A c \in D :
                   End(c) <= k => Buffered(Below(End(c))) = End(c) - n}
<1>1. \A z \in D : /\ z.off \in Nat /\ z.len \in Nat \ {0} /\ End(z) = z.off + z.len
                   /\ z.off >= n /\ End(z) <= e
                   /\ z.off = n \/ \E x \in D : End(x) = z.off
  BY DEF Popped, Chunks, Chunk, End
<1>2. \A x, z \in D : x.off = z.off => x = z
  BY DEF Distinct
<1>3. \A x, z \in D : x.off < z.off => End(x) <= z.off
  BY NoOverlap DEF Chunks
<1>4. 0 \in N
  BY <1>1
<1>5. ASSUME NEW k \in N PROVE k + 1 \in N
  <2>1. k \in Nat /\ \A c \in D : End(c) <= k => Buffered(Below(End(c))) = End(c) - n
    OBVIOUS
  <2> HIDE DEF N
  <2>2. ASSUME NEW c \in D, End(c) <= k + 1
        PROVE  Buffered(Below(End(c))) = End(c) - n
    <3>1. \A z \in Below(End(c)) : z = c \/ z.off < c.off
      BY <1>1, <1>2, <1>3
    <3>2. CASE c.off = n
      <4>1. Below(End(c)) = {} \cup {c}
        <5>1. c \in Below(End(c))
          BY <1>1
        <5>2. ASSUME NEW z \in Below(End(c)) PROVE z = c
          <6>1. ~(z.off < c.off)
            BY <1>1, <3>2
          <6> QED
            BY <3>1, <6>1
        <5> HIDE DEF Below
        <5> QED
          BY <5>1, <5>2
      <4>2. Chunks({}) /\ c \in Chunk
        BY FS_EmptySet DEF Chunks
      <4>3. Buffered({} \cup {c}) = c.len + Buffered({})
        BY <4>2, BufferedAdd
      <4>4. Buffered({} \cup {c}) = End(c) - n
        <5>1. c.len \in Nat /\ End(c) = n + c.len
          BY <1>1, <3>2
        <5> QED
          BY <4>3, <5>1, BufferedNone
      <4> QED
        BY <4>1, <4>4
    <3>3. CASE c.off # n
      <4>1. PICK x \in D : End(x) = c.off
        BY <1>1, <3>3
      <4>2. Below(End(c)) = Below(End(x)) \cup {c}
        BY <1>1, <1>3, <3>1, <4>1
      <4>3. c \notin Below(End(x))
        BY <1>1, <4>1
      <4>4. Chunks(Below(End(x))) /\ c \in Chunk
        <5>1. Below(End(x)) \in SUBSET p
          OBVIOUS
        <5> QED
          BY <5>1, FS_Subset DEF Chunks
      <4>5. Buffered(Below(End(c))) = c.len + Buffered(Below(End(x)))
        BY <4>2, <4>3, <4>4, BufferedAdd
      <4>6. End(x) <= k
        BY <1>1, <2>1, <2>2, <4>1
      <4>7. Buffered(Below(End(x))) = End(x) - n
        BY <2>1, <4>6
      <4> QED
        BY <1>1, <4>1, <4>5, <4>7
    <3> QED
      BY <3>2, <3>3
  <2>3. k + 1 \in Nat
    BY <2>1
  <2> QED
    BY <2>2, <2>3 DEF N
<1>6. N = Nat
  <2>1. N \in SUBSET Nat
    OBVIOUS
  <2> HIDE DEF N
  <2> QED
    BY <1>4, <1>5, <2>1, SetInduction
<1>7. CASE D = {}
  <2>1. e = n
    BY <1>7 DEF Popped
  <2> QED
    BY <1>7, <2>1, BufferedNone
<1>8. CASE D # {}
  <2>1. PICK c \in D : End(c) = e
    BY <1>8 DEF Popped
  <2>2. Below(e) = D
    BY <1>1
  <2>3. e \in Nat
    BY <1>1, <2>1
  <2>4. e \in N
    BY <1>6, <2>3
  <2>5. End(c) <= e
    BY <2>1, <2>3
  <2>6. Buffered(Below(End(c))) = End(c) - n
    BY <2>4, <2>5
  <2> HIDE DEF Below, N
  <2> QED
    BY <2>1, <2>2, <2>6
<1> QED
  BY <1>7, <1>8

-----------------------------------------------------------------------------
(* What the counters need of a segment: a finite map of chunks, that is    *)
(* charged for at least the bytes it holds.                                *)
Sound(seg) ==
  /\ Chunks(seg.pend)
  /\ Distinct(seg.pend)
  /\ Buffered(seg.pend) <= seg.bytes

(* The accounting invariant in the form the steps keep: every segment      *)
(* sound, every device charged the sum of its segments, and the global     *)
(* counter the sum of the devices'.                                        *)
Charged(b) ==
  /\ \A d \in Dev, s \in SegSeq : Sound(Seg(b, d, s))
  /\ \A d \in Dev : b.conn[d] = DevBytes(b, d)
  /\ b.global = SumFunctionOnSet(b.conn, Dev)

(* The segment numbers are finitely many.                                  *)
LEMMA SegSeqFinite == IsFiniteSet(SegSeq)
BY FS_Interval, SizesAssumption DEF SegSeq

(* Under the invariant no counter is negative, and no part of a sum        *)
(* exceeds the whole: every subtraction the code makes stays above 0.      *)
LEMMA ChargeBounds ==
  ASSUME NEW b, BufOK(b), Charged(b), NEW d \in Dev
  PROVE  /\ b.conn[d] \in Nat
         /\ b.global \in Nat
         /\ b.conn[d] <= b.global
         /\ \A s \in SegSeq : /\ Seg(b, d, s).bytes \in Nat
                              /\ Seg(b, d, s).bytes <= b.conn[d]
<1>1. ASSUME NEW x \in Dev, NEW s \in SegSeq PROVE Seg(b, x, s).bytes \in Nat
  <2>1. Seg(b, x, s).bytes \in Int
    BY DEF BufOK, Seg, SegmentBuf
  <2>2. Buffered(Seg(b, x, s).pend) \in Nat /\ Buffered(Seg(b, x, s).pend) <= Seg(b, x, s).bytes
    BY BufferedNat DEF Charged, Sound
  <2> QED
    BY <2>1, <2>2
<1>2. ASSUME NEW x \in Dev
      PROVE  /\ b.conn[x] \in Nat
             /\ \A s \in SegSeq : Seg(b, x, s).bytes <= b.conn[x]
  <2>1. \A s \in SegSeq : Charges(b, x)[s] = Seg(b, x, s).bytes /\ Charges(b, x)[s] \in Nat
    BY <1>1 DEF Charges
  <2>2. b.conn[x] = SumFunctionOnSet(Charges(b, x), SegSeq)
    BY DEF Charged, DevBytes
  <2> QED
    BY <2>1, <2>2, SegSeqFinite, SumNonnegative, SumMember
<1>3. b.global \in Nat /\ b.conn[d] <= b.global
  BY <1>2, DevicesAssumption, SumNonnegative, SumMember DEF Charged
<1> QED
  BY <1>1, <1>2, <1>3

(* A call that changes one segment and moves the three counters by the     *)
(* same amount keeps the invariant.                                        *)
LEMMA OneSegment ==
  ASSUME NEW b, BufOK(b), Charged(b), NEW r, BufOK(r),
         NEW d \in Dev, NEW s \in SegSeq, NEW seg, Sound(seg), NEW k \in Int,
         seg.bytes = Seg(b, d, s).bytes + k,
         \A x \in Dev, q \in SegSeq :
           Seg(r, x, q) = IF x = d /\ q = s THEN seg ELSE Seg(b, x, q),
         r.conn = [b.conn EXCEPT ![d] = @ + k],
         r.global = b.global + k
  PROVE  Charged(r)
<1>1. \A x \in Dev, q \in SegSeq : Sound(Seg(r, x, q))
  BY DEF Charged
<1>2. ASSUME NEW y, BufOK(y), NEW x \in Dev
      PROVE  \A q \in SegSeq : /\ Charges(y, x)[q] = Seg(y, x, q).bytes
                               /\ Charges(y, x)[q] \in Int
  BY <1>2 DEF BufOK, Seg, SegmentBuf, Charges
<1>3. b.conn \in [Dev -> Int] /\ r.conn \in [Dev -> Int]
  BY DEF BufOK
<1>4. ASSUME NEW x \in Dev PROVE r.conn[x] = DevBytes(r, x)
  <2>1. b.conn[x] = SumFunctionOnSet(Charges(b, x), SegSeq)
    BY DEF Charged, DevBytes
  <2>2. CASE x = d
    <3>1. \A q \in SegSeq \ {s} : Charges(r, d)[q] = Charges(b, d)[q]
      BY <1>2
    <3>2. \A q \in SegSeq : Charges(b, d)[q] \in Int /\ Charges(r, d)[q] \in Int
      BY <1>2
    <3>3. SumFunctionOnSet(Charges(r, d), SegSeq)
            = SumFunctionOnSet(Charges(b, d), SegSeq) - Charges(b, d)[s] + Charges(r, d)[s]
      <4> DEFINE f == Charges(b, d)
                 g == Charges(r, d)
      <4>1. \A q \in SegSeq : f[q] \in Int /\ g[q] \in Int /\ (q # s => g[q] = f[q])
        BY <3>1, <3>2
      <4> HIDE DEF f, g
      <4>2. SumFunctionOnSet(g, SegSeq) = SumFunctionOnSet(f, SegSeq) - f[s] + g[s]
        BY <4>1, SegSeqFinite, SumChange
      <4> QED
        BY <4>2 DEF f, g
    <3>4. Charges(r, d)[s] = Charges(b, d)[s] + k /\ Charges(b, d)[s] \in Int
      BY <1>2
    <3>5. SumFunctionOnSet(Charges(b, d), SegSeq) \in Int
      BY <3>2, SegSeqFinite, SumInt
    <3> QED
      BY <1>3, <2>1, <2>2, <3>3, <3>4, <3>5 DEF DevBytes
  <2>3. CASE x # d
    <3>1. \A q \in SegSeq : Charges(r, x)[q] = Charges(b, x)[q] /\ Charges(b, x)[q] \in Int
      BY <1>2, <2>3
    <3>2. SumFunctionOnSet(Charges(r, x), SegSeq) = SumFunctionOnSet(Charges(b, x), SegSeq)
      BY <3>1, SegSeqFinite, SumSame
    <3> QED
      BY <1>3, <2>1, <2>3, <3>2 DEF DevBytes
  <2> QED
    BY <2>2, <2>3
<1>5. r.global = SumFunctionOnSet(r.conn, Dev)
  <2>1. \A x \in Dev : b.conn[x] \in Int /\ r.conn[x] \in Int
    BY <1>3
  <2>2. \A x \in Dev \ {d} : r.conn[x] = b.conn[x]
    BY <1>3
  <2>3. SumFunctionOnSet(r.conn, Dev) = SumFunctionOnSet(b.conn, Dev) - b.conn[d] + r.conn[d]
    <3> DEFINE f == b.conn
               g == r.conn
    <3>1. \A x \in Dev : f[x] \in Int /\ g[x] \in Int /\ (x # d => g[x] = f[x])
      BY <2>1, <2>2
    <3> HIDE DEF f, g
    <3>2. SumFunctionOnSet(g, Dev) = SumFunctionOnSet(f, Dev) - f[d] + g[d]
      BY <3>1, DevicesAssumption, SumChange
    <3> QED
      BY <3>2 DEF f, g
  <2>4. r.conn[d] = b.conn[d] + k
    BY <1>3
  <2>5. SumFunctionOnSet(b.conn, Dev) \in Int
    BY <2>1, DevicesAssumption, SumInt
  <2> QED
    BY <2>1, <2>3, <2>4, <2>5 DEF Charged
<1> QED
  BY <1>1, <1>4, <1>5 DEF Charged

-----------------------------------------------------------------------------
(* What the invariant says of one segment.                                 *)
LEMMA SoundParts ==
  ASSUME NEW b, BufOK(b), Charged(b), NEW d \in Dev, NEW s \in SegSeq
  PROVE  /\ Seg(b, d, s) \in SegmentBuf
         /\ Sound(Seg(b, d, s))
         /\ Seg(b, d, s).bytes \in Int
         /\ Buffered(Seg(b, d, s).pend) \in Nat
<1>1. Seg(b, d, s) \in SegmentBuf /\ Sound(Seg(b, d, s))
  BY DEF BufOK, Seg, Charged
<1> QED
  BY <1>1, BufferedNat DEF SegmentBuf, Sound

(* Evicting one chunk keeps the invariant.                                 *)
LEMMA RemoveKeepsCharged ==
  ASSUME NEW b, BufOK(b), Charged(b), NEW d \in Dev, NEW s \in SegSeq,
         NEW c \in Seg(b, d, s).pend
  PROVE  LET r == RemoveChunk(b, d, s, c)
         IN  /\ Charged(r)
             /\ r.conn = [b.conn EXCEPT ![d] = @ - c.len]
             /\ r.global = b.global - c.len
             /\ r.quarantined = b.quarantined
             /\ r.streak = b.streak
             /\ r.window = b.window
             /\ \A x \in Dev, q \in SegSeq :
                  Seg(r, x, q) = IF x = d /\ q = s THEN Without(Seg(b, d, s), c)
                                 ELSE Seg(b, x, q)
<1> DEFINE r == RemoveChunk(b, d, s, c)
           old == Seg(b, d, s)
           seg == Without(old, c)
<1>1. /\ old \in SegmentBuf /\ Sound(old)
      /\ old.bytes \in Int
      /\ Buffered(old.pend) \in Nat
      /\ c \in old.pend /\ c.len \in Nat
  BY SoundParts DEF SegmentBuf, Chunk
<1>2. /\ r.segs = [b.segs EXCEPT ![d][s] = seg]
      /\ r.conn = [b.conn EXCEPT ![d] = @ - c.len]
      /\ r.global = b.global - c.len
      /\ r.quarantined = b.quarantined
      /\ r.streak = b.streak
      /\ r.window = b.window
  BY DEF RemoveChunk, BufOK, Seg
<1>3. seg.pend = old.pend \ {c} /\ seg.bytes = old.bytes - c.len /\ seg \in SegmentBuf
  BY <1>1, WithoutType DEF Without, SegmentBuf
<1>4. BufOK(r)
  BY RemoveChunkEvicts DEF Evicted
<1>5. \A x \in Dev, q \in SegSeq :
        Seg(r, x, q) = IF x = d /\ q = s THEN seg ELSE Seg(b, x, q)
  BY <1>2, <1>3, SegsUpdate DEF BufOK, Seg
<1>6. Sound(seg)
  <2>1. /\ Chunks(old.pend \ {c})
        /\ Buffered(old.pend) = c.len + Buffered(old.pend \ {c})
    BY <1>1, BufferedRemove DEF Sound
  <2>2. Buffered(old.pend \ {c}) \in Nat /\ Buffered(old.pend) <= old.bytes
    BY <1>1, <2>1, BufferedNat DEF Sound
  <2>3. Distinct(old.pend \ {c})
    BY <1>1 DEF Sound, Distinct
  <2>4. Buffered(old.pend \ {c}) <= old.bytes - c.len
    BY <1>1, <2>1, <2>2
  <2> QED
    BY <1>3, <2>1, <2>3, <2>4 DEF Sound
<1> HIDE DEF seg, r
<1>7. Charged(r)
  <2> DEFINE k == 0 - c.len
  <2>1. b.conn[d] \in Int /\ b.global \in Int
    BY ChargeBounds
  <2>2. k \in Int /\ seg.bytes = old.bytes + k
    BY <1>1, <1>3
  <2>3. r.conn = [b.conn EXCEPT ![d] = @ + k] /\ r.global = b.global + k
    BY <1>1, <1>2, <2>1
  <2> HIDE DEF k
  <2> QED
    BY <1>4, <1>5, <1>6, <2>2, <2>3, OneSegment
<1> QED
  BY <1>2, <1>5, <1>7 DEF r, seg

(* Counting an eviction touches no counter of bytes.                       *)
LEMMA CountKeepsCharged ==
  ASSUME NEW b, BufOK(b), Charged(b), NEW d \in Dev
  PROVE  LET r == CountEviction(b, d)
         IN  /\ Charged(r)
             /\ r.segs = b.segs /\ r.conn = b.conn /\ r.global = b.global
             /\ r.quarantined = b.quarantined
<1> DEFINE r == CountEviction(b, d)
<1>1. /\ r.segs = b.segs /\ r.conn = b.conn /\ r.global = b.global
      /\ r.quarantined = b.quarantined
  BY DEF CountEviction, BufOK
<1> HIDE DEF r
<1>2. /\ \A x \in Dev, s \in SegSeq : Seg(r, x, s) = Seg(b, x, s)
      /\ \A x \in Dev : DevBytes(r, x) = DevBytes(b, x)
  BY <1>1 DEF Seg, DevBytes, Charges
<1> QED
  BY <1>1, <1>2 DEF Charged, r

(* Quarantining a device keeps the invariant: the global counter gives     *)
(* back exactly what the device was charged.                               *)
LEMMA QuarantineKeepsCharged ==
  ASSUME NEW b, BufOK(b), Charged(b), NEW d \in Dev
  PROVE  LET r == QuarantineDev(b, d)
         IN  /\ Charged(r)
             /\ r.conn = [b.conn EXCEPT ![d] = 0]
             /\ r.global = b.global - b.conn[d]
             /\ r.quarantined = b.quarantined \cup {d}
             /\ r.streak = [b.streak EXCEPT ![d] = 0]
             /\ r.window = [b.window EXCEPT ![d] = 0]
             /\ \A x \in Dev, q \in SegSeq :
                  Seg(r, x, q) = IF x = d THEN Skip(Seg(b, x, q)) ELSE Seg(b, x, q)
<1> DEFINE r == QuarantineDev(b, d)
<1>1. /\ r.segs = [b.segs EXCEPT ![d] = [s \in SegSeq |-> Skip(b.segs[d][s])]]
      /\ r.conn = [b.conn EXCEPT ![d] = 0]
      /\ r.global = SaturatingSub(b.global, DevBytes(b, d))
      /\ r.quarantined = b.quarantined \cup {d}
      /\ r.streak = [b.streak EXCEPT ![d] = 0]
      /\ r.window = [b.window EXCEPT ![d] = 0]
  BY DEF QuarantineDev, BufOK
<1>2. \A x \in Dev, q \in SegSeq :
        Seg(r, x, q) = IF x = d THEN Skip(Seg(b, x, q)) ELSE Seg(b, x, q)
  BY <1>1 DEF BufOK, Seg
<1>3. /\ b.conn[d] = DevBytes(b, d)
      /\ b.conn[d] \in Nat /\ b.global \in Nat /\ b.conn[d] <= b.global
  BY ChargeBounds DEF Charged
<1>4. r.global = b.global - b.conn[d]
  BY <1>1, <1>3 DEF SaturatingSub
<1>5. b.conn \in [Dev -> Int] /\ r.conn \in [Dev -> Int]
  BY <1>1 DEF BufOK
<1> HIDE DEF r
<1>6. ASSUME NEW x \in Dev, NEW q \in SegSeq PROVE Sound(Seg(r, x, q))
  <2>1. Sound(Seg(b, x, q)) /\ Seg(b, x, q) \in SegmentBuf
    BY SoundParts
  <2>2. CASE x = d
    <3>1. Seg(r, x, q).pend = {} /\ Seg(r, x, q).bytes = 0
      BY <1>2, <2>1, <2>2, SkipType
    <3>2. Chunks({}) /\ Distinct({})
      BY FS_EmptySet DEF Chunks, Distinct
    <3> QED
      BY <3>1, <3>2, BufferedNone DEF Sound
  <2>3. CASE x # d
    BY <1>2, <2>1, <2>3
  <2> QED
    BY <2>2, <2>3
<1>7. ASSUME NEW x \in Dev PROVE r.conn[x] = DevBytes(r, x)
  <2>1. CASE x = d
    <3>1. \A q \in SegSeq : Charges(r, x)[q] = 0
      BY <1>2, <2>1, SoundParts, SkipType DEF Charges
    <3>2. SumFunctionOnSet(Charges(r, x), SegSeq) = 0
      BY <3>1, SegSeqFinite, SumZero
    <3> QED
      BY <1>1, <1>5, <2>1, <3>2 DEF DevBytes
  <2>2. CASE x # d
    <3>1. Charges(r, x) = Charges(b, x)
      BY <1>2, <2>2 DEF Charges
    <3>2. b.conn[x] = DevBytes(b, x)
      BY DEF Charged
    <3> QED
      BY <1>1, <1>5, <2>2, <3>1, <3>2 DEF DevBytes
  <2> QED
    BY <2>1, <2>2
<1>8. r.global = SumFunctionOnSet(r.conn, Dev)
  <2> DEFINE f == b.conn
             g == r.conn
  <2>1. \A x \in Dev : f[x] \in Int /\ g[x] \in Int /\ (x # d => g[x] = f[x])
    BY <1>1, <1>5
  <2>2. g[d] = 0
    BY <1>1, <1>5
  <2>3. b.global = SumFunctionOnSet(f, Dev)
    BY DEF Charged
  <2> HIDE DEF f, g
  <2>4. SumFunctionOnSet(g, Dev) = SumFunctionOnSet(f, Dev) - f[d] + g[d]
    BY <2>1, DevicesAssumption, SumChange
  <2>5. SumFunctionOnSet(g, Dev) = b.global - f[d]
    BY <1>3, <2>1, <2>2, <2>3, <2>4
  <2> QED
    BY <1>4, <2>5 DEF f, g
<1> QED
  BY <1>1, <1>2, <1>4, <1>6, <1>7, <1>8 DEF Charged, r

(* Inserting a chunk keeps the invariant; a replaced chunk leaves its      *)
(* charge behind, which is why a segment may be charged more than it       *)
(* holds.                                                                  *)
LEMMA InsertKeepsCharged ==
  ASSUME NEW b, BufOK(b), Charged(b), NEW d \in Dev, NEW s \in SegSeq, NEW c \in Chunk
  PROVE  LET r == Insert(b, d, s, c)
         IN  /\ Charged(r)
             /\ BufOK(r)
             /\ r.conn = [b.conn EXCEPT ![d] = @ + c.len]
             /\ r.quarantined = b.quarantined
             /\ r.streak = b.streak
             /\ r.window = b.window
             /\ \A x \in Dev, q \in SegSeq :
                  Seg(r, x, q) = IF x = d /\ q = s THEN With(Seg(b, d, s), c)
                                 ELSE Seg(b, x, q)
<1> DEFINE r == Insert(b, d, s, c)
           old == Seg(b, d, s)
           seg == With(old, c)
           rest == {x \in old.pend : x.off # c.off}
<1>1. /\ old \in SegmentBuf /\ Sound(old)
      /\ old.bytes \in Int
      /\ Buffered(old.pend) \in Nat
      /\ c.len \in Nat
  BY SoundParts DEF Chunk
<1>2. /\ r.conn = [b.conn EXCEPT ![d] = @ + c.len]
      /\ r.global = b.global + c.len
      /\ r.quarantined = b.quarantined
      /\ r.streak = b.streak
      /\ r.window = b.window
  BY DEF Insert, BufOK
<1>3. /\ BufOK(r)
      /\ \A x \in Dev, q \in SegSeq :
           Seg(r, x, q) = IF x = d /\ q = s THEN seg ELSE Seg(b, x, q)
  BY InsertType
<1>4. seg.pend = rest \cup {c} /\ seg.bytes = old.bytes + c.len
  BY <1>1, WithType
<1>5. Sound(seg)
  <2>1. Chunks(rest) /\ Buffered(rest) <= Buffered(old.pend) /\ c \notin rest
    BY <1>1, BufferedSplit, BufferedPart DEF Sound
  <2>2. /\ Chunks(rest \cup {c})
        /\ Buffered(rest \cup {c}) = c.len + Buffered(rest)
    BY <2>1, BufferedAdd
  <2>3. Distinct(rest \cup {c})
    BY <1>1 DEF Sound, Distinct
  <2>4. Buffered(rest) \in Nat /\ Buffered(old.pend) <= old.bytes
    BY <1>1, <2>1, BufferedNat DEF Sound
  <2>5. Buffered(rest \cup {c}) <= old.bytes + c.len
    BY <1>1, <2>1, <2>2, <2>4
  <2> QED
    BY <1>4, <2>2, <2>3, <2>5 DEF Sound
<1> HIDE DEF seg, r
<1>6. Charged(r)
  <2>1. c.len \in Int /\ seg.bytes = old.bytes + c.len
    BY <1>1, <1>4
  <2> QED
    BY <1>2, <1>3, <1>5, <2>1, OneSegment
<1> QED
  BY <1>2, <1>3, <1>6 DEF r, seg

(* What a drain of the segment s of d leaves.                              *)
DrainsTo(b, d, s, D, e, r) ==
  LET popped == e - Seg(b, d, s).next
  IN  /\ Charged(r)
      /\ BufOK(r)
      /\ popped \in Nat /\ popped = Buffered(D)
      /\ r.conn = [b.conn EXCEPT ![d] = @ - popped]
      /\ r.quarantined = b.quarantined
      /\ r.streak = b.streak
      /\ r.window = b.window
      /\ \A x \in Dev, q \in SegSeq :
           Seg(r, x, q) = IF x = d /\ q = s THEN DrainSeg(Seg(b, d, s), D, e)
                          ELSE Seg(b, x, q)

(* A drain keeps the invariant, and its saturating subtraction never       *)
(* saturates.                                                              *)
LEMMA DrainKeepsCharged ==
  ASSUME NEW b, BufOK(b), Charged(b), NEW d \in Dev, NEW s \in SegSeq,
         NEW D \in SUBSET Seg(b, d, s).pend, NEW e,
         Popped(Seg(b, d, s).pend, Seg(b, d, s).next, D, e)
  PROVE  DrainsTo(b, d, s, D, e, Drain(b, d, s, D, e))
<1> DEFINE r == Drain(b, d, s, D, e)
           old == Seg(b, d, s)
           seg == DrainSeg(old, D, e)
           popped == e - old.next
<1>1. /\ old \in SegmentBuf /\ Sound(old)
      /\ old.bytes \in Int /\ old.next \in Nat
      /\ Buffered(old.pend) \in Nat
  BY SoundParts DEF SegmentBuf
<1>2. e \in Nat /\ e >= old.next
  BY <1>1, PoppedEnd DEF Sound, Chunks
<1>3. Buffered(D) = popped /\ popped \in Nat
  BY <1>1, <1>2, PoppedTiles DEF Sound
<1>4. /\ Chunks(old.pend \ D)
      /\ Buffered(old.pend) = popped + Buffered(old.pend \ D)
      /\ Buffered(old.pend \ D) \in Nat
  BY <1>1, <1>3, BufferedSplit, BufferedNat DEF Sound
<1>5. b.conn[d] \in Nat /\ old.bytes <= b.conn[d]
  BY ChargeBounds
<1>6. popped <= b.conn[d]
  <2>1. Buffered(old.pend) <= old.bytes
    BY <1>1 DEF Sound
  <2> QED
    BY <1>1, <1>3, <1>4, <1>5, <2>1
<1>7. /\ r.conn = [b.conn EXCEPT ![d] = SaturatingSub(@, popped)]
      /\ r.global = b.global - popped
      /\ r.quarantined = b.quarantined
      /\ r.streak = b.streak
      /\ r.window = b.window
  BY DEF Drain, BufOK
<1>8. r.conn = [b.conn EXCEPT ![d] = @ - popped]
  <2>1. SaturatingSub(b.conn[d], popped) = b.conn[d] - popped
    BY <1>3, <1>5, <1>6 DEF SaturatingSub
  <2> QED
    BY <1>7, <2>1
<1>9. /\ BufOK(r)
      /\ \A x \in Dev, q \in SegSeq :
           Seg(r, x, q) = IF x = d /\ q = s THEN seg ELSE Seg(b, x, q)
  BY <1>2, DrainType
<1>10. seg.pend = old.pend \ D /\ seg.bytes = old.bytes - popped
  BY <1>1, <1>2, DrainSegType
<1>11. Sound(seg)
  <2>1. Distinct(old.pend \ D)
    BY <1>1 DEF Sound, Distinct
  <2>2. Buffered(old.pend \ D) <= old.bytes - popped
    BY <1>1, <1>3, <1>4 DEF Sound
  <2> QED
    BY <1>4, <1>10, <2>1, <2>2 DEF Sound
<1> HIDE DEF seg, r, popped
<1>12. Charged(r)
  <2> DEFINE k == 0 - popped
  <2>1. b.conn[d] \in Int /\ b.global \in Int
    BY ChargeBounds
  <2>2. k \in Int /\ seg.bytes = old.bytes + k
    BY <1>1, <1>3, <1>10
  <2>3. r.conn = [b.conn EXCEPT ![d] = @ + k] /\ r.global = b.global + k
    BY <1>3, <1>7, <1>8, <2>1
  <2> HIDE DEF k
  <2> QED
    BY <1>9, <1>11, <2>2, <2>3, OneSegment
<1> QED
  BY <1>3, <1>7, <1>8, <1>9, <1>12 DEF DrainsTo, r, seg, popped

(* Emptying a segment keeps the invariant, whatever empty segment takes    *)
(* its place (mark_segment_error, release_segment).                        *)
LEMMA DropKeepsCharged ==
  ASSUME NEW b, BufOK(b), Charged(b), NEW d \in Dev, NEW s \in SegSeq,
         NEW seg \in SegmentBuf, seg.pend = {}, seg.bytes = 0
  PROVE  LET r == [DropPending(b, d, s) EXCEPT !.segs[d][s] = seg]
         IN  /\ Charged(r)
             /\ BufOK(r)
             /\ r.conn = [b.conn EXCEPT ![d] = @ - Seg(b, d, s).bytes]
             /\ r.quarantined = b.quarantined
             /\ r.streak = b.streak
             /\ r.window = b.window
             /\ \A x \in Dev, q \in SegSeq :
                  Seg(r, x, q) = IF x = d /\ q = s THEN seg ELSE Seg(b, x, q)
<1> DEFINE p == DropPending(b, d, s)
           r == [p EXCEPT !.segs[d][s] = seg]
           back == Seg(b, d, s).bytes
<1>1. /\ b.conn[d] \in Nat /\ b.global \in Nat /\ b.conn[d] <= b.global
      /\ back \in Nat /\ back <= b.conn[d]
  BY ChargeBounds
<1>2. /\ p.conn = [b.conn EXCEPT ![d] = SaturatingSub(@, back)]
      /\ p.global = SaturatingSub(b.global, back)
      /\ p.quarantined = b.quarantined
      /\ p.streak = b.streak
      /\ p.window = b.window
      /\ DOMAIN p = DOMAIN b
  BY DEF DropPending, BufOK
<1> HIDE DEF p
<1>3. /\ r.conn = p.conn
      /\ r.global = p.global
      /\ r.quarantined = p.quarantined
      /\ r.streak = p.streak
      /\ r.window = p.window
  BY <1>2 DEF BufOK
<1>4. /\ BufOK(r)
      /\ \A x \in Dev, q \in SegSeq :
           Seg(r, x, q) = IF x = d /\ q = s THEN seg ELSE Seg(b, x, q)
  BY DropPendingType DEF p
<1>5. /\ SaturatingSub(b.conn[d], back) = b.conn[d] - back
      /\ SaturatingSub(b.global, back) = b.global - back
  BY <1>1 DEF SaturatingSub
<1>6. r.conn = [b.conn EXCEPT ![d] = @ - back] /\ r.global = b.global - back
  BY <1>2, <1>3, <1>5
<1>7. Sound(seg)
  <2>1. Chunks({}) /\ Distinct({})
    BY FS_EmptySet DEF Chunks, Distinct
  <2> QED
    BY <2>1, BufferedNone DEF Sound
<1> HIDE DEF r, back
<1>8. Charged(r)
  <2> DEFINE k == 0 - back
  <2>1. k \in Int /\ seg.bytes = back + k
    BY <1>1
  <2>2. r.conn = [b.conn EXCEPT ![d] = @ + k] /\ r.global = b.global + k
    BY <1>1, <1>6
  <2> HIDE DEF k
  <2> QED
    BY <1>4, <1>7, <2>1, <2>2, OneSegment DEF back
<1> QED
  BY <1>2, <1>3, <1>4, <1>6, <1>8 DEF r, back, p

-----------------------------------------------------------------------------
(* The two ways an eviction is counted: a new window, or the current one.  *)
Counted(b, d, r) ==
  \/ /\ b.streak[d] = 0 \/ now - b.window[d] > EvictWindow
     /\ r.streak = [b.streak EXCEPT ![d] = 1]
     /\ r.window = [b.window EXCEPT ![d] = now]
  \/ /\ b.streak[d] # 0 /\ now - b.window[d] <= EvictWindow
     /\ r.streak = [b.streak EXCEPT ![d] = @ + 1]
     /\ r.window = b.window

(* count_eviction is one of the two.                                       *)
LEMMA CountIsCounted ==
  ASSUME NEW b, BufOK(b), now \in Nat, NEW d \in Dev
  PROVE  Counted(b, d, CountEviction(b, d))
<1>1. b.window[d] \in Nat /\ EvictWindow \in Nat
  BY BudgetsAssumption DEF BufOK
<1>2. CASE b.streak[d] = 0 \/ now - b.window[d] > EvictWindow
  BY <1>2 DEF CountEviction, Counted, BufOK
<1>3. CASE ~(b.streak[d] = 0 \/ now - b.window[d] > EvictWindow)
  <2>1. CountEviction(b, d) = [b EXCEPT !.streak[d] = @ + 1]
    BY <1>3 DEF CountEviction
  <2>2. now - b.window[d] <= EvictWindow /\ b.streak[d] # 0
    BY <1>1, <1>3
  <2> QED
    BY <2>1, <2>2 DEF Counted, BufOK
<1> QED
  BY <1>2, <1>3

(* A device lost one chunk, and is still short of the threshold.           *)
EvictedAndCounted(b, d, r) ==
  /\ r.quarantined = b.quarantined
  /\ \E s \in SegSeq : \E c \in Seg(b, d, s).pend :
       /\ r.conn = [b.conn EXCEPT ![d] = @ - c.len]
       /\ \A x \in Dev, q \in SegSeq :
            Seg(r, x, q) = IF x = d /\ q = s THEN Without(Seg(b, d, s), c)
                           ELSE Seg(b, x, q)
  /\ Counted(b, d, r) /\ r.streak[d] < EvictThreshold

(* A device was quarantined: it holds nothing and is charged nothing; when *)
(* more than one eviction is needed for it, it was one short of the        *)
(* threshold and its window had not passed.                                *)
EvictedAndQuarantined(b, d, r) ==
  /\ r.quarantined = b.quarantined \cup {d}
  /\ r.conn = [b.conn EXCEPT ![d] = 0]
  /\ r.streak = [b.streak EXCEPT ![d] = 0]
  /\ r.window = [b.window EXCEPT ![d] = 0]
  /\ \A x \in Dev, q \in SegSeq :
       IF x = d THEN Seg(r, x, q).pend = {} /\ Seg(r, x, q).bytes = 0
       ELSE Seg(r, x, q) = Seg(b, x, q)
  /\ EvictThreshold > 1 => /\ b.streak[d] # 0
                           /\ b.streak[d] + 1 >= EvictThreshold
                           /\ now - b.window[d] <= EvictWindow

(* evict_oldest_in_dev has these two outcomes.                             *)
LEMMA EvictFromDevOutcome ==
  ASSUME NEW b, BufOK(b), Charged(b), now \in Nat, NEW d \in Dev, NEW s \in SegSeq,
         NEW c \in Seg(b, d, s).pend, NEW r, NEW w,
         w.dev = d, w.seq = s, w.chunk = c, r = EvictFromDev(b, w)
  PROVE  /\ BufOK(r.buf) /\ Charged(r.buf)
         /\ \/ EvictedAndCounted(b, d, r.buf)
            \/ EvictedAndQuarantined(b, d, r.buf)
<1> DEFINE a == RemoveChunk(b, d, s, c)
           k == CountEviction(a, d)
<1>1. /\ BufOK(a) /\ Charged(a)
      /\ a.conn = [b.conn EXCEPT ![d] = @ - c.len]
      /\ a.quarantined = b.quarantined /\ a.streak = b.streak /\ a.window = b.window
      /\ \A x \in Dev, q \in SegSeq :
           Seg(a, x, q) = IF x = d /\ q = s THEN Without(Seg(b, d, s), c)
                          ELSE Seg(b, x, q)
  BY RemoveKeepsCharged, RemoveChunkEvicts DEF Evicted
<1> HIDE DEF a
<1>2. /\ BufOK(k) /\ Charged(k) /\ Counted(a, d, k)
      /\ k.segs = a.segs /\ k.conn = a.conn /\ k.quarantined = a.quarantined
  BY <1>1, CountKeepsCharged, CountEvictionEvicts, CountIsCounted DEF Evicted
<1>3. r.buf = IF k.streak[d] >= EvictThreshold THEN QuarantineDev(k, d) ELSE k
  BY DEF EvictFromDev, a
<1> HIDE DEF k
<1>4. Counted(b, d, k)
  BY <1>1, <1>2 DEF Counted
<1>5. b.streak \in [Dev -> Nat] /\ k.streak \in [Dev -> Nat]
      /\ b.window \in [Dev -> Nat] /\ EvictThreshold \in Nat
  BY <1>2, BudgetsAssumption DEF BufOK
<1>6. \A x \in Dev, q \in SegSeq : Seg(k, x, q) = Seg(a, x, q)
  BY <1>2 DEF Seg
<1>7. CASE k.streak[d] >= EvictThreshold
  <2> DEFINE z == QuarantineDev(k, d)
  <2>1. /\ BufOK(z) /\ Charged(z)
        /\ z.conn = [k.conn EXCEPT ![d] = 0]
        /\ z.quarantined = k.quarantined \cup {d}
        /\ z.streak = [k.streak EXCEPT ![d] = 0]
        /\ z.window = [k.window EXCEPT ![d] = 0]
        /\ \A x \in Dev, q \in SegSeq :
             Seg(z, x, q) = IF x = d THEN Skip(Seg(k, x, q)) ELSE Seg(k, x, q)
    <3>1. BufOK(z)
      BY <1>2, QuarantineEvicts DEF Evicted
    <3> QED
      BY SMTT(40), <1>2, <3>1, QuarantineKeepsCharged
  <2>2. r.buf = z
    BY <1>3, <1>7
  <2> HIDE DEF z
  <2>3. z.conn = [b.conn EXCEPT ![d] = 0]
    <3>1. b.conn \in [Dev -> Int]
      BY DEF BufOK
    <3>2. k.conn = [b.conn EXCEPT ![d] = @ - c.len]
      BY <1>1, <1>2
    <3>3. z.conn = [k.conn EXCEPT ![d] = 0]
      BY <2>1
    <3> QED
      BY <3>1, <3>2, <3>3
  <2>4. z.streak = [b.streak EXCEPT ![d] = 0] /\ z.window = [b.window EXCEPT ![d] = 0]
    BY <1>4, <1>5, <2>1 DEF Counted
  <2>5. ASSUME NEW x \in Dev, NEW q \in SegSeq
        PROVE  IF x = d THEN Seg(z, x, q).pend = {} /\ Seg(z, x, q).bytes = 0
               ELSE Seg(z, x, q) = Seg(b, x, q)
    <3>1. Seg(k, x, q) \in SegmentBuf
      BY <1>2 DEF BufOK, Seg
    <3> QED
      BY <1>1, <1>6, <2>1, <3>1, SkipType
  <2>6. EvictThreshold > 1 => /\ b.streak[d] # 0
                              /\ b.streak[d] + 1 >= EvictThreshold
                              /\ now - b.window[d] <= EvictWindow
    BY <1>4, <1>5, <1>7 DEF Counted
  <2>7. z.quarantined = b.quarantined \cup {d}
    BY <1>1, <1>2, <2>1
  <2> QED
    BY <2>1, <2>2, <2>3, <2>4, <2>5, <2>6, <2>7 DEF EvictedAndQuarantined
<1>8. CASE ~(k.streak[d] >= EvictThreshold)
  <2>1. r.buf = k
    BY <1>3, <1>8
  <2>2. k.streak[d] < EvictThreshold
    BY <1>5, <1>8
  <2>3. EvictedAndCounted(b, d, k)
    <3>1. k.conn = [b.conn EXCEPT ![d] = @ - c.len] /\ k.quarantined = b.quarantined
      BY <1>1, <1>2
    <3>2. \A x \in Dev, q \in SegSeq :
            Seg(k, x, q) = IF x = d /\ q = s THEN Without(Seg(b, d, s), c)
                           ELSE Seg(b, x, q)
      BY <1>1, <1>6
    <3> QED
      BY <1>4, <2>2, <3>1, <3>2 DEF EvictedAndCounted
  <2> QED
    BY <1>2, <2>1, <2>2, <2>3
<1> QED
  BY <1>7, <1>8

(* What the device budget's eviction may do.                               *)
LEMMA DevOutcome ==
  ASSUME NEW b, BufOK(b), Charged(b), now \in Nat, NEW d \in Dev,
         NEW r \in EvictOldestInDev(b, d)
  PROVE  /\ BufOK(r.buf) /\ Charged(r.buf)
         /\ \/ r = Untouched(b) /\ Waiting(b, {d}) = {}
            \/ EvictedAndCounted(b, d, r.buf)
            \/ EvictedAndQuarantined(b, d, r.buf)
<1>1. CASE Waiting(b, {d}) = {}
  BY <1>1 DEF EvictOldestInDev, Untouched
<1>2. CASE Waiting(b, {d}) # {}
  <2>1. PICK w \in Oldest(b, {d}) : r = EvictFromDev(b, w)
    BY <1>2 DEF EvictOldestInDev
  <2>2. w \in Waiting(b, {d})
    BY DEF Oldest
  <2>3. w.dev = d /\ w.seq \in SegSeq /\ w.chunk \in Seg(b, d, w.seq).pend
    BY <2>2, WaitingType
  <2> QED
    BY <2>1, <2>3, EvictFromDevOutcome
<1> QED
  BY <1>1, <1>2

(* Some device lost one chunk, and nothing else changed.                   *)
EvictedAnywhere(b, r) ==
  /\ r.quarantined = b.quarantined /\ r.streak = b.streak /\ r.window = b.window
  /\ \E d \in Dev, s \in SegSeq : \E c \in Seg(b, d, s).pend :
       /\ r.conn = [b.conn EXCEPT ![d] = @ - c.len]
       /\ \A x \in Dev, q \in SegSeq :
            Seg(r, x, q) = IF x = d /\ q = s THEN Without(Seg(b, d, s), c)
                           ELSE Seg(b, x, q)

(* What the global budget's eviction may do: its victim is quarantined, or *)
(* no quarantined device has a chunk left.                                 *)
LEMMA GlobalOutcome ==
  ASSUME NEW b, BufOK(b), Charged(b), NEW r \in EvictOldestGlobal(b)
  PROVE  /\ BufOK(r.buf) /\ Charged(r.buf)
         /\ \/ r = Untouched(b)
            \/ /\ EvictedAnywhere(b, r.buf)
               /\ \A ev \in r.ev : ev.dev \in b.quarantined \/ Waiting(b, b.quarantined) = {}
<1>1. CASE r = Untouched(b)
  BY <1>1 DEF Untouched
<1>2. CASE r # Untouched(b)
  <2>1. PICK w \in GlobalVictims(b) :
               r = [buf |-> RemoveChunk(b, w.dev, w.seq, w.chunk), ev |-> {EvictEvent(w)}]
    BY <1>2 DEF EvictOldestGlobal
  <2>2. \E D \in SUBSET Dev :
          /\ w \in Waiting(b, D)
          /\ D = b.quarantined \/ Waiting(b, b.quarantined) = {}
    BY DEF GlobalVictims, Oldest, BufOK
  <2>3. /\ w.dev \in Dev /\ w.seq \in SegSeq
        /\ w.chunk \in Seg(b, w.dev, w.seq).pend
        /\ w.dev \in b.quarantined \/ Waiting(b, b.quarantined) = {}
    BY <2>2, WaitingType
  <2> DEFINE a == RemoveChunk(b, w.dev, w.seq, w.chunk)
  <2>4. BufOK(a) /\ Charged(a) /\ EvictedAnywhere(b, a)
    <3> DEFINE d == w.dev
               s == w.seq
               c == w.chunk
    <3>1. BufOK(a)
      BY <2>3, RemoveChunkEvicts DEF Evicted
    <3>2. /\ Charged(a)
          /\ a.conn = [b.conn EXCEPT ![d] = @ - c.len]
          /\ a.quarantined = b.quarantined /\ a.streak = b.streak /\ a.window = b.window
          /\ \A x \in Dev, q \in SegSeq :
               Seg(a, x, q) = IF x = d /\ q = s THEN Without(Seg(b, d, s), c)
                              ELSE Seg(b, x, q)
      BY <2>3, RemoveKeepsCharged
    <3>3. d \in Dev /\ s \in SegSeq /\ c \in Seg(b, d, s).pend
      BY <2>3
    <3> HIDE DEF a, d, s, c
    <3> QED
      BY <3>1, <3>2, <3>3 DEF EvictedAnywhere
  <2>5. r.buf = a /\ \A ev \in r.ev : ev.dev = w.dev
    BY <2>1 DEF EvictEvent, Event
  <2> QED
    BY <2>3, <2>4, <2>5
<1> QED
  BY <1>1, <1>2

-----------------------------------------------------------------------------
(* A chunk's way through place_chunk: after the device budget r1, after    *)
(* the global budget r2, then inserted and drained.                        *)
Stages(d, s, len, c, r1, r2, D, e) ==
  LET n == Seg(buf, d, s).next
      in == Insert(r2.buf, d, s, c)
  IN  /\ c \in Chunk /\ c.off >= n /\ c.len <= len
      /\ r1 \in AfterDevBudget(buf, d, s, c)
      /\ r2 \in AfterGlobalBudget(r1.buf, c)
      /\ D \in SUBSET Seg(in, d, s).pend
      /\ Popped(Seg(in, d, s).pend, n, D, e)
      /\ buf' = Drain(in, d, s, D, e)
      /\ events' = r1.ev \cup r2.ev \cup AppendEvents(d, s, n, e)

(* An accepted chunk goes through these stages, with the part of it that   *)
(* lies ahead of the cursor.                                               *)
LEMMA AcceptStages ==
  ASSUME BufOK(buf), NEW d \in Dev, NEW s \in SegSeq,
         NEW off \in Nat, NEW len \in Nat \ {0}, AcceptChunk(d, s, off, len)
  PROVE  \E c, r1, r2, D, e : Stages(d, s, len, c, r1, r2, D, e)
<1> DEFINE n == Seg(buf, d, s).next
           c == NewPart(off, len, n)
<1>1. n \in Nat
  BY DEF BufOK, Seg, SegmentBuf
<1>2. off + len > n
  BY DEF AcceptChunk
<1>3. c \in Chunk /\ c.off >= n /\ c.len <= len
  BY <1>1, <1>2, NewPartType
<1>4. \E r1 \in AfterDevBudget(buf, d, s, c) :
      \E r2 \in AfterGlobalBudget(r1.buf, c) :
      \E D \in SUBSET Seg(Insert(r2.buf, d, s, c), d, s).pend : \E e :
         /\ Popped(Seg(Insert(r2.buf, d, s, c), d, s).pend, n, D, e)
         /\ buf' = Drain(Insert(r2.buf, d, s, c), d, s, D, e)
         /\ events' = r1.ev \cup r2.ev \cup AppendEvents(d, s, n, e)
  BY DEF AcceptChunk
<1> HIDE DEF c
<1> QED
  BY <1>3, <1>4 DEF Stages

(* The first stage.                                                        *)
LEMMA AfterDevOutcome ==
  ASSUME NEW b, BufOK(b), Charged(b), now \in Nat, NEW d \in Dev, NEW s \in SegSeq,
         NEW c, NEW r \in AfterDevBudget(b, d, s, c)
  PROVE  /\ BufOK(r.buf) /\ Charged(r.buf)
         /\ \/ /\ r = Untouched(b)
               /\ \/ ~(c.off > Seg(b, d, s).next /\ b.conn[d] + c.len > L25Cap)
                  \/ Waiting(b, {d}) = {}
            \/ EvictedAndCounted(b, d, r.buf)
            \/ EvictedAndQuarantined(b, d, r.buf)
<1>1. CASE c.off > Seg(b, d, s).next /\ b.conn[d] + c.len > L25Cap
  <2>1. r \in EvictOldestInDev(b, d)
    BY <1>1 DEF AfterDevBudget
  <2> QED
    BY <2>1, DevOutcome
<1>2. CASE ~(c.off > Seg(b, d, s).next /\ b.conn[d] + c.len > L25Cap)
  BY <1>2 DEF AfterDevBudget, Untouched
<1> QED
  BY <1>1, <1>2

(* The second stage.                                                       *)
LEMMA AfterGlobalOutcome ==
  ASSUME NEW b, BufOK(b), Charged(b), NEW c, NEW r \in AfterGlobalBudget(b, c)
  PROVE  /\ BufOK(r.buf) /\ Charged(r.buf)
         /\ \/ r = Untouched(b)
            \/ /\ b.global + c.len > L3Cap
               /\ EvictedAnywhere(b, r.buf)
               /\ \A ev \in r.ev : ev.dev \in b.quarantined \/ Waiting(b, b.quarantined) = {}
<1>1. CASE b.global + c.len > L3Cap
  <2>1. r \in EvictOldestGlobal(b)
    BY <1>1 DEF AfterGlobalBudget
  <2> QED
    BY <1>1, <2>1, GlobalOutcome
<1>2. CASE ~(b.global + c.len > L3Cap)
  BY <1>2 DEF AfterGlobalBudget, Untouched
<1> QED
  BY <1>1, <1>2

(* What each stage leaves, and how the last one comes from them.           *)
StageResult(d, s, c, r1, r2, D, e, new) ==
  LET popped == e - Seg(buf, d, s).next
      in == Insert(r2.buf, d, s, c)
  IN  /\ BufOK(r1.buf) /\ Charged(r1.buf)
      /\ BufOK(r2.buf) /\ Charged(r2.buf)
      /\ BufOK(in) /\ Charged(in)
      /\ in.conn = [r2.buf.conn EXCEPT ![d] = @ + c.len]
      /\ \A x \in Dev, q \in SegSeq :
           Seg(in, x, q) = IF x = d /\ q = s THEN With(Seg(r2.buf, d, s), c)
                           ELSE Seg(r2.buf, x, q)
      /\ BufOK(new) /\ Charged(new)
      /\ popped \in Nat /\ popped = Buffered(D)
      /\ new.conn = [in.conn EXCEPT ![d] = @ - popped]
      /\ new.quarantined = r2.buf.quarantined
      /\ new.streak = r2.buf.streak
      /\ new.window = r2.buf.window
      /\ \A x \in Dev, q \in SegSeq :
           Seg(new, x, q) = IF x = d /\ q = s THEN DrainSeg(Seg(in, d, s), D, e)
                            ELSE Seg(in, x, q)

(* The stages keep the invariant, one after the other.                     *)
LEMMA StageFacts ==
  ASSUME BufOK(buf), Charged(buf), now \in Nat, NEW d \in Dev, NEW s \in SegSeq,
         NEW len, NEW c, NEW r1, NEW r2, NEW D, NEW e,
         Stages(d, s, len, c, r1, r2, D, e)
  PROVE  StageResult(d, s, c, r1, r2, D, e, buf')
<1> DEFINE n == Seg(buf, d, s).next
           in == Insert(r2.buf, d, s, c)
<1>1. /\ c \in Chunk
      /\ r1 \in AfterDevBudget(buf, d, s, c)
      /\ r2 \in AfterGlobalBudget(r1.buf, c)
      /\ D \in SUBSET Seg(in, d, s).pend
      /\ Popped(Seg(in, d, s).pend, n, D, e)
      /\ buf' = Drain(in, d, s, D, e)
  BY DEF Stages
<1>2. BufOK(r1.buf) /\ Charged(r1.buf)
  BY <1>1, AfterDevOutcome
<1>3. BufOK(r2.buf) /\ Charged(r2.buf)
  BY <1>1, <1>2, AfterGlobalOutcome
<1>4. Seg(r2.buf, d, s).next = n
  <2>1. Evicted(buf, r1.buf)
    <3>1. r1 \in EvictOldestInDev(buf, d) \/ r1 = Untouched(buf)
      BY <1>1 DEF AfterDevBudget
    <3> QED
      BY <3>1, DevEvictionEvicts, EvictedRefl DEF Untouched
  <2>2. Evicted(r1.buf, r2.buf)
    <3>1. r2 \in EvictOldestGlobal(r1.buf) \/ r2 = Untouched(r1.buf)
      BY <1>1 DEF AfterGlobalBudget
    <3> QED
      BY <1>2, <3>1, GlobalEvictionEvicts, EvictedRefl DEF Untouched
  <2> QED
    BY <2>1, <2>2 DEF Evicted
<1>5. /\ BufOK(in) /\ Charged(in)
      /\ in.conn = [r2.buf.conn EXCEPT ![d] = @ + c.len]
      /\ in.quarantined = r2.buf.quarantined
      /\ in.streak = r2.buf.streak
      /\ in.window = r2.buf.window
      /\ \A x \in Dev, q \in SegSeq :
           Seg(in, x, q) = IF x = d /\ q = s THEN With(Seg(r2.buf, d, s), c)
                           ELSE Seg(r2.buf, x, q)
  BY <1>1, <1>3, InsertKeepsCharged
<1> HIDE DEF in
<1>6. Seg(in, d, s).next = n
  <2>1. Seg(r2.buf, d, s) \in SegmentBuf
    BY <1>3, SoundParts
  <2> QED
    BY <1>1, <1>4, <1>5, <2>1, WithType
<1>7. Popped(Seg(in, d, s).pend, Seg(in, d, s).next, D, e)
  BY <1>1, <1>6
<1>8. D \in SUBSET Seg(in, d, s).pend /\ BufOK(in) /\ Charged(in)
  BY <1>1, <1>5
<1>9. DrainsTo(in, d, s, D, e, buf')
  BY <1>1, <1>7, <1>8, DrainKeepsCharged
<1>10. LET popped == e - n
      IN  /\ BufOK(buf') /\ Charged(buf')
          /\ popped \in Nat /\ popped = Buffered(D)
          /\ buf'.conn = [in.conn EXCEPT ![d] = @ - popped]
          /\ buf'.quarantined = in.quarantined
          /\ buf'.streak = in.streak
          /\ buf'.window = in.window
          /\ \A x \in Dev, q \in SegSeq :
               Seg(buf', x, q) = IF x = d /\ q = s THEN DrainSeg(Seg(in, d, s), D, e)
                                 ELSE Seg(in, x, q)
  BY <1>6, <1>9 DEF DrainsTo
<1> QED
  BY <1>2, <1>3, <1>5, <1>10 DEF StageResult, in

-----------------------------------------------------------------------------
(* The segment s of d was emptied and its charge given back.               *)
Dropped(b, d, s, r) ==
  /\ r.conn = [b.conn EXCEPT ![d] = @ - Seg(b, d, s).bytes]
  /\ r.quarantined = b.quarantined
  /\ r.streak = b.streak
  /\ r.window = b.window
  /\ Seg(r, d, s).pend = {} /\ Seg(r, d, s).bytes = 0
  /\ \A x \in Dev, q \in SegSeq : x # d \/ q # s => Seg(r, x, q) = Seg(b, x, q)

(* A segment over its cap is emptied.                                      *)
LEMMA FailDrops ==
  ASSUME BufOK(buf), Charged(buf), NEW d \in Dev, NEW s \in SegSeq, NEW off, NEW len,
         FailSegment(d, s, off, len)
  PROVE  BufOK(buf') /\ Charged(buf') /\ Dropped(buf, d, s, buf')
<1> DEFINE p == DropPending(buf, d, s)
           seg == Failed(p.segs[d][s])
<1>1. buf' = [p EXCEPT !.segs[d][s] = seg]
  BY DEF FailSegment
<1>2. p.segs[d][s] = Emptied(Seg(buf, d, s))
  BY DEF DropPending, BufOK, Seg
<1>3. seg \in SegmentBuf /\ seg.pend = {} /\ seg.bytes = 0
  <2> DEFINE old == Seg(buf, d, s)
             e == Emptied(old)
  <2>1. old \in SegmentBuf
    BY DEF BufOK, Seg
  <2>2. {} \in SUBSET Chunk /\ 0 \in Int
    OBVIOUS
  <2> HIDE DEF old
  <2>3. e \in SegmentBuf /\ e.pend = {} /\ e.bytes = 0
    BY <2>1, <2>2 DEF Emptied, SegmentBuf
  <2>4. seg = Failed(e)
    BY <1>2 DEF old
  <2> HIDE DEF e, seg
  <2>5. (IF e.state = "Absent" THEN e.state ELSE "Error") \in SegmentState
    BY <2>3 DEF SegmentBuf, SegmentState
  <2> QED
    BY <2>3, <2>4, <2>5 DEF Failed, SegmentBuf
<1> HIDE DEF seg
<1>4. DropPending(buf, d, s) = p
  OBVIOUS
<1> DEFINE r == [DropPending(buf, d, s) EXCEPT !.segs[d][s] = seg]
<1>5. /\ Charged(r) /\ BufOK(r)
      /\ r.conn = [buf.conn EXCEPT ![d] = @ - Seg(buf, d, s).bytes]
      /\ r.quarantined = buf.quarantined
      /\ r.streak = buf.streak
      /\ r.window = buf.window
      /\ \A x \in Dev, q \in SegSeq :
           Seg(r, x, q) = IF x = d /\ q = s THEN seg ELSE Seg(buf, x, q)
  BY <1>3, DropKeepsCharged
<1>6. buf' = r
  BY <1>1
<1> HIDE DEF r
<1> QED
  BY <1>3, <1>5, <1>6 DEF Dropped

(* A segment sealed complete is emptied.                                   *)
LEMMA ReleaseDrops ==
  ASSUME BufOK(buf), Charged(buf), NEW d \in Dev, NEW s \in SegSeq,
         buf' = Release(buf, d, s)
  PROVE  BufOK(buf') /\ Charged(buf') /\ Dropped(buf, d, s, buf')
<1> DEFINE r == [DropPending(buf, d, s) EXCEPT !.segs[d][s] = EmptySeg]
<1>1. EmptySeg \in SegmentBuf /\ EmptySeg.pend = {} /\ EmptySeg.bytes = 0
  BY EmptySegType
<1>2. /\ Charged(r) /\ BufOK(r)
      /\ r.conn = [buf.conn EXCEPT ![d] = @ - Seg(buf, d, s).bytes]
      /\ r.quarantined = buf.quarantined
      /\ r.streak = buf.streak
      /\ r.window = buf.window
      /\ \A x \in Dev, q \in SegSeq :
           Seg(r, x, q) = IF x = d /\ q = s THEN EmptySeg ELSE Seg(buf, x, q)
  BY <1>1, DropKeepsCharged
<1>3. buf' = r
  BY DEF Release
<1> HIDE DEF r
<1> QED
  BY <1>1, <1>2, <1>3 DEF Dropped

(* Emptying a segment makes no device hold or be charged more.             *)
LEMMA DroppedShrinks ==
  ASSUME NEW b, BufOK(b), Charged(b), NEW d \in Dev, NEW s \in SegSeq, NEW r,
         Dropped(b, d, s, r), NEW x \in Dev
  PROVE  /\ r.conn[x] <= b.conn[x]
         /\ \A q \in SegSeq : Seg(r, x, q).pend \subseteq Seg(b, x, q).pend
<1>1. Seg(b, d, s).bytes \in Nat
  BY ChargeBounds
<1>2. b.conn \in [Dev -> Int]
  BY DEF BufOK
<1>3. r.conn[x] = IF x = d THEN b.conn[d] - Seg(b, d, s).bytes ELSE b.conn[x]
  BY <1>2 DEF Dropped
<1>4. b.conn[x] \in Int /\ b.conn[d] \in Int
  BY <1>2
<1>5. r.conn[x] <= b.conn[x]
  BY <1>1, <1>3, <1>4
<1> QED
  BY <1>5 DEF Dropped

(* The device budget leaves the other devices alone.                       *)
LEMMA DevOthers ==
  ASSUME NEW b, BufOK(b), NEW d \in Dev, NEW r,
         r = b \/ EvictedAndCounted(b, d, r) \/ EvictedAndQuarantined(b, d, r),
         NEW x \in Dev, x # d
  PROVE  /\ r.conn[x] = b.conn[x]
         /\ \A q \in SegSeq : Seg(r, x, q) = Seg(b, x, q)
         /\ x \in r.quarantined <=> x \in b.quarantined
         /\ r.streak[x] = b.streak[x]
         /\ r.window[x] = b.window[x]
<1>1. b.conn \in [Dev -> Int] /\ b.streak \in [Dev -> Nat] /\ b.window \in [Dev -> Nat]
  BY DEF BufOK
<1>2. CASE EvictedAndCounted(b, d, r)
  BY <1>1, <1>2 DEF EvictedAndCounted, Counted
<1>3. CASE EvictedAndQuarantined(b, d, r)
  BY <1>1, <1>3 DEF EvictedAndQuarantined
<1> QED
  BY <1>2, <1>3

(* An accepted chunk of one device never costs another more than the       *)
(* chunks it loses: what the others hold and are charged only shrinks, and *)
(* their eviction counts stay.                                             *)
LEMMA StageOthers ==
  ASSUME BufOK(buf), Charged(buf), now \in Nat, NEW d \in Dev, NEW s \in SegSeq,
         NEW len, NEW c, NEW r1, NEW r2, NEW D, NEW e,
         Stages(d, s, len, c, r1, r2, D, e), NEW x \in Dev, x # d
  PROVE  /\ buf'.conn[x] <= buf.conn[x]
         /\ \A q \in SegSeq : Seg(buf', x, q).pend \subseteq Seg(buf, x, q).pend
         /\ x \in buf'.quarantined <=> x \in buf.quarantined
         /\ buf'.streak[x] = buf.streak[x]
         /\ buf'.window[x] = buf.window[x]
<1>1. /\ r1 \in AfterDevBudget(buf, d, s, c)
      /\ r2 \in AfterGlobalBudget(r1.buf, c)
  BY DEF Stages
<1> DEFINE b1 == r1.buf
           b2 == r2.buf
<1>2. StageResult(d, s, c, r1, r2, D, e, buf')
  BY StageFacts
<1>2a. BufOK(b1) /\ Charged(b1) /\ BufOK(b2) /\ BufOK(buf')
  BY <1>2 DEF StageResult
<1>3. /\ b1.conn[x] = buf.conn[x]
      /\ \A q \in SegSeq : Seg(b1, x, q) = Seg(buf, x, q)
      /\ x \in b1.quarantined <=> x \in buf.quarantined
      /\ b1.streak[x] = buf.streak[x]
      /\ b1.window[x] = buf.window[x]
  <2>1. \/ b1 = buf
        \/ EvictedAndCounted(buf, d, b1)
        \/ EvictedAndQuarantined(buf, d, b1)
    <3>1. \/ r1 = Untouched(buf)
          \/ EvictedAndCounted(buf, d, b1)
          \/ EvictedAndQuarantined(buf, d, b1)
      BY <1>1, AfterDevOutcome
    <3> QED
      BY <3>1 DEF Untouched
  <2> HIDE DEF b1
  <2> QED
    BY <2>1, DevOthers
<1>4. /\ b2.conn[x] <= b1.conn[x]
      /\ \A q \in SegSeq : Seg(b2, x, q).pend \subseteq Seg(b1, x, q).pend
      /\ b2.quarantined = b1.quarantined /\ b2.streak = b1.streak /\ b2.window = b1.window
  <2>1. b2 = b1 \/ EvictedAnywhere(b1, b2)
    BY <1>1, <1>2a, AfterGlobalOutcome DEF Untouched
  <2>2. b1.conn \in [Dev -> Int]
    BY <1>2a DEF BufOK
  <2>3. CASE EvictedAnywhere(b1, b2)
    <3> HIDE DEF b1, b2
    <3>1. PICK y \in Dev, t \in SegSeq : \E v \in Seg(b1, y, t).pend :
             /\ b2.conn = [b1.conn EXCEPT ![y] = @ - v.len]
             /\ \A z \in Dev, q \in SegSeq :
                  Seg(b2, z, q) = IF z = y /\ q = t THEN Without(Seg(b1, y, t), v)
                                  ELSE Seg(b1, z, q)
      BY <2>3 DEF EvictedAnywhere
    <3>2. PICK v \in Seg(b1, y, t).pend :
             /\ b2.conn = [b1.conn EXCEPT ![y] = @ - v.len]
             /\ \A z \in Dev, q \in SegSeq :
                  Seg(b2, z, q) = IF z = y /\ q = t THEN Without(Seg(b1, y, t), v)
                                  ELSE Seg(b1, z, q)
      BY <3>1
    <3>3. Seg(b1, y, t) \in SegmentBuf
      BY <1>2a, SoundParts
    <3>4. v.len \in Nat
      BY <3>3 DEF SegmentBuf, Chunk
    <3>5. b2.conn[x] = IF x = y THEN b1.conn[y] - v.len ELSE b1.conn[x]
      BY <2>2, <3>2
    <3>6. b1.conn[x] \in Int /\ b1.conn[y] \in Int
      BY <2>2
    <3>7. b2.conn[x] <= b1.conn[x]
      BY <3>4, <3>5, <3>6
    <3>8. \A q \in SegSeq : Seg(b2, x, q).pend \subseteq Seg(b1, x, q).pend
      BY <3>2, <3>3, WithoutType
    <3> QED
      BY <2>3, <3>7, <3>8 DEF EvictedAnywhere
  <2>4. CASE b2 = b1
    BY <2>2, <2>4
  <2> QED
    BY <2>1, <2>3, <2>4
<1>5. /\ buf'.conn[x] = b2.conn[x]
      /\ \A q \in SegSeq : Seg(buf', x, q) = Seg(b2, x, q)
      /\ buf'.quarantined = b2.quarantined
      /\ buf'.streak = b2.streak
      /\ buf'.window = b2.window
  <2> DEFINE in == Insert(r2.buf, d, s, c)
             popped == e - Seg(buf, d, s).next
  <2>1. /\ BufOK(in)
        /\ in.conn = [b2.conn EXCEPT ![d] = @ + c.len]
        /\ \A y \in Dev, q \in SegSeq :
             Seg(in, y, q) = IF y = d /\ q = s THEN With(Seg(b2, d, s), c)
                             ELSE Seg(b2, y, q)
        /\ buf'.conn = [in.conn EXCEPT ![d] = @ - popped]
        /\ buf'.quarantined = b2.quarantined
        /\ buf'.streak = b2.streak
        /\ buf'.window = b2.window
        /\ \A y \in Dev, q \in SegSeq :
             Seg(buf', y, q) = IF y = d /\ q = s THEN DrainSeg(Seg(in, d, s), D, e)
                               ELSE Seg(in, y, q)
    BY <1>2 DEF StageResult
  <2>2. b2.conn \in [Dev -> Int]
    BY <1>2a DEF BufOK
  <2> HIDE DEF in, b2, popped
  <2> QED
    BY <2>1, <2>2
<1> HIDE DEF b1, b2
<1>6. buf.conn[x] \in Int
  BY DEF BufOK
<1> QED
  BY <1>3, <1>4, <1>5, <1>6

-----------------------------------------------------------------------------
(* The call reported no eviction.                                          *)
NothingEvicted == \A ev \in events' : ev.kind # "Evict"

(* A call that leaves the buffer as it is.                                 *)
KeepsBuffer == buf' = buf /\ NothingEvicted

(* A call that empties a segment.                                          *)
Drops(d, s) == Dropped(buf, d, s, buf') /\ BufOK(buf') /\ Charged(buf') /\ NothingEvicted
               /\ now' = now

(* A call that accepts a chunk of a device not quarantined.                *)
Accepts(d, s) ==
  /\ ~IsQuarantined(d)
  /\ now' = now
  /\ \E len \in 1 .. MaxLen : \E c, r1, r2, D, e : Stages(d, s, len, c, r1, r2, D, e)

(* Every step is one of these.                                             *)
LEMMA StepKinds ==
  ASSUME BufOK(buf), Charged(buf), [Next]_vars
  PROVE  \/ UNCHANGED vars
         \/ KeepsBuffer
         \/ \E d \in Dev, s \in SegSeq : Drops(d, s) \/ Accepts(d, s)
<1>1. CASE UNCHANGED vars
  BY <1>1
<1>2. ASSUME NEW d \in Dev, NEW s \in SegSeq, NEW off \in 0 .. SegSize - 1,
             NEW len \in 1 .. MaxLen, PlaceChunk(d, s, off, len)
      PROVE  KeepsBuffer \/ Drops(d, s) \/ Accepts(d, s)
  <2>1. CASE DropQuarantined(d, s, off, len) \/ DropDuplicate(d, s, off, len)
    BY <2>1 DEF DropQuarantined, DropDuplicate, KeepsBuffer, NothingEvicted, Event
  <2>2. CASE FailSegment(d, s, off, len)
    <3>1. NothingEvicted /\ now' = now
      BY <2>2 DEF FailSegment, NothingEvicted, Event
    <3> QED
      BY <2>2, <3>1, FailDrops DEF Drops
  <2>3. CASE AcceptChunk(d, s, off, len)
    <3>1. off \in Nat /\ len \in Nat \ {0}
      BY SizesAssumption
    <3>2. \E c, r1, r2, D, e : Stages(d, s, len, c, r1, r2, D, e)
      BY <2>3, <3>1, AcceptStages
    <3>3. ~IsQuarantined(d) /\ now' = now
      BY <2>3 DEF AcceptChunk
    <3> QED
      BY <3>2, <3>3 DEF Accepts
  <2> QED
    BY <1>2, <2>1, <2>2, <2>3 DEF PlaceChunk
<1>3. ASSUME NEW d \in Dev, NEW s \in SegSeq, Seal(d, s, SegSize)
      PROVE  KeepsBuffer \/ Drops(d, s)
  <2>1. NothingEvicted /\ now' = now
    BY <1>3 DEF Seal, SealUnknown, SealComplete, SealWithGap, SkippedEvents, Event,
                NothingEvicted
  <2>2. buf' = buf \/ buf' = Release(buf, d, s)
    BY <1>3 DEF Seal, SealUnknown, SealComplete, SealWithGap
  <2> QED
    BY <2>1, <2>2, ReleaseDrops DEF KeepsBuffer, Drops
<1>4. ASSUME NEW t \in Times, SetNow(t)
      PROVE  KeepsBuffer
  BY <1>4 DEF SetNow, KeepsBuffer, NothingEvicted
<1> QED
  BY <1>1, <1>2, <1>3, <1>4 DEF Next

(* No count stands at the threshold: it starts again from 0 there.         *)
BelowThreshold == \A d \in Dev : buf.streak[d] = 0 \/ buf.streak[d] < EvictThreshold

(* What an accepted chunk does to its own device: it stays below the       *)
(* threshold, and if it is quarantined its count was one short and its     *)
(* window had not passed.                                                  *)
LEMMA StageOwn ==
  ASSUME BufOK(buf), Charged(buf), now \in Nat, BelowThreshold,
         NEW d \in Dev, NEW s \in SegSeq, ~IsQuarantined(d),
         NEW len, NEW c, NEW r1, NEW r2, NEW D, NEW e,
         Stages(d, s, len, c, r1, r2, D, e)
  PROVE  /\ buf'.streak[d] = 0 \/ buf'.streak[d] < EvictThreshold
         /\ d \in buf'.quarantined =>
              (EvictThreshold > 1 => /\ buf.streak[d] = EvictThreshold - 1
                                     /\ now <= buf.window[d] + EvictWindow)
<1> DEFINE b1 == r1.buf
           b2 == r2.buf
<1>1. /\ r1 \in AfterDevBudget(buf, d, s, c)
      /\ r2 \in AfterGlobalBudget(r1.buf, c)
  BY DEF Stages
<1>2. StageResult(d, s, c, r1, r2, D, e, buf')
  BY StageFacts
<1>3. BufOK(b1) /\ Charged(b1)
  BY <1>2 DEF StageResult
<1>4. b2 = b1 \/ EvictedAnywhere(b1, b2)
  BY <1>1, <1>3, AfterGlobalOutcome DEF Untouched
<1>5. buf'.streak[d] = b1.streak[d] /\ buf'.quarantined = b1.quarantined
  <2>1. buf'.streak = b2.streak /\ buf'.quarantined = b2.quarantined
    BY <1>2 DEF StageResult
  <2> QED
    BY <1>4, <2>1 DEF EvictedAnywhere
<1>6. \/ b1 = buf
      \/ EvictedAndCounted(buf, d, b1)
      \/ EvictedAndQuarantined(buf, d, b1)
  <2>1. \/ r1 = Untouched(buf)
        \/ EvictedAndCounted(buf, d, b1)
        \/ EvictedAndQuarantined(buf, d, b1)
    BY <1>1, AfterDevOutcome
  <2> QED
    BY <2>1 DEF Untouched
<1>7. /\ buf.streak \in [Dev -> Nat] /\ buf.streak[d] \in Nat
      /\ buf.window[d] \in Nat /\ EvictThreshold \in Nat /\ EvictWindow \in Nat
  BY BudgetsAssumption DEF BufOK
<1> HIDE DEF b1
<1>8. b1.streak[d] = 0 \/ b1.streak[d] < EvictThreshold
  BY <1>6, <1>7 DEF BelowThreshold, EvictedAndCounted, EvictedAndQuarantined
<1>9. d \in b1.quarantined => EvictedAndQuarantined(buf, d, b1)
  BY <1>6 DEF IsQuarantined, EvictedAndCounted
<1>10. ASSUME EvictedAndQuarantined(buf, d, b1), EvictThreshold > 1
       PROVE  buf.streak[d] = EvictThreshold - 1 /\ now <= buf.window[d] + EvictWindow
  <2>1. /\ buf.streak[d] # 0 /\ buf.streak[d] + 1 >= EvictThreshold
        /\ now - buf.window[d] <= EvictWindow
    BY <1>10 DEF EvictedAndQuarantined
  <2>2. buf.streak[d] < EvictThreshold
    BY <2>1 DEF BelowThreshold
  <2> QED
    BY <1>7, <2>1, <2>2
<1> QED
  BY <1>5, <1>8, <1>9, <1>10

(* The inductive invariant of the budgets. Agreement of the counters is    *)
(* not inductive alone: a drain needs the chunks to lie at distinct        *)
(* offsets and the segment to be charged for all it holds, or it could     *)
(* take off more than is there.                                            *)
AccountingInv == Inv /\ Charged(buf) /\ BelowThreshold

(* It holds of the empty engine.                                           *)
LEMMA InitAccounting == Init => AccountingInv
<1> SUFFICES ASSUME Init PROVE AccountingInv
  OBVIOUS
<1>1. Inv
  BY InitInv
<1>2. \A d \in Dev, s \in SegSeq : Seg(buf, d, s) = EmptySeg
  BY DEF Init, Seg
<1>3. /\ buf.conn = [d \in Dev |-> 0] /\ buf.global = 0
      /\ buf.streak = [d \in Dev |-> 0]
  BY DEF Init
<1>4. \A d \in Dev, s \in SegSeq : Sound(Seg(buf, d, s))
  <2>1. Chunks({}) /\ Distinct({})
    BY FS_EmptySet DEF Chunks, Distinct
  <2> QED
    BY <1>2, <2>1, EmptySegType, BufferedNone DEF Sound
<1>5. \A d \in Dev : buf.conn[d] = DevBytes(buf, d)
  <2> SUFFICES ASSUME NEW d \in Dev PROVE buf.conn[d] = DevBytes(buf, d)
    OBVIOUS
  <2>1. \A s \in SegSeq : Charges(buf, d)[s] = 0
    BY <1>2, EmptySegType DEF Charges
  <2>2. SumFunctionOnSet(Charges(buf, d), SegSeq) = 0
    BY <2>1, SegSeqFinite, SumZero
  <2> QED
    BY <1>3, <2>2 DEF DevBytes
<1>6. buf.global = SumFunctionOnSet(buf.conn, Dev)
  <2>1. \A d \in Dev : buf.conn[d] = 0
    BY <1>3
  <2> QED
    BY <1>3, <2>1, DevicesAssumption, SumZero
<1>7. BelowThreshold
  BY <1>3 DEF BelowThreshold
<1> QED
  BY <1>1, <1>4, <1>5, <1>6, <1>7 DEF AccountingInv, Charged

(* Every call keeps it.                                                    *)
LEMMA NextAccounting == AccountingInv /\ [Next]_vars => AccountingInv'
<1> SUFFICES ASSUME AccountingInv, [Next]_vars PROVE AccountingInv'
  OBVIOUS
<1>1. /\ Inv' /\ BufOK(buf) /\ Charged(buf) /\ now \in Nat /\ BelowThreshold
      /\ BufOK(buf')
  BY NextInv DEF AccountingInv, Inv, TypeOK
<1>2. CASE buf' = buf
  BY <1>1, <1>2 DEF AccountingInv, Charged, BelowThreshold, Seg, DevBytes, Charges
<1>3. ASSUME NEW d \in Dev, NEW s \in SegSeq, Drops(d, s)
      PROVE  AccountingInv'
  <2>1. Charged(buf') /\ buf'.streak = buf.streak
    BY <1>3 DEF Drops, Dropped
  <2>2. BelowThreshold'
    BY <1>1, <2>1 DEF BelowThreshold
  <2> QED
    BY <1>1, <2>1, <2>2 DEF AccountingInv, Charged, DevBytes, Charges
<1>4. ASSUME NEW d \in Dev, NEW s \in SegSeq, Accepts(d, s)
      PROVE  AccountingInv'
  <2>1. PICK len, c, r1, r2, D, e : Stages(d, s, len, c, r1, r2, D, e)
    BY <1>4 DEF Accepts
  <2>2. ~IsQuarantined(d)
    BY <1>4 DEF Accepts
  <2>3. Charged(buf')
    BY <1>1, <2>1, StageFacts DEF StageResult
  <2>4. ASSUME NEW x \in Dev PROVE buf'.streak[x] = 0 \/ buf'.streak[x] < EvictThreshold
    <3>1. CASE x = d
      BY <1>1, <2>1, <2>2, <3>1, StageOwn
    <3>2. CASE x # d
      BY <1>1, <2>1, <3>2, StageOthers DEF BelowThreshold
    <3> QED
      BY <3>1, <3>2
  <2> QED
    BY <1>1, <2>3, <2>4 DEF AccountingInv, Charged, BelowThreshold, DevBytes, Charges
<1> QED
  BY <1>1, <1>2, <1>3, <1>4, StepKinds DEF vars, KeepsBuffer

(* So it always holds.                                                     *)
LEMMA SpecAccounting == Spec => []AccountingInv
BY InitAccounting, NextAccounting, PTL DEF Spec

(* The three budgets' counters agree with each other and cover what really *)
(* waits, so that no subtraction of place_chunk, of a drain or of an       *)
(* eviction ever underflows a u64.                                         *)
THEOREM AccountingTheorem == Spec => []AccountingConsistent
<1>1. AccountingInv => AccountingConsistent
  <2> SUFFICES ASSUME AccountingInv PROVE AccountingConsistent
    OBVIOUS
  <2>1. BufOK(buf) /\ Charged(buf)
    BY DEF AccountingInv, Inv, TypeOK
  <2>2. \A d \in Dev : buf.conn[d] = DevBytes(buf, d) /\ buf.conn[d] \in Int
    BY <2>1 DEF Charged, BufOK
  <2> DEFINE f == buf.conn
             g == [d \in Dev |-> DevBytes(buf, d)]
  <2>3. \A d \in Dev : f[d] \in Int /\ g[d] = f[d]
    BY <2>2
  <2>4. buf.global = SumFunctionOnSet(f, Dev)
    BY <2>1 DEF Charged
  <2> HIDE DEF f, g
  <2>5. SumFunctionOnSet(g, Dev) = SumFunctionOnSet(f, Dev)
    BY <2>3, DevicesAssumption, SumSame
  <2>6. ASSUME NEW d \in Dev, NEW s \in SegSeq
        PROVE  Seg(buf, d, s).bytes >= BufferedBytes(Seg(buf, d, s))
    <3>1. /\ BufferedBytes(Seg(buf, d, s)) = Buffered(Seg(buf, d, s).pend)
          /\ Buffered(Seg(buf, d, s).pend) \in Nat /\ Seg(buf, d, s).bytes \in Int
          /\ Sound(Seg(buf, d, s))
      BY <2>1, SoundParts DEF BufferedBytes, Buffered
    <3> QED
      BY <3>1 DEF Sound
  <2> QED
    BY <2>2, <2>4, <2>5, <2>6 DEF AccountingConsistent, g
<1> QED
  BY <1>1, SpecAccounting, PTL

-----------------------------------------------------------------------------
(* The step that QuarantineOnlyShrinks is about.                           *)
ShrinkStep ==
  \A d \in buf.quarantined :
    /\ d \in buf'.quarantined
    /\ buf'.conn[d] <= buf.conn[d]
    /\ \A s \in SegSeq : Seg(buf', d, s).pend \subseteq Seg(buf, d, s).pend

(* The step that QuarantineNeedsBurst is about.                            *)
BurstStep ==
  \A d \in buf'.quarantined \ buf.quarantined :
    EvictThreshold > 1 => /\ buf.streak[d] = EvictThreshold - 1
                          /\ now <= buf.window[d] + EvictWindow

(* A call that leaves the buffer moves the clock forward at most.          *)
LEMMA ClockOnly ==
  ASSUME [Next]_vars, KeepsBuffer
  PROVE  buf' = buf /\ (now' = now \/ now' > now)
<1>1. ASSUME NEW d \in Dev, NEW s \in SegSeq, NEW off, NEW len, PlaceChunk(d, s, off, len)
      PROVE  now' = now
  BY <1>1 DEF PlaceChunk, DropQuarantined, DropDuplicate, FailSegment, AcceptChunk
<1>2. ASSUME NEW d \in Dev, NEW s \in SegSeq, Seal(d, s, SegSize)
      PROVE  now' = now
  BY <1>2 DEF Seal, SealUnknown, SealComplete, SealWithGap
<1>3. ASSUME NEW t \in Times, SetNow(t)
      PROVE  now' > now
  BY <1>3 DEF SetNow
<1> QED
  BY <1>1, <1>2, <1>3 DEF Next, KeepsBuffer, vars

(* Every step of the engine is of both kinds.                              *)
LEMMA QuarantineSteps ==
  ASSUME AccountingInv, [Next]_vars
  PROVE  ShrinkStep /\ BurstStep
<1>1. /\ BufOK(buf) /\ Charged(buf) /\ now \in Nat /\ BelowThreshold /\ BufOK(buf')
  BY NextInv DEF AccountingInv, Inv, TypeOK
<1>2. CASE buf' = buf
  BY <1>1, <1>2 DEF BufOK, ShrinkStep, BurstStep, Seg
<1>3. ASSUME NEW d \in Dev, NEW s \in SegSeq, Drops(d, s)
      PROVE  ShrinkStep /\ BurstStep
  <2>1. Dropped(buf, d, s, buf')
    BY <1>3 DEF Drops
  <2>2. buf'.quarantined = buf.quarantined /\ buf.quarantined \subseteq Dev
    BY <1>1, <2>1 DEF Dropped, BufOK
  <2>3. ASSUME NEW x \in Dev
        PROVE  /\ buf'.conn[x] <= buf.conn[x]
               /\ \A q \in SegSeq : Seg(buf', x, q).pend \subseteq Seg(buf, x, q).pend
    BY <1>1, <2>1, DroppedShrinks
  <2> QED
    BY <2>2, <2>3 DEF ShrinkStep, BurstStep
<1>4. ASSUME NEW d \in Dev, NEW s \in SegSeq, Accepts(d, s)
      PROVE  ShrinkStep /\ BurstStep
  <2>1. PICK len, c, r1, r2, D, e : Stages(d, s, len, c, r1, r2, D, e)
    BY <1>4 DEF Accepts
  <2>2. ~IsQuarantined(d) /\ d \notin buf.quarantined
    BY <1>4 DEF Accepts, IsQuarantined
  <2>3. ASSUME NEW x \in Dev, x # d
        PROVE  /\ buf'.conn[x] <= buf.conn[x]
               /\ \A q \in SegSeq : Seg(buf', x, q).pend \subseteq Seg(buf, x, q).pend
               /\ x \in buf'.quarantined <=> x \in buf.quarantined
    BY <1>1, <2>1, <2>3, StageOthers
  <2>4. d \in buf'.quarantined =>
          (EvictThreshold > 1 => /\ buf.streak[d] = EvictThreshold - 1
                                 /\ now <= buf.window[d] + EvictWindow)
    BY <1>1, <2>1, <2>2, StageOwn
  <2>5. buf.quarantined \subseteq Dev /\ buf'.quarantined \subseteq Dev
    BY <1>1 DEF BufOK
  <2>6. ShrinkStep
    BY <2>2, <2>3, <2>5 DEF ShrinkStep
  <2>7. BurstStep
    BY <2>3, <2>4, <2>5 DEF BurstStep
  <2> QED
    BY <2>6, <2>7
<1> QED
  BY <1>1, <1>2, <1>3, <1>4, StepKinds DEF vars, KeepsBuffer

(* Quarantine is final, and only gives memory back: the device's chunks    *)
(* and its charge only shrink from then on, whichever call comes and       *)
(* whoever makes it.                                                       *)
THEOREM QuarantineTheorem == Spec => QuarantineOnlyShrinks
<1>1. AccountingInv /\ [Next]_vars => [ShrinkStep]_vars
  BY QuarantineSteps
<1>2. Spec => [][ShrinkStep]_vars
  BY <1>1, SpecAccounting, PTL DEF Spec
<1> QED
  BY <1>2 DEF QuarantineOnlyShrinks, ShrinkStep

(* Only a burst quarantines: the evictions that fill a device's count all  *)
(* fall into one window.                                                   *)
THEOREM BurstTheorem == Spec => QuarantineNeedsBurst
<1>1. AccountingInv /\ [Next]_vars => [BurstStep]_vars
  BY QuarantineSteps
<1>2. Spec => [][BurstStep]_vars
  BY <1>1, SpecAccounting, PTL DEF Spec
<1> QED
  BY <1>2 DEF QuarantineNeedsBurst, BurstStep

(* The step that GlobalEvictionIsLastResort is about.                      *)
LastResortStep ==
  \A ev \in events' :
    /\ ev.kind = "Evict"
    /\ buf'.streak = buf.streak /\ buf'.window = buf.window
    /\ buf'.quarantined = buf.quarantined
    => /\ buf.global + MaxLen > L3Cap
       /\ \/ ev.dev \in buf.quarantined
          \/ Waiting(buf, buf.quarantined) = {}

(* A device's own eviction always shows: its count moves, or its window,   *)
(* or it is quarantined.                                                   *)
LEMMA CountShows ==
  ASSUME NEW b, BufOK(b), now \in Nat, NEW d \in Dev, d \notin b.quarantined, NEW r,
         EvictedAndCounted(b, d, r) \/ EvictedAndQuarantined(b, d, r)
  PROVE  ~(r.streak = b.streak /\ r.window = b.window /\ r.quarantined = b.quarantined)
<1>1. /\ b.streak \in [Dev -> Nat] /\ b.window \in [Dev -> Nat]
      /\ b.streak[d] \in Nat /\ b.window[d] \in Nat /\ EvictWindow \in Nat
  BY BudgetsAssumption DEF BufOK
<1>2. CASE EvictedAndQuarantined(b, d, r)
  BY <1>2 DEF EvictedAndQuarantined
<1>3. CASE EvictedAndCounted(b, d, r)
  <2>1. CASE r.streak = [b.streak EXCEPT ![d] = @ + 1]
    <3>1. r.streak[d] = b.streak[d] + 1
      BY <1>1, <2>1
    <3> QED
      BY <1>1, <3>1
  <2>2. CASE /\ b.streak[d] = 0 \/ now - b.window[d] > EvictWindow
             /\ r.streak = [b.streak EXCEPT ![d] = 1]
             /\ r.window = [b.window EXCEPT ![d] = now]
    <3>1. r.streak[d] = 1 /\ r.window[d] = now
      BY <1>1, <2>2
    <3>2. b.streak[d] # 1 \/ b.window[d] # now
      BY <1>1, <2>2
    <3> QED
      BY <3>1, <3>2
  <2> QED
    BY <1>3, <2>1, <2>2 DEF EvictedAndCounted, Counted
<1> QED
  BY <1>2, <1>3

(* Every step of the engine is of that kind.                               *)
LEMMA LastResortSteps ==
  ASSUME AccountingInv, [Next]_vars
  PROVE  LastResortStep \/ UNCHANGED vars
<1>1. BufOK(buf) /\ Charged(buf) /\ now \in Nat
  BY DEF AccountingInv, Inv, TypeOK
<1>2. CASE NothingEvicted
  BY <1>2 DEF NothingEvicted, LastResortStep
<1>3. ASSUME NEW d \in Dev, NEW s \in SegSeq, Accepts(d, s)
      PROVE  LastResortStep
  <2>1. PICK len \in 1 .. MaxLen : \E c, r1, r2, D, e : Stages(d, s, len, c, r1, r2, D, e)
    BY <1>3 DEF Accepts
  <2>2. PICK c, r1, r2, D, e : Stages(d, s, len, c, r1, r2, D, e)
    BY <2>1
  <2>3. /\ c \in Chunk /\ c.len <= len
        /\ r1 \in AfterDevBudget(buf, d, s, c)
        /\ r2 \in AfterGlobalBudget(r1.buf, c)
        /\ events' = r1.ev \cup r2.ev \cup AppendEvents(d, s, Seg(buf, d, s).next, e)
    BY <2>2 DEF Stages
  <2>4. StageResult(d, s, c, r1, r2, D, e, buf')
    BY <1>1, <2>2, StageFacts
  <2>5. /\ BufOK(r1.buf) /\ Charged(r1.buf)
        /\ buf'.streak = r2.buf.streak /\ buf'.window = r2.buf.window
        /\ buf'.quarantined = r2.buf.quarantined
    BY <2>4 DEF StageResult
  <2>6. \/ r2 = Untouched(r1.buf)
        \/ /\ r1.buf.global + c.len > L3Cap
           /\ EvictedAnywhere(r1.buf, r2.buf)
           /\ \A ev \in r2.ev : \/ ev.dev \in r1.buf.quarantined
                                 \/ Waiting(r1.buf, r1.buf.quarantined) = {}
    BY <2>3, <2>5, AfterGlobalOutcome
  <2>7. /\ buf'.streak = r1.buf.streak /\ buf'.window = r1.buf.window
        /\ buf'.quarantined = r1.buf.quarantined
    BY <2>5, <2>6 DEF Untouched, EvictedAnywhere
  <2>8. SUFFICES ASSUME NEW ev \in events', ev.kind = "Evict",
                        /\ buf'.streak = buf.streak /\ buf'.window = buf.window
                        /\ buf'.quarantined = buf.quarantined
                 PROVE  /\ buf.global + MaxLen > L3Cap
                        /\ \/ ev.dev \in buf.quarantined
                           \/ Waiting(buf, buf.quarantined) = {}
    BY DEF LastResortStep
  <2>9. r1 = Untouched(buf)
    <3>1. \/ r1 = Untouched(buf)
          \/ EvictedAndCounted(buf, d, r1.buf)
          \/ EvictedAndQuarantined(buf, d, r1.buf)
      BY <1>1, <2>3, AfterDevOutcome
    <3>2. d \notin buf.quarantined
      BY <1>3 DEF Accepts, IsQuarantined
    <3> QED
      BY <1>1, <2>7, <2>8, <3>1, <3>2, CountShows
  <2>10. r1.buf = buf /\ r1.ev = {}
    BY <2>9 DEF Untouched
  <2>11. ev \in r2.ev
    BY <2>3, <2>8, <2>10 DEF AppendEvents, Event
  <2>12. /\ buf.global + c.len > L3Cap
         /\ \/ ev.dev \in buf.quarantined
            \/ Waiting(buf, buf.quarantined) = {}
    BY <2>6, <2>10, <2>11 DEF Untouched
  <2>13. buf.global \in Nat /\ c.len \in Nat /\ c.len <= MaxLen
         /\ MaxLen \in Nat /\ L3Cap \in Nat
    <3>1. buf.global \in Nat
      BY <1>1, ChargeBounds
    <3>2. MaxLen \in Nat /\ L3Cap \in Nat /\ c.len \in Nat
      BY <2>3, SizesAssumption, BudgetsAssumption DEF Chunk
    <3> QED
      BY <2>3, <3>1, <3>2
  <2> QED
    BY <2>12, <2>13
<1> QED
  BY <1>1, <1>2, <1>3, StepKinds DEF KeepsBuffer, Drops

(* The global budget evicts as a last resort, and takes from quarantined   *)
(* devices while they hold anything.                                       *)
THEOREM LastResortTheorem == Spec => GlobalEvictionIsLastResort
<1>1. AccountingInv /\ [Next]_vars => [LastResortStep]_vars
  BY LastResortSteps
<1>2. Spec => [][LastResortStep]_vars
  BY <1>1, SpecAccounting, PTL DEF Spec
<1> QED
  BY <1>2 DEF GlobalEvictionIsLastResort, LastResortStep

-----------------------------------------------------------------------------
(* What waits in each segment of a device, in bytes.                       *)
Held(b, d) == [s \in SegSeq |-> Buffered(Seg(b, d, s).pend)]
(* What waits for a device, in bytes.                                      *)
Waits(b, d) == SumFunctionOnSet(Held(b, d), SegSeq)

(* Bytes are naturals.                                                     *)
LEMMA HeldType ==
  ASSUME NEW b, BufOK(b), Charged(b), NEW d \in Dev
  PROVE  /\ \A s \in SegSeq : /\ Held(b, d)[s] = Buffered(Seg(b, d, s).pend)
                              /\ Held(b, d)[s] \in Nat
         /\ Waits(b, d) \in Nat
<1>1. \A s \in SegSeq : /\ Held(b, d)[s] = Buffered(Seg(b, d, s).pend)
                        /\ Held(b, d)[s] \in Nat
  BY SoundParts DEF Held
<1>2. Waits(b, d) \in Nat
  BY <1>1, SegSeqFinite, SumNonnegative DEF Waits
<1> QED
  BY <1>1, <1>2

(* A device waits for at least what one of its segments does.              *)
LEMMA WaitsMember ==
  ASSUME NEW b, BufOK(b), Charged(b), NEW d \in Dev, NEW s \in SegSeq
  PROVE  Buffered(Seg(b, d, s).pend) <= Waits(b, d)
<1> DEFINE f == Held(b, d)
<1>1. \A q \in SegSeq : f[q] \in Nat
  BY HeldType
<1>2. f[s] = Buffered(Seg(b, d, s).pend)
  BY HeldType
<1>3. Waits(b, d) = SumFunctionOnSet(f, SegSeq)
  BY DEF Waits
<1> HIDE DEF f
<1>4. f[s] <= SumFunctionOnSet(f, SegSeq)
  BY <1>1, SegSeqFinite, SumMember
<1> QED
  BY <1>2, <1>3, <1>4

(* Where one segment changes, what waits for the device changes as much.   *)
LEMMA WaitsChange ==
  ASSUME NEW b, BufOK(b), Charged(b), NEW r, BufOK(r), Charged(r),
         NEW d \in Dev, NEW s \in SegSeq,
         \A q \in SegSeq : q # s => Seg(r, d, q).pend = Seg(b, d, q).pend
  PROVE  Waits(r, d) = Waits(b, d) - Buffered(Seg(b, d, s).pend)
                         + Buffered(Seg(r, d, s).pend)
<1> DEFINE f == Held(b, d)
           g == Held(r, d)
<1>1. \A q \in SegSeq : f[q] \in Int /\ g[q] \in Int /\ (q # s => g[q] = f[q])
  BY HeldType
<1>2. f[s] = Buffered(Seg(b, d, s).pend) /\ g[s] = Buffered(Seg(r, d, s).pend)
  BY HeldType
<1>3. Waits(b, d) = SumFunctionOnSet(f, SegSeq) /\ Waits(r, d) = SumFunctionOnSet(g, SegSeq)
  BY DEF Waits
<1> HIDE DEF f, g
<1>4. SumFunctionOnSet(g, SegSeq) = SumFunctionOnSet(f, SegSeq) - f[s] + g[s]
  BY <1>1, SegSeqFinite, SumChange
<1> QED
  BY <1>2, <1>3, <1>4

(* Only the chunks count.                                                  *)
LEMMA WaitsSame ==
  ASSUME NEW b, NEW r, NEW d, \A q \in SegSeq : Seg(r, d, q).pend = Seg(b, d, q).pend
  PROVE  Waits(r, d) = Waits(b, d)
BY DEF Waits, Held

(* A device without chunks waits for nothing.                              *)
LEMMA NothingWaits ==
  ASSUME NEW b, BufOK(b), Charged(b), NEW d \in Dev,
         \A q \in SegSeq : Seg(b, d, q).pend = {}
  PROVE  Waits(b, d) = 0
<1>1. \A q \in SegSeq : Held(b, d)[q] = 0
  BY HeldType, BufferedNone
<1> QED
  BY <1>1, SegSeqFinite, SumZero DEF Waits

(* What a device is charged beyond what waits for it: the chunks that were *)
(* replaced while they waited.                                             *)
Slack(b, d) == b.conn[d] - Waits(b, d)

(* A device is charged no more than before, and has no more slack.         *)
Leaner(b, r, d) == r.conn[d] <= b.conn[d] /\ Slack(r, d) <= Slack(b, d)

(* Slack is an integer.                                                    *)
LEMMA SlackType ==
  ASSUME NEW b, BufOK(b), Charged(b), NEW x \in Dev
  PROVE  b.conn \in [Dev -> Int] /\ b.conn[x] \in Int /\ Waits(b, x) \in Int
<1>1. b.conn \in [Dev -> Int]
  BY DEF BufOK
<1>2. Waits(b, x) \in Int
  BY HeldType
<1> QED
  BY <1>1, <1>2

(* Leaner twice is leaner.                                                 *)
LEMMA LeanerTrans ==
  ASSUME NEW a, BufOK(a), Charged(a), NEW b, BufOK(b), Charged(b), NEW c, BufOK(c), Charged(c),
         NEW d \in Dev, Leaner(a, b, d), Leaner(b, c, d)
  PROVE  Leaner(a, c, d)
<1>1. /\ a.conn[d] \in Int /\ Waits(a, d) \in Int
      /\ b.conn[d] \in Int /\ Waits(b, d) \in Int
      /\ c.conn[d] \in Int /\ Waits(c, d) \in Int
  BY SlackType
<1> QED
  BY <1>1 DEF Leaner, Slack

(* Evicting one chunk makes every device leaner: the charge and what waits *)
(* fall by the same length.                                                *)
LEMMA OneRemoved ==
  ASSUME NEW b, BufOK(b), Charged(b), NEW r, BufOK(r), Charged(r),
         NEW y \in Dev, NEW t \in SegSeq, NEW v \in Seg(b, y, t).pend,
         r.conn = [b.conn EXCEPT ![y] = @ - v.len],
         \A x \in Dev, q \in SegSeq :
           Seg(r, x, q) = IF x = y /\ q = t THEN Without(Seg(b, y, t), v) ELSE Seg(b, x, q),
         NEW x \in Dev
  PROVE  Leaner(b, r, x)
<1>1. b.conn \in [Dev -> Int] /\ b.conn[x] \in Int /\ Waits(b, x) \in Int
  BY SlackType
<1>2. CASE x # y
  <2>1. r.conn[x] = b.conn[x]
    BY <1>1, <1>2
  <2>2. Waits(r, x) = Waits(b, x)
    BY <1>2, WaitsSame
  <2> QED
    BY <1>1, <2>1, <2>2 DEF Leaner, Slack
<1>3. CASE x = y
  <2> DEFINE old == Seg(b, y, t)
  <2>1. old \in SegmentBuf /\ Sound(old) /\ v \in old.pend
    BY SoundParts
  <2>2. v.len \in Nat /\ Buffered(old.pend) = v.len + Buffered(old.pend \ {v})
        /\ Chunks(old.pend \ {v})
    BY <2>1, BufferedRemove DEF Sound, SegmentBuf, Chunk
  <2>3. Seg(r, y, t).pend = old.pend \ {v}
    BY <2>1 DEF Without, SegmentBuf
  <2>4. \A q \in SegSeq : q # t => Seg(r, y, q).pend = Seg(b, y, q).pend
    OBVIOUS
  <2>5. Waits(r, y) = Waits(b, y) - Buffered(old.pend) + Buffered(Seg(r, y, t).pend)
    BY <2>4, WaitsChange
  <2>6. r.conn[y] = b.conn[y] - v.len
    BY <1>1
  <2>7. Buffered(old.pend \ {v}) \in Nat
    BY <2>2, BufferedNat
  <2>8. Waits(r, y) = Waits(b, y) - v.len
    BY <1>1, <1>3, <2>2, <2>3, <2>5, <2>7
  <2> HIDE DEF old
  <2> QED
    BY <1>1, <1>3, <2>2, <2>6, <2>8 DEF Leaner, Slack
<1> QED
  BY <1>2, <1>3

(* What is left alone is as lean as before.                                *)
LEMMA LeanerRefl ==
  ASSUME NEW b, BufOK(b), Charged(b), NEW r, NEW x \in Dev, r.conn[x] = b.conn[x],
         \A q \in SegSeq : Seg(r, x, q).pend = Seg(b, x, q).pend
  PROVE  Leaner(b, r, x)
<1>1. b.conn[x] \in Int /\ Waits(b, x) \in Int
  BY SlackType
<1>2. Waits(r, x) = Waits(b, x)
  BY WaitsSame
<1> QED
  BY <1>1, <1>2 DEF Leaner, Slack

(* Emptying a segment makes its device leaner: it loses the segment's      *)
(* slack as well.                                                          *)
LEMMA DroppedLeaner ==
  ASSUME NEW b, BufOK(b), Charged(b), NEW r, BufOK(r), Charged(r),
         NEW d \in Dev, NEW s \in SegSeq, Dropped(b, d, s, r), NEW x \in Dev
  PROVE  Leaner(b, r, x)
<1>1. b.conn \in [Dev -> Int] /\ b.conn[x] \in Int /\ Waits(b, x) \in Int
  BY SlackType
<1>2. CASE x # d
  <2>1. r.conn[x] = b.conn[x]
    BY <1>1, <1>2 DEF Dropped
  <2>2. \A q \in SegSeq : Seg(r, x, q).pend = Seg(b, x, q).pend
    BY <1>2 DEF Dropped
  <2> QED
    BY <2>1, <2>2, LeanerRefl
<1>3. CASE x = d
  <2>1. /\ Seg(b, d, s).bytes \in Int /\ Buffered(Seg(b, d, s).pend) \in Nat
        /\ Buffered(Seg(b, d, s).pend) <= Seg(b, d, s).bytes
    BY SoundParts DEF Sound
  <2>2. Seg(r, d, s).pend = {} /\ r.conn[d] = b.conn[d] - Seg(b, d, s).bytes
    BY <1>1 DEF Dropped
  <2>3. \A q \in SegSeq : q # s => Seg(r, d, q).pend = Seg(b, d, q).pend
    BY DEF Dropped
  <2>4. Waits(r, d) = Waits(b, d) - Buffered(Seg(b, d, s).pend)
                        + Buffered(Seg(r, d, s).pend)
    BY <2>3, WaitsChange
  <2>5. Buffered(Seg(r, d, s).pend) = 0
    BY <2>2, BufferedNone
  <2> QED
    BY <1>1, <1>3, <2>1, <2>2, <2>4, <2>5 DEF Leaner, Slack
<1> QED
  BY <1>2, <1>3

(* The global budget's eviction makes every device leaner.                 *)
LEMMA GlobalLeaner ==
  ASSUME NEW b, BufOK(b), Charged(b), NEW r, BufOK(r), Charged(r),
         r = b \/ EvictedAnywhere(b, r), NEW x \in Dev
  PROVE  Leaner(b, r, x)
<1>1. CASE r = b
  <2>1. r.conn[x] = b.conn[x] /\ \A q \in SegSeq : Seg(r, x, q).pend = Seg(b, x, q).pend
    BY <1>1
  <2> QED
    BY <2>1, LeanerRefl
<1>2. CASE EvictedAnywhere(b, r)
  <2>1. PICK y \in Dev, t \in SegSeq : \E v \in Seg(b, y, t).pend :
           /\ r.conn = [b.conn EXCEPT ![y] = @ - v.len]
           /\ \A z \in Dev, q \in SegSeq :
                Seg(r, z, q) = IF z = y /\ q = t THEN Without(Seg(b, y, t), v)
                               ELSE Seg(b, z, q)
    BY <1>2 DEF EvictedAnywhere
  <2>2. PICK v \in Seg(b, y, t).pend :
           /\ r.conn = [b.conn EXCEPT ![y] = @ - v.len]
           /\ \A z \in Dev, q \in SegSeq :
                Seg(r, z, q) = IF z = y /\ q = t THEN Without(Seg(b, y, t), v)
                               ELSE Seg(b, z, q)
    BY <2>1
  <2> QED
    BY <2>2, OneRemoved
<1> QED
  BY <1>1, <1>2

(* An accepted chunk leaves every other device leaner.                     *)
LEMMA StageLeaner ==
  ASSUME BufOK(buf), Charged(buf), now \in Nat, NEW d \in Dev, NEW s \in SegSeq,
         NEW len, NEW c, NEW r1, NEW r2, NEW D, NEW e,
         Stages(d, s, len, c, r1, r2, D, e)
  PROVE  /\ \A x \in Dev : Leaner(r1.buf, r2.buf, x)
         /\ \A x \in Dev \ {d} : Leaner(buf, buf', x)
<1> DEFINE b1 == r1.buf
           b2 == r2.buf
           in == Insert(b2, d, s, c)
           popped == e - Seg(buf, d, s).next
<1>1. /\ r1 \in AfterDevBudget(buf, d, s, c)
      /\ r2 \in AfterGlobalBudget(b1, c)
  BY DEF Stages
<1>2. StageResult(d, s, c, r1, r2, D, e, buf')
  BY StageFacts
<1>3. /\ BufOK(b1) /\ Charged(b1) /\ BufOK(b2) /\ Charged(b2)
      /\ BufOK(buf') /\ Charged(buf')
      /\ in.conn = [b2.conn EXCEPT ![d] = @ + c.len]
      /\ \A y \in Dev, q \in SegSeq :
           Seg(in, y, q) = IF y = d /\ q = s THEN With(Seg(b2, d, s), c)
                           ELSE Seg(b2, y, q)
      /\ buf'.conn = [in.conn EXCEPT ![d] = @ - popped]
      /\ \A y \in Dev, q \in SegSeq :
           Seg(buf', y, q) = IF y = d /\ q = s THEN DrainSeg(Seg(in, d, s), D, e)
                             ELSE Seg(in, y, q)
  BY <1>2 DEF StageResult
<1>4. r1 = Untouched(buf) \/ EvictedAndCounted(buf, d, b1) \/ EvictedAndQuarantined(buf, d, b1)
  BY <1>1, AfterDevOutcome
<1>5. b1 = buf \/ EvictedAndCounted(buf, d, b1) \/ EvictedAndQuarantined(buf, d, b1)
  BY <1>4 DEF Untouched
<1>6. r2 = Untouched(b1) \/ EvictedAnywhere(b1, b2)
  BY <1>1, <1>3, AfterGlobalOutcome
<1>7. b2 = b1 \/ EvictedAnywhere(b1, b2)
  BY <1>6 DEF Untouched
<1> HIDE DEF b1, b2, in, popped
<1>8. \A x \in Dev : Leaner(b1, b2, x)
  BY <1>3, <1>7, GlobalLeaner
<1>9. ASSUME NEW x \in Dev \ {d}
      PROVE  Leaner(buf, buf', x)
  <2>1. x \in Dev /\ x # d
    OBVIOUS
  <2>2. Leaner(buf, b1, x)
    <3>1. b1.conn[x] = buf.conn[x] /\ \A q \in SegSeq : Seg(b1, x, q) = Seg(buf, x, q)
      BY <1>5, <2>1, DevOthers
    <3> QED
      BY <2>1, <3>1, LeanerRefl
  <2>3. Leaner(b2, buf', x)
    <3>1. b2.conn \in [Dev -> Int]
      BY <1>3, SlackType
    <3>2. buf'.conn[x] = b2.conn[x] /\ \A q \in SegSeq : Seg(buf', x, q) = Seg(b2, x, q)
      BY <1>3, <2>1, <3>1
    <3> QED
      BY <1>3, <2>1, <3>2, LeanerRefl
  <2>4. Leaner(b1, b2, x)
    BY <1>8, <2>1
  <2>5. Leaner(buf, b2, x)
    BY <1>3, <2>1, <2>2, <2>4, LeanerTrans
  <2> QED
    BY <1>3, <2>1, <2>3, <2>5, LeanerTrans
<1> QED
  BY <1>8, <1>9 DEF b1, b2

(* What an accepted chunk costs its own device after the evictions: the    *)
(* charge grows by its length at most and the slack never beyond the       *)
(* charge before it; a chunk at the cursor costs nothing, as it is drained *)
(* together with all that it reaches.                                      *)
LEMMA StageSlack ==
  ASSUME BufOK(buf), Charged(buf), now \in Nat, NEW d \in Dev, NEW s \in SegSeq,
         NEW len, NEW c, NEW r1, NEW r2, NEW D, NEW e,
         Stages(d, s, len, c, r1, r2, D, e)
  PROVE  /\ buf'.conn[d] <= r2.buf.conn[d] + c.len
         /\ Slack(buf', d) <= r2.buf.conn[d]
         /\ c.off = Seg(buf, d, s).next /\ NoReadyChunkWaits =>
              /\ buf'.conn[d] <= r2.buf.conn[d]
              /\ Slack(buf', d) <= Slack(r2.buf, d)
<1> DEFINE b == r2.buf
           in == Insert(b, d, s, c)
           n == Seg(buf, d, s).next
           popped == e - n
           p == Seg(in, d, s).pend
<1>1. /\ c \in Chunk /\ D \in SUBSET p /\ Popped(p, n, D, e)
      /\ r1 \in AfterDevBudget(buf, d, s, c)
      /\ r2 \in AfterGlobalBudget(r1.buf, c)
  BY DEF Stages
<1>2. StageResult(d, s, c, r1, r2, D, e, buf')
  BY StageFacts
<1>3. /\ BufOK(r1.buf) /\ BufOK(b) /\ Charged(b)
      /\ BufOK(in) /\ Charged(in)
      /\ BufOK(buf') /\ Charged(buf')
      /\ in.conn = [b.conn EXCEPT ![d] = @ + c.len]
      /\ \A y \in Dev, q \in SegSeq :
           Seg(in, y, q) = IF y = d /\ q = s THEN With(Seg(b, d, s), c)
                           ELSE Seg(b, y, q)
      /\ popped \in Nat /\ popped = Buffered(D)
      /\ buf'.conn = [in.conn EXCEPT ![d] = @ - popped]
      /\ \A y \in Dev, q \in SegSeq :
           Seg(buf', y, q) = IF y = d /\ q = s THEN DrainSeg(Seg(in, d, s), D, e)
                             ELSE Seg(in, y, q)
  BY <1>2 DEF StageResult
<1>4. /\ b.conn \in [Dev -> Int] /\ b.conn[d] \in Int
      /\ Waits(b, d) \in Int /\ Waits(in, d) \in Int /\ Waits(buf', d) \in Int
      /\ in.conn \in [Dev -> Int] /\ c.len \in Nat
  BY <1>1, <1>3, SlackType DEF Chunk
<1>5. Seg(b, d, s) \in SegmentBuf /\ Sound(Seg(b, d, s))
      /\ Seg(in, d, s) \in SegmentBuf /\ Sound(Seg(in, d, s))
  BY <1>3, SoundParts
<1>6. /\ p = {x \in Seg(b, d, s).pend : x.off # c.off} \cup {c}
      /\ Chunks(p) /\ Distinct(p)
  BY <1>1, <1>3, <1>5, WithType DEF Sound
<1>7. /\ in.conn[d] = b.conn[d] + c.len
      /\ buf'.conn[d] = b.conn[d] + c.len - popped
  BY <1>3, <1>4
<1>8. Waits(buf', d) = Waits(in, d) - popped
  <2>1. \A q \in SegSeq : q # s => Seg(buf', d, q).pend = Seg(in, d, q).pend
    BY <1>3
  <2>2. Waits(buf', d) = Waits(in, d) - Buffered(p) + Buffered(Seg(buf', d, s).pend)
    BY <1>3, <2>1, WaitsChange
  <2>3. Seg(buf', d, s).pend = p \ D
    BY <1>3, <1>5 DEF DrainSeg, SegmentBuf
  <2>4. /\ Buffered(p) = Buffered(D) + Buffered(p \ D)
        /\ Chunks(p \ D)
    BY <1>1, <1>6, BufferedSplit
  <2>5. Buffered(p \ D) \in Nat
    BY <2>4, BufferedNat
  <2> HIDE DEF p, popped, in
  <2> QED
    BY <1>3, <1>4, <2>2, <2>3, <2>4, <2>5
<1>9. Waits(in, d) >= c.len
  <2>1. c \in p
    BY <1>6
  <2>2. Buffered(p) = c.len + Buffered(p \ {c}) /\ Chunks(p \ {c})
    BY <1>6, <2>1, BufferedRemove
  <2>3. Buffered(p) <= Waits(in, d)
    BY <1>3, WaitsMember
  <2>4. Buffered(p \ {c}) \in Nat
    BY <2>2, BufferedNat
  <2> HIDE DEF p, in
  <2> QED
    BY <1>4, <2>2, <2>3, <2>4
<1>10. Slack(buf', d) = b.conn[d] + c.len - Waits(in, d)
  <2> HIDE DEF in, popped
  <2> QED
    BY <1>3, <1>4, <1>7, <1>8 DEF Slack
<1>11. ASSUME c.off = n, NoReadyChunkWaits
       PROVE  /\ buf'.conn[d] <= b.conn[d]
              /\ Slack(buf', d) <= Slack(b, d)
  <2>1. \A x \in Seg(b, d, s).pend : x.off # n
    <3>1. Evicted(buf, r1.buf)
      <4>1. r1 \in EvictOldestInDev(buf, d) \/ r1 = Untouched(buf)
        BY <1>1 DEF AfterDevBudget
      <4> QED
        BY <4>1, DevEvictionEvicts, EvictedRefl DEF Untouched
    <3>2. Evicted(r1.buf, b)
      <4>1. r2 \in EvictOldestGlobal(r1.buf) \/ r2 = Untouched(r1.buf)
        BY <1>1 DEF AfterGlobalBudget
      <4> QED
        BY <1>3, <4>1, GlobalEvictionEvicts, EvictedRefl DEF Untouched
    <3>3. Seg(b, d, s).pend \subseteq Seg(buf, d, s).pend
      BY <3>1, <3>2 DEF Evicted
    <3> QED
      BY <1>11, <3>3 DEF NoReadyChunkWaits, Offsets
  <2>2. p = Seg(b, d, s).pend \cup {c} /\ c \notin Seg(b, d, s).pend
    BY <1>6, <1>11, <2>1
  <2>3. Buffered(p) = c.len + Buffered(Seg(b, d, s).pend)
    BY <1>1, <1>5, <2>2, BufferedAdd DEF Sound
  <2>4. Waits(in, d) = Waits(b, d) - Buffered(Seg(b, d, s).pend) + Buffered(p)
    <3>1. \A q \in SegSeq : q # s => Seg(in, d, q).pend = Seg(b, d, q).pend
      BY <1>3
    <3> QED
      BY <1>3, <3>1, WaitsChange
  <2>5. Buffered(Seg(b, d, s).pend) \in Nat
    BY <1>5, BufferedNat DEF Sound
  <2>6. Waits(in, d) = Waits(b, d) + c.len
    <3> HIDE DEF in, p
    <3> QED
      BY <1>4, <2>3, <2>4, <2>5
  <2>7. popped >= c.len
    <3>1. n \in Nat
      BY DEF BufOK, Seg, SegmentBuf
    <3>2. /\ e \in Nat
          /\ \A x \in D : x.off = n => e >= n + x.len
          /\ n \in Offsets(p) => \E x \in D : x.off = n
      <4>1. p \in SUBSET Chunk /\ D \in SUBSET p /\ Popped(p, n, D, e)
        BY <1>1, <1>6 DEF Chunks
      <4> HIDE DEF p, n
      <4> QED
        BY <3>1, <4>1, PoppedEnd
    <3>3. c \in p /\ n \in Offsets(p)
      BY <1>6, <1>11 DEF Offsets
    <3>4. c \in D
      BY <1>1, <1>6, <1>11, <3>2, <3>3 DEF Distinct
    <3> QED
      BY <1>4, <1>11, <3>1, <3>2, <3>4
  <2> HIDE DEF in, popped
  <2> QED
    BY <1>3, <1>4, <1>7, <1>10, <2>6, <2>7 DEF Slack
<1> HIDE DEF in, popped
<1>12. buf'.conn[d] <= b.conn[d] + c.len /\ Slack(buf', d) <= b.conn[d]
  BY <1>3, <1>4, <1>7, <1>9, <1>10
<1> QED
  BY <1>11, <1>12

(* The most a device may be charged after k evictions.                     *)
Allowance(k) == L25Cap + k * MaxLen

(* Each eviction allows one chunk more.                                    *)
LEMMA AllowanceGrows ==
  ASSUME NEW k \in Nat
  PROVE  /\ Allowance(k) \in Nat /\ Allowance(k + 1) \in Nat
         /\ Allowance(k + 1) = Allowance(k) + MaxLen
         /\ L25Cap <= Allowance(k)
<1>1. L25Cap \in Nat /\ MaxLen \in Nat
  BY SizesAssumption, BudgetsAssumption
<1>2. k * MaxLen \in Nat /\ (k + 1) * MaxLen = k * MaxLen + MaxLen
  BY <1>1
<1> QED
  BY <1>1, <1>2 DEF Allowance

(* The slack is covered by the evictions there have been, the charge by    *)
(* one more.                                                               *)
WithinAllowance(b, d) ==
  /\ Slack(b, d) <= Allowance(b.streak[d])
  /\ b.conn[d] <= Allowance(b.streak[d] + 1)

(* The invariant of the overshoot, for a clock that stands still. The      *)
(* bound on the charge is not inductive alone: a chunk that finds nothing  *)
(* left to evict is inserted over the cap without an eviction counted,     *)
(* which is harmless only because all that the device is charged is then   *)
(* slack, and the slack is bounded by one chunk less.                      *)
OvershootInv ==
  /\ AccountingInv
  /\ \A d \in Dev : buf.window[d] <= now
  /\ now = 0 => \A d \in Dev : WithinAllowance(buf, d)

(* A leaner device stays within.                                           *)
LEMMA LeanerWithin ==
  ASSUME NEW b, BufOK(b), Charged(b), NEW r, BufOK(r), Charged(r), NEW d \in Dev,
         Leaner(b, r, d), r.streak[d] = b.streak[d], WithinAllowance(b, d)
  PROVE  WithinAllowance(r, d)
<1>1. /\ b.conn[d] \in Int /\ Waits(b, d) \in Int
      /\ r.conn[d] \in Int /\ Waits(r, d) \in Int
  BY SlackType
<1>2. b.streak[d] \in Nat
  BY DEF BufOK
<1>3. Allowance(b.streak[d]) \in Nat /\ Allowance(b.streak[d] + 1) \in Nat
  BY <1>2, AllowanceGrows
<1> QED
  BY <1>1, <1>3 DEF WithinAllowance, Leaner, Slack

(* Where nothing can be evicted, nothing waits.                            *)
LEMMA WaitingHolds ==
  ASSUME NEW b, NEW d \in Dev, Waiting(b, {d}) = {}, NEW q \in SegSeq
  PROVE  Seg(b, d, q).pend = {}
<1> SUFFICES ASSUME NEW c \in Seg(b, d, q).pend PROVE FALSE
  OBVIOUS
<1> DEFINE w == [dev |-> d, seq |-> q, chunk |-> c]
           C == UNION {Seg(b, x, s).pend : x \in {d}, s \in SegSeq}
<1>1. c \in C
  OBVIOUS
<1> HIDE DEF C
<1>2. w \in [dev : {d}, seq : SegSeq, chunk : C]
  BY <1>1
<1>3. w \in Waiting(b, {d})
  BY <1>2 DEF Waiting, C
<1> QED
  BY <1>3

(* An accepted chunk keeps its device within. A chunk at the cursor adds   *)
(* nothing; one that fits the cap stays below it; one that finds nothing   *)
(* to evict has only slack to add to; an eviction pays for it; a           *)
(* quarantine starts from 0.                                               *)
LEMMA StageWithin ==
  ASSUME OvershootInv, now = 0, NEW d \in Dev, NEW s \in SegSeq,
         NEW len \in 1 .. MaxLen, NEW c, NEW r1, NEW r2, NEW D, NEW e,
         Stages(d, s, len, c, r1, r2, D, e)
  PROVE  WithinAllowance(buf', d)
<1> DEFINE b1 == r1.buf
           b2 == r2.buf
           n == Seg(buf, d, s).next
           k == buf.streak[d]
           new == buf'.streak[d]
<1>1. /\ BufOK(buf) /\ Charged(buf) /\ now \in Nat /\ NoReadyChunkWaits
      /\ WithinAllowance(buf, d) /\ buf.window[d] <= now
  BY DEF OvershootInv, AccountingInv, Inv, TypeOK
<1>2. /\ c \in Chunk /\ c.off >= n /\ c.len <= len
      /\ r1 \in AfterDevBudget(buf, d, s, c)
      /\ r2 \in AfterGlobalBudget(r1.buf, c)
  BY DEF Stages
<1>3. StageResult(d, s, c, r1, r2, D, e, buf')
  BY <1>1, StageFacts
<1>4. /\ BufOK(b1) /\ Charged(b1) /\ BufOK(b2) /\ Charged(b2)
      /\ BufOK(buf') /\ Charged(buf') /\ buf'.streak = b2.streak
  BY <1>3 DEF StageResult
<1>5. /\ Leaner(b1, b2, d)
      /\ buf'.conn[d] <= b2.conn[d] + c.len
      /\ Slack(buf', d) <= b2.conn[d]
      /\ c.off = n /\ NoReadyChunkWaits =>
           buf'.conn[d] <= b2.conn[d] /\ Slack(buf', d) <= Slack(b2, d)
  BY <1>1, StageLeaner, StageSlack
<1>6. /\ \/ /\ r1 = Untouched(buf)
            /\ \/ ~(c.off > n /\ buf.conn[d] + c.len > L25Cap)
               \/ Waiting(buf, {d}) = {}
         \/ EvictedAndCounted(buf, d, b1)
         \/ EvictedAndQuarantined(buf, d, b1)
  BY <1>1, <1>2, AfterDevOutcome
<1>7. b2 = b1 \/ EvictedAnywhere(b1, b2)
  <2>1. r2 = Untouched(b1) \/ EvictedAnywhere(b1, b2)
    BY <1>2, <1>4, AfterGlobalOutcome
  <2> QED
    BY <2>1 DEF Untouched
<1>8. new = b1.streak[d]
  BY <1>4, <1>7 DEF EvictedAnywhere
<1>9. /\ buf.conn[d] \in Int /\ Waits(buf, d) \in Int
      /\ b1.conn[d] \in Int /\ Waits(b1, d) \in Int
      /\ b2.conn[d] \in Int /\ Waits(b2, d) \in Int
      /\ buf'.conn[d] \in Int /\ Waits(buf', d) \in Int
  BY <1>1, <1>4, SlackType
<1>10. /\ k \in Nat /\ b1.streak[d] \in Nat /\ new \in Nat /\ buf.window[d] \in Nat
  BY <1>1, <1>4 DEF BufOK
<1>11. /\ c.len \in Nat /\ c.len <= MaxLen /\ MaxLen \in Nat
       /\ n \in Nat /\ c.off \in Nat /\ L25Cap \in Nat /\ EvictWindow \in Nat
  <2>1. n \in Nat
    BY <1>1 DEF BufOK, Seg, SegmentBuf
  <2>2. c.len \in Nat /\ c.off \in Nat /\ MaxLen \in Nat /\ len \in Nat /\ len <= MaxLen
    BY <1>2, SizesAssumption DEF Chunk
  <2> QED
    BY <1>2, <2>1, <2>2, BudgetsAssumption
<1> HIDE DEF b1, b2, n
<1>12. /\ Allowance(k) \in Nat /\ Allowance(k + 1) = Allowance(k) + MaxLen
       /\ L25Cap <= Allowance(k)
       /\ Allowance(new) \in Nat /\ Allowance(new + 1) = Allowance(new) + MaxLen
       /\ L25Cap <= Allowance(new)
  BY <1>10, AllowanceGrows
<1>13. /\ buf.conn[d] - Waits(buf, d) <= Allowance(k)
       /\ buf.conn[d] <= Allowance(k + 1)
  BY <1>1 DEF WithinAllowance, Slack
<1>14. SUFFICES /\ Slack(buf', d) <= Allowance(new)
                /\ buf'.conn[d] <= Allowance(new) + MaxLen
  BY <1>12 DEF WithinAllowance
<1>15. b2.conn[d] <= b1.conn[d] /\ Slack(b2, d) <= Slack(b1, d)
  BY <1>5 DEF Leaner
<1>16. CASE r1 = Untouched(buf) /\ c.off = n
  <2>1. b1 = buf /\ new = k
    BY <1>8, <1>16 DEF Untouched, b1
  <2> QED
    BY <1>1, <1>5, <1>9, <1>10, <1>11, <1>12, <1>13, <1>15, <1>16, <2>1 DEF Slack
<1>17. CASE /\ r1 = Untouched(buf)
             /\ \/ ~(c.off > n /\ buf.conn[d] + c.len > L25Cap)
                \/ Waiting(buf, {d}) = {}
             /\ c.off # n
  <2>1. b1 = buf /\ new = k
    BY <1>8, <1>17 DEF Untouched, b1
  <2>2. buf.conn[d] <= Allowance(k)
    <3>1. CASE buf.conn[d] + c.len <= L25Cap
      BY <1>9, <1>11, <1>12, <3>1
    <3>2. CASE Waiting(buf, {d}) = {}
      <4>1. \A q \in SegSeq : Seg(buf, d, q).pend = {}
        BY <3>2, WaitingHolds
      <4>2. Waits(buf, d) = 0
        BY <1>1, <4>1, NothingWaits
      <4> QED
        BY <1>9, <1>13, <4>2
    <3>3. c.off > n
      BY <1>2, <1>11, <1>17
    <3>4. ~(buf.conn[d] + c.len > L25Cap) \/ Waiting(buf, {d}) = {}
      BY <1>17, <3>3
    <3>5. CASE ~(buf.conn[d] + c.len > L25Cap)
      BY <1>9, <1>11, <3>1, <3>5
    <3> QED
      BY <3>2, <3>4, <3>5
  <2> QED
    BY <1>5, <1>9, <1>10, <1>11, <1>12, <1>15, <2>1, <2>2 DEF Slack
<1>18. CASE EvictedAndCounted(buf, d, b1)
  <2>1. new = k + 1
    <3>1. buf.streak \in [Dev -> Nat]
      BY <1>1 DEF BufOK
    <3>2. ~(now - buf.window[d] > EvictWindow)
      BY <1>1, <1>10, <1>11
    <3> QED
      BY <1>8, <1>10, <1>18, <3>1, <3>2 DEF EvictedAndCounted, Counted
  <2>2. b1.conn[d] <= buf.conn[d]
    <3>1. Leaner(buf, b1, d)
      <4>1. PICK t \in SegSeq : \E v \in Seg(buf, d, t).pend :
               /\ b1.conn = [buf.conn EXCEPT ![d] = @ - v.len]
               /\ \A z \in Dev, q \in SegSeq :
                    Seg(b1, z, q) = IF z = d /\ q = t THEN Without(Seg(buf, d, t), v)
                                    ELSE Seg(buf, z, q)
        BY <1>18 DEF EvictedAndCounted
      <4> QED
        BY <1>1, <1>4, <4>1, OneRemoved
    <3> QED
      BY <3>1 DEF Leaner
  <2> QED
    BY <1>5, <1>9, <1>10, <1>11, <1>12, <1>13, <1>15, <2>1, <2>2 DEF Slack
<1>19. CASE EvictedAndQuarantined(buf, d, b1)
  <2>1. buf.conn \in [Dev -> Int]
    BY <1>1, SlackType
  <2>2. b1.conn[d] = 0
    BY <1>19, <2>1 DEF EvictedAndQuarantined
  <2> QED
    BY <1>5, <1>9, <1>10, <1>11, <1>12, <1>15, <2>2 DEF Slack
<1> QED
  BY <1>6, <1>16, <1>17, <1>18, <1>19

(* The invariant holds of the empty engine.                                *)
LEMMA InitOvershoot == Init => OvershootInv
<1> SUFFICES ASSUME Init PROVE OvershootInv
  OBVIOUS
<1>1. AccountingInv
  BY InitAccounting
<1>2. BufOK(buf) /\ Charged(buf)
  BY <1>1 DEF AccountingInv, Inv, TypeOK
<1>3. /\ buf.window = [d \in Dev |-> 0] /\ now = 0
      /\ buf.conn = [d \in Dev |-> 0] /\ buf.streak = [d \in Dev |-> 0]
  BY DEF Init
<1>4. ASSUME NEW d \in Dev PROVE WithinAllowance(buf, d)
  <2>1. \A s \in SegSeq : Seg(buf, d, s).pend = {}
    BY EmptySegType DEF Init, Seg
  <2>2. Waits(buf, d) = 0
    BY <1>2, <2>1, NothingWaits
  <2>3. buf.conn[d] = 0 /\ buf.streak[d] = 0
    BY <1>3
  <2>4. Allowance(0) \in Nat /\ Allowance(0 + 1) \in Nat
    BY AllowanceGrows
  <2> QED
    BY <2>2, <2>3, <2>4 DEF WithinAllowance, Slack
<1> QED
  BY <1>1, <1>3, <1>4 DEF OvershootInv

(* A window never starts later than now.                                   *)
LEMMA WindowKept ==
  ASSUME OvershootInv, NEW d \in Dev, NEW s \in SegSeq,
         NEW len, NEW c, NEW r1, NEW r2, NEW D, NEW e,
         Stages(d, s, len, c, r1, r2, D, e)
  PROVE  \A x \in Dev : buf'.window[x] <= now
<1>1. /\ BufOK(buf) /\ Charged(buf) /\ now \in Nat
      /\ \A x \in Dev : buf.window[x] <= now
  BY DEF OvershootInv, AccountingInv, Inv, TypeOK
<1>2. /\ r1 \in AfterDevBudget(buf, d, s, c)
      /\ r2 \in AfterGlobalBudget(r1.buf, c)
  BY DEF Stages
<1>3. BufOK(r1.buf) /\ Charged(r1.buf) /\ buf'.window = r2.buf.window
  <2>1. StageResult(d, s, c, r1, r2, D, e, buf')
    BY <1>1, StageFacts
  <2> QED
    BY <2>1 DEF StageResult
<1>4. r2 = Untouched(r1.buf) \/ EvictedAnywhere(r1.buf, r2.buf)
  BY <1>2, <1>3, AfterGlobalOutcome
<1>5. buf'.window = r1.buf.window
  BY <1>3, <1>4 DEF Untouched, EvictedAnywhere
<1>6. \/ r1 = Untouched(buf)
      \/ EvictedAndCounted(buf, d, r1.buf)
      \/ EvictedAndQuarantined(buf, d, r1.buf)
  BY <1>1, <1>2, AfterDevOutcome
<1>7. \/ r1.buf.window = buf.window
      \/ r1.buf.window = [buf.window EXCEPT ![d] = now]
      \/ r1.buf.window = [buf.window EXCEPT ![d] = 0]
  BY <1>6 DEF Untouched, EvictedAndCounted, EvictedAndQuarantined, Counted
<1>8. buf.window \in [Dev -> Nat]
  BY <1>1 DEF BufOK
<1> QED
  BY <1>1, <1>5, <1>7, <1>8

(* Every call keeps the invariant.                                         *)
LEMMA NextOvershoot == OvershootInv /\ [Next]_vars => OvershootInv'
<1> SUFFICES ASSUME OvershootInv, [Next]_vars PROVE OvershootInv'
  OBVIOUS
<1>1. /\ BufOK(buf) /\ Charged(buf) /\ now \in Nat /\ AccountingInv
      /\ \A x \in Dev : buf.window[x] <= now
  BY DEF OvershootInv, AccountingInv, Inv, TypeOK
<1>2. AccountingInv' /\ BufOK(buf') /\ Charged(buf') /\ now' \in Nat
  <2>1. AccountingInv'
    BY <1>1, NextAccounting
  <2> QED
    BY <2>1 DEF AccountingInv, Inv, TypeOK, Charged, DevBytes, Charges
<1>3. CASE UNCHANGED vars
  <2>1. buf' = buf /\ now' = now
    BY <1>3 DEF vars
  <2> QED
    BY <1>2, <2>1 DEF OvershootInv, WithinAllowance, Slack, Waits, Held, Seg
<1>4. CASE KeepsBuffer
  <2>1. buf' = buf /\ (now' = now \/ now' > now)
    BY <1>4, ClockOnly
  <2>2. \A x \in Dev : buf'.window[x] <= now'
    <3>1. \A x \in Dev : buf.window[x] \in Nat
      BY <1>1 DEF BufOK
    <3> QED
      BY <1>1, <1>2, <2>1, <3>1
  <2>3. now' = 0 => now = 0
    BY <1>1, <1>2, <2>1
  <2> QED
    BY <1>2, <2>1, <2>2, <2>3 DEF OvershootInv, WithinAllowance, Slack, Waits, Held, Seg
<1>5. ASSUME NEW d \in Dev, NEW s \in SegSeq, Drops(d, s)
      PROVE  OvershootInv'
  <2>1. Dropped(buf, d, s, buf') /\ now' = now
    BY <1>5 DEF Drops
  <2>2. buf'.window = buf.window /\ buf'.streak = buf.streak
    BY <2>1 DEF Dropped
  <2>3. ASSUME now = 0, NEW x \in Dev PROVE WithinAllowance(buf', x)
    <3>1. Leaner(buf, buf', x)
      BY <1>1, <1>2, <2>1, DroppedLeaner
    <3>2. WithinAllowance(buf, x)
      BY <2>3 DEF OvershootInv
    <3> QED
      BY <1>1, <1>2, <2>2, <3>1, <3>2, LeanerWithin
  <2>4. \A x \in Dev : buf'.window[x] <= now'
    BY <1>1, <2>1, <2>2
  <2> QED
    BY <1>2, <2>1, <2>3, <2>4 DEF OvershootInv, WithinAllowance, Slack, Waits, Held
<1>6. ASSUME NEW d \in Dev, NEW s \in SegSeq, Accepts(d, s)
      PROVE  OvershootInv'
  <2>1. now' = now
    BY <1>6 DEF Accepts
  <2>2. PICK len \in 1 .. MaxLen : \E c, r1, r2, D, e : Stages(d, s, len, c, r1, r2, D, e)
    BY <1>6 DEF Accepts
  <2>3. PICK c, r1, r2, D, e : Stages(d, s, len, c, r1, r2, D, e)
    BY <2>2
  <2>4. \A x \in Dev : buf'.window[x] <= now
    BY <2>3, WindowKept
  <2>5. ASSUME now = 0, NEW x \in Dev PROVE WithinAllowance(buf', x)
    <3>1. CASE x = d
      BY <2>3, <2>5, <3>1, StageWithin
    <3>2. CASE x # d
      <4>1. Leaner(buf, buf', x)
        BY <1>1, <2>3, <3>2, StageLeaner
      <4>2. buf'.streak[x] = buf.streak[x]
        BY <1>1, <2>3, <3>2, StageOthers
      <4>3. WithinAllowance(buf, x)
        BY <2>5 DEF OvershootInv
      <4> QED
        BY <1>1, <1>2, <4>1, <4>2, <4>3, LeanerWithin
    <3> QED
      BY <3>1, <3>2
  <2> QED
    BY <1>2, <2>1, <2>4, <2>5 DEF OvershootInv, WithinAllowance, Slack, Waits, Held
<1> QED
  BY <1>1, <1>3, <1>4, <1>5, <1>6, StepKinds

(* As long as the clock stands still, a device exceeds its cap by at most  *)
(* one chunk for each eviction counted against it and one more.            *)
THEOREM OvershootTheorem == Spec => []OvershootBounded
<1>1. OvershootInv => OvershootBounded
  BY DEF OvershootInv, OvershootBounded, WithinAllowance, Allowance
<1>2. Spec => []OvershootInv
  BY InitOvershoot, NextOvershoot, PTL DEF Spec
<1> QED
  BY <1>1, <1>2, PTL

-----------------------------------------------------------------------------
(***************************************************************************)
(* The live ingest around the engine, for every choice of its constants:   *)
(* that it drives the engine as specified, that the decoders follow the    *)
(* cursors, and what is stored of a segment that was released.             *)
(***************************************************************************)
(* The Append events of a call for a segment.                              *)
Appends(d, s) == {ev \in events' : ev.kind = "Append" /\ ev.dev = d /\ ev.seq = s}
(* A call reports a segment released.                                      *)
Finishes(d, s) == \E ev \in events' : ev.kind = "Sealed" /\ ev.dev = d /\ ev.seq = s

(* What a call's events tell of a segment is what happened to its cursor:  *)
(* it stood and they are silent, it moved on and there is one Append with  *)
(* the way it went, or the segment was complete, is released and starts    *)
(* again from 0.                                                           *)
Tells(d, s) ==
  LET from == Seg(buf, d, s).next
      to == Seg(buf', d, s).next
  IN  \/ to = from /\ Appends(d, s) = {} /\ ~Finishes(d, s)
      \/ to > from /\ Appends(d, s) = {Event("Append", d, s, from, to)} /\ ~Finishes(d, s)
      \/ to = 0 /\ from = SegSize /\ Appends(d, s) = {} /\ Finishes(d, s)

(* And so for every segment.                                               *)
Told == \A x \in Dev, q \in SegSeq : Tells(x, q)

(* The budgets report evictions and quarantines only.                      *)
LEMMA StageEvents ==
  ASSUME NEW b, NEW d \in Dev, NEW s \in SegSeq, NEW c,
         NEW r1 \in AfterDevBudget(b, d, s, c), NEW r2 \in AfterGlobalBudget(r1.buf, c),
         NEW ev \in r1.ev \cup r2.ev
  PROVE  ev.kind \in {"Evict", "Quarantine"}
<1>1. r1.ev = {} \/ \E w : r1 = EvictFromDev(b, w)
  BY DEF AfterDevBudget, EvictOldestInDev, Untouched
<1>2. \A w : \A x \in EvictFromDev(b, w).ev : x.kind \in {"Evict", "Quarantine"}
  BY DEF EvictFromDev, EvictEvent, Event
<1>3. \A x \in r2.ev : x.kind \in {"Evict", "Quarantine"}
  BY DEF AfterGlobalBudget, EvictOldestGlobal, Untouched, EvictEvent, Event
<1> QED
  BY <1>1, <1>2, <1>3

(* A chunk c joined what waited in a segment, some of it was evicted or    *)
(* replaced, and what was then ready was popped.                           *)
Flows(d, s, c) ==
  LET old == Seg(buf, d, s)
      new == Seg(buf', d, s)
  IN  \E p, D : /\ p \subseteq old.pend \cup {c} /\ D \subseteq p
                /\ new.pend = p \ D
                /\ Popped(p, old.next, D, new.next)

(* So it is with an accepted chunk, and beside the budgets' events there   *)
(* is just the Append of what it popped.                                   *)
LEMMA AcceptFlows ==
  ASSUME AccountingInv, NEW d \in Dev, NEW s \in SegSeq,
         NEW off \in Nat, NEW len \in Nat \ {0}, AcceptChunk(d, s, off, len)
  PROVE  /\ Flows(d, s, NewPart(off, len, Seg(buf, d, s).next))
         /\ Seg(buf', d, s).next >= Seg(buf, d, s).next
         /\ events' \ {ev \in events' : ev.kind \in {"Evict", "Quarantine"}}
              = AppendEvents(d, s, Seg(buf, d, s).next, Seg(buf', d, s).next)
<1> DEFINE old == Seg(buf, d, s)
           n == old.next
           c == NewPart(off, len, n)
<1>0. BufOK(buf) /\ Charged(buf) /\ now \in Nat
  BY DEF AccountingInv, Inv, TypeOK
<1>1. n \in Nat /\ off + len > n
  <2>1. n \in Nat
    BY <1>0 DEF BufOK, Seg, SegmentBuf
  <2>2. off + len > n
    BY DEF AcceptChunk
  <2> QED
    BY <2>1, <2>2
<1>2. c \in Chunk /\ c.off >= n /\ c.len <= len
  BY <1>1, NewPartType
<1>3. \E r1, r2, D, e : Stages(d, s, len, c, r1, r2, D, e)
  <2>1. \E r1 \in AfterDevBudget(buf, d, s, c) :
        \E r2 \in AfterGlobalBudget(r1.buf, c) :
        \E D \in SUBSET Seg(Insert(r2.buf, d, s, c), d, s).pend : \E e :
           /\ Popped(Seg(Insert(r2.buf, d, s, c), d, s).pend, n, D, e)
           /\ buf' = Drain(Insert(r2.buf, d, s, c), d, s, D, e)
           /\ events' = r1.ev \cup r2.ev \cup AppendEvents(d, s, n, e)
    BY DEF AcceptChunk
  <2> HIDE DEF c
  <2> QED
    BY <1>2, <2>1 DEF Stages
<1> HIDE DEF c
<1>4. PICK r1, r2, D, e : Stages(d, s, len, c, r1, r2, D, e)
  BY <1>3
<1>5. StageResult(d, s, c, r1, r2, D, e, buf')
  BY <1>0, <1>4, StageFacts
<1> DEFINE b2 == r2.buf
           mid == Seg(b2, d, s)
           in == Insert(b2, d, s, c)
           seg == Seg(in, d, s)
           new == Seg(buf', d, s)
<1>6. /\ r1 \in AfterDevBudget(buf, d, s, c)
      /\ r2 \in AfterGlobalBudget(r1.buf, c)
      /\ D \in SUBSET seg.pend /\ Popped(seg.pend, n, D, e)
      /\ events' = r1.ev \cup r2.ev \cup AppendEvents(d, s, n, e)
  BY <1>4 DEF Stages
<1>7. mid.pend \subseteq old.pend
  <2>1. Evicted(buf, r1.buf)
    <3>1. r1 \in EvictOldestInDev(buf, d) \/ r1 = Untouched(buf)
      BY <1>6 DEF AfterDevBudget
    <3> QED
      BY <1>0, <3>1, DevEvictionEvicts, EvictedRefl DEF Untouched
  <2>2. Evicted(r1.buf, b2)
    <3>1. r2 \in EvictOldestGlobal(r1.buf) \/ r2 = Untouched(r1.buf)
      BY <1>6 DEF AfterGlobalBudget
    <3> QED
      BY <1>5, <3>1, GlobalEvictionEvicts, EvictedRefl DEF Untouched, StageResult
  <2> QED
    BY <2>1, <2>2 DEF Evicted
<1>8. seg = With(mid, c) /\ new = DrainSeg(seg, D, e)
  BY <1>5 DEF StageResult
<1>9. mid \in SegmentBuf /\ seg \in SegmentBuf /\ new \in SegmentBuf
  BY <1>5 DEF StageResult, BufOK, Seg
<1>10. seg.pend \subseteq mid.pend \cup {c}
  BY <1>8, <1>9 DEF With, SegmentBuf
<1>11. new.next = e /\ new.pend = seg.pend \ D
  BY <1>8, <1>9 DEF DrainSeg, SegmentBuf
<1>12. e >= n
  <2>1. seg.pend \subseteq Chunk
    BY <1>9 DEF SegmentBuf
  <2>2. e = n \/ \E y \in D : End(y) = e /\ y.off >= n
    BY <1>6 DEF Popped
  <2> QED
    BY <1>1, <1>6, <2>1, <2>2 DEF Chunk, End
<1>13. Flows(d, s, c)
  <2>1. seg.pend \subseteq old.pend \cup {c}
    BY <1>7, <1>10
  <2>2. D \subseteq seg.pend /\ new.pend = seg.pend \ D /\ Popped(seg.pend, n, D, new.next)
    BY <1>6, <1>11
  <2> HIDE DEF seg
  <2> QED
    BY <2>1, <2>2 DEF Flows
<1>14. events' \ {ev \in events' : ev.kind \in {"Evict", "Quarantine"}} = AppendEvents(d, s, n, e)
  <2>1. \A ev \in r1.ev \cup r2.ev : ev.kind \in {"Evict", "Quarantine"}
    BY <1>6, StageEvents
  <2>2. \A ev \in AppendEvents(d, s, n, e) : ev.kind = "Append"
    BY DEF AppendEvents, Event
  <2> QED
    BY <1>6, <2>1, <2>2
<1> QED
  BY <1>11, <1>12, <1>13, <1>14 DEF c

(* place_chunk tells the truth of every segment, releases none, and leaves *)
(* the cursors of the other ones.                                          *)
LEMMA PlaceTells ==
  ASSUME AccountingInv, NEW d \in Dev, NEW s \in SegSeq, NEW off \in 0 .. SegSize - 1,
         NEW len \in 1 .. MaxLen, PlaceChunk(d, s, off, len)
  PROVE  /\ Told
         /\ \A x \in Dev, q \in SegSeq : ~Finishes(x, q)
         /\ OthersKept(d, s)
         /\ \A x \in Dev, q \in SegSeq : x # d \/ q # s => Appends(x, q) = {}
         /\ \/ Seg(buf', d, s).next = Seg(buf, d, s).next
               /\ Seg(buf', d, s).pend \subseteq Seg(buf, d, s).pend
            \/ Flows(d, s, NewPart(off, len, Seg(buf, d, s).next))
<1>1. off \in Nat /\ len \in Nat \ {0}
  BY SizesAssumption
<1>2. BufOK(buf) /\ now \in Nat
  BY DEF AccountingInv, Inv, TypeOK
<1>3. CASE DropQuarantined(d, s, off, len) \/ DropDuplicate(d, s, off, len)
  <2>1. buf' = buf
    BY <1>3 DEF DropQuarantined, DropDuplicate
  <2>2. \A ev \in events' : ev.kind # "Append" /\ ev.kind # "Sealed"
    BY <1>3 DEF DropQuarantined, DropDuplicate, Event
  <2> QED
    BY <2>1, <2>2 DEF Told, Tells, Appends, Finishes, OthersKept, ChargeOK, Seg
<1>4. CASE FailSegment(d, s, off, len)
  <2>1. /\ OthersKept(d, s)
        /\ Seg(buf', d, s).next = Seg(buf, d, s).next
        /\ Seg(buf', d, s).pend = {}
    BY <1>2, <1>4, FailStep
  <2>2. \A ev \in events' : ev.kind # "Append" /\ ev.kind # "Sealed"
    BY <1>4 DEF FailSegment, Event
  <2>3. \A x \in Dev, q \in SegSeq : Seg(buf', x, q).next = Seg(buf, x, q).next
    BY <2>1 DEF OthersKept
  <2> QED
    BY <2>1, <2>2, <2>3 DEF Told, Tells, Appends, Finishes
<1>5. CASE AcceptChunk(d, s, off, len)
  <2> DEFINE n == Seg(buf, d, s).next
             m == Seg(buf', d, s).next
  <2>1. OthersKept(d, s) /\ BufOK(buf')
    BY <1>1, <1>2, <1>5, AcceptStep
  <2>2. /\ Flows(d, s, NewPart(off, len, n))
        /\ m >= n
        /\ events' \ {ev \in events' : ev.kind \in {"Evict", "Quarantine"}} = AppendEvents(d, s, n, m)
    BY <1>1, <1>5, AcceptFlows
  <2>3. n \in Nat /\ m \in Nat
    BY <1>2, <2>1 DEF BufOK, Seg, SegmentBuf
  <2>4. AppendEvents(d, s, n, m) = IF n = m THEN {} ELSE {Event("Append", d, s, n, m)}
    BY DEF AppendEvents
  <2>5. /\ Event("Append", d, s, n, m).kind = "Append"
        /\ Event("Append", d, s, n, m).dev = d
        /\ Event("Append", d, s, n, m).seq = s
    BY DEF Event
  <2> DEFINE out == AppendEvents(d, s, n, m)
  <2>6. \A ev : (ev \in events' /\ ev.kind \in {"Append", "Sealed"}) => ev \in out
    BY <2>2
  <2>7. out \subseteq events'
    BY <2>2
  <2>8. \A ev \in out : ev.kind = "Append" /\ ev.dev = d /\ ev.seq = s
    BY <2>4, <2>5
  <2> HIDE DEF out
  <2>9. \A x \in Dev, q \in SegSeq : ~Finishes(x, q)
    BY <2>6, <2>8 DEF Finishes
  <2>10. \A x \in Dev, q \in SegSeq : x # d \/ q # s => Appends(x, q) = {}
    BY <2>6, <2>8 DEF Appends
  <2>11. Appends(d, s) = out
    BY <2>6, <2>7, <2>8 DEF Appends
  <2>12. Tells(d, s)
    <3>1. out = IF n = m THEN {} ELSE {Event("Append", d, s, n, m)}
      BY <2>4 DEF out
    <3> QED
      BY <2>2, <2>3, <2>9, <2>11, <3>1 DEF Tells
  <2>13. ASSUME NEW x \in Dev, NEW q \in SegSeq, x # d \/ q # s PROVE Tells(x, q)
    <3>1. Seg(buf', x, q).next = Seg(buf, x, q).next
      BY <2>1, <2>13 DEF OthersKept
    <3> QED
      BY <2>9, <2>10, <2>13, <3>1 DEF Tells
  <2>14. Told
    BY <2>12, <2>13 DEF Told
  <2> QED
    BY <2>1, <2>2, <2>9, <2>10, <2>14
<1> QED
  BY <1>3, <1>4, <1>5 DEF PlaceChunk

(* seal tells the truth as well; it releases its own segment or reports    *)
(* its gap, never both, and hands on no bytes.                             *)
LEMMA SealTells ==
  ASSUME AccountingInv, NEW d \in Dev, NEW s \in SegSeq, Seal(d, s, SegSize)
  PROVE  /\ Told
         /\ \A x \in Dev, q \in SegSeq : Appends(x, q) = {}
         /\ \A x \in Dev, q \in SegSeq : Finishes(x, q) => x = d /\ q = s
         /\ \A x \in Dev, q \in SegSeq : Seg(buf', x, q).pend \subseteq Seg(buf, x, q).pend
         /\ \A ev \in events' : ev.kind = "SealGap" =>
              ev = Event("SealGap", d, s, Seg(buf, d, s).next, SegSize)
         /\ Finishes(d, s) => \A ev \in events' : ev.kind # "SealGap"
<1>1. BufOK(buf) /\ SegSize \in Nat \ {0}
  BY SizesAssumption DEF AccountingInv, Inv, TypeOK
<1>2. \A ev \in SkippedEvents(d, s) : ev.kind = "SeqSkipped"
  BY DEF SkippedEvents, Event
<1>3. CASE SealUnknown(d, s) \/ SealWithGap(d, s, SegSize)
  <2>1. buf' = buf
    BY <1>3 DEF SealUnknown, SealWithGap
  <2>2. \A ev \in events' : /\ ev.kind # "Append" /\ ev.kind # "Sealed"
                            /\ ev.kind = "SealGap" => ev = Event("SealGap", d, s, Seg(buf, d, s).next, SegSize)
    BY <1>2, <1>3 DEF SealUnknown, SealWithGap, Event
  <2> QED
    BY <2>1, <2>2 DEF Told, Tells, Appends, Finishes, Seg
<1>4. CASE SealComplete(d, s, SegSize)
  <2>1. /\ OthersKept(d, s)
        /\ Seg(buf', d, s) = EmptySeg
        /\ Seg(buf, d, s).next = SegSize
    BY <1>1, <1>4, ReleaseStep DEF SealComplete
  <2>2. \A ev \in events' : ev.kind = "SeqSkipped" \/ ev = Event("Sealed", d, s, 0, SegSize)
    BY <1>2, <1>4 DEF SealComplete
  <2>3. Event("Sealed", d, s, 0, SegSize) \in events'
    BY <1>4 DEF SealComplete
  <2>4. \A x \in Dev, q \in SegSeq : Appends(x, q) = {} /\ (Finishes(x, q) <=> x = d /\ q = s)
    BY <2>2, <2>3 DEF Appends, Finishes, Event
  <2>5. EmptySeg.next = 0 /\ EmptySeg.pend = {}
    BY DEF EmptySeg
  <2>6. Told
    <3>1. ASSUME NEW x \in Dev, NEW q \in SegSeq, x # d \/ q # s PROVE Tells(x, q)
      <4>1. Seg(buf', x, q).next = Seg(buf, x, q).next
        BY <2>1, <3>1 DEF OthersKept
      <4> QED
        BY <2>4, <3>1, <4>1 DEF Tells
    <3>2. Tells(d, s)
      BY <2>1, <2>4, <2>5 DEF Tells
    <3> QED
      BY <3>1, <3>2 DEF Told
  <2>7. \A x \in Dev, q \in SegSeq : Seg(buf', x, q).pend \subseteq Seg(buf, x, q).pend
    BY <2>1, <2>5 DEF OthersKept
  <2>8. \A ev \in events' : ev.kind # "SealGap"
    BY <2>2 DEF Event
  <2> QED
    BY <2>4, <2>6, <2>7, <2>8
<1> QED
  BY <1>3, <1>4 DEF Seal

(* A frame as the source sends it: a chunk within its segment, or a seal.  *)
FrameOK(f) ==
  /\ f.key \in Key
  /\ \/ f.kind = "Chunk" /\ f.off \in 0 .. SegSize - 1 /\ f.len \in 1 .. MaxLen
        /\ f.off + f.len <= SegSize
     \/ f = SealFrame(f.key)

(* The type of known.                                                      *)
Fates == [sealed : SUBSET Key, released : SUBSET Key, givenUp : SUBSET Key, hurt : SUBSET Key]

(* The type of the ingest's own state.                                     *)
Traffic ==
  /\ \A f \in wire : FrameOK(f)
  /\ \A q \in queries : q.key \in Key /\ q.start \in Nat
  /\ refills \subseteq [key : Key, last : Nat, rounds : Nat]
  /\ decoders \in [Key -> Nat]
  /\ known \in Fates

(* What the source cuts are frames of the segment.                         *)
LEMMA CutFrames ==
  ASSUME NEW key \in Key, NEW from \in Nat, NEW f \in Cut(key, from)
  PROVE  FrameOK(f) /\ f.kind = "Chunk" /\ f.key = key
<1>1. PICK o \in from .. SegSize - 1 : f = ChunkFrame(key, o, Min({MaxLen, SegSize - o}))
  BY DEF Cut
<1>2. o \in 0 .. SegSize - 1 /\ o \in Nat /\ SegSize \in Nat /\ MaxLen \in Nat \ {0} /\ SegSize - o \in Nat \ {0}
  BY SizesAssumption
<1>3. \A a, b \in Nat : Min({a, b}) \in {a, b} /\ Min({a, b}) <= a /\ Min({a, b}) <= b
  <2> SUFFICES ASSUME NEW a \in Nat, NEW b \in Nat
               PROVE  Min({a, b}) \in {a, b} /\ Min({a, b}) <= a /\ Min({a, b}) <= b
    OBVIOUS
  <2>1. \E x \in {a, b} : \A y \in {a, b} : x <= y
    <3>1. CASE a <= b
      BY <3>1
    <3>2. CASE ~(a <= b)
      BY <3>2
    <3> QED
      BY <3>1, <3>2
  <2> QED
    BY <2>1 DEF Min
<1> DEFINE l == Min({MaxLen, SegSize - o})
<1>4. l \in 1 .. MaxLen /\ l <= SegSize - o
  BY <1>2, <1>3
<1> HIDE DEF l
<1>5. f = [kind |-> "Chunk", key |-> key, off |-> o, len |-> l]
  BY <1>1 DEF ChunkFrame, l
<1> QED
  BY <1>2, <1>4, <1>5 DEF FrameOK

(* A key is its device and its segment's number.                           *)
LEMMA KeyParts ==
  ASSUME NEW key \in Key
  PROVE  key[1] \in Dev /\ key[2] \in SegSeq /\ key = <<key[1], key[2]>>
BY DEF Key

(* The first state.                                                        *)
LEMMA IngestInitTraffic == IngestInit => Init /\ Traffic
<1> SUFFICES ASSUME IngestInit PROVE Traffic
  BY DEF IngestInit
<1>1. \A f \in wire : FrameOK(f)
  <2> SUFFICES ASSUME NEW f \in wire PROVE FrameOK(f)
    OBVIOUS
  <2>1. PICK key \in Key : f \in Cut(key, 0) \/ f = SealFrame(key)
    BY DEF IngestInit
  <2>2. CASE f = SealFrame(key)
    BY <2>2 DEF SealFrame, FrameOK
  <2> QED
    BY <2>1, <2>2, CutFrames
<1> QED
  BY <1>1 DEF IngestInit, Traffic, Fates

(* A chunk delivered is a call the engine's specification allows.          *)
LEMMA OnChunkEngine ==
  ASSUME Traffic, NEW f \in wire, OnChunk(f)
  PROVE  /\ f.key \in Key
         /\ f.off \in 0 .. SegSize - 1 /\ f.len \in 1 .. MaxLen /\ f.off + f.len <= SegSize
         /\ PlaceChunk(f.key[1], f.key[2], f.off, f.len)
         /\ Next
<1>1. /\ f.key \in Key
      /\ f.off \in 0 .. SegSize - 1 /\ f.len \in 1 .. MaxLen /\ f.off + f.len <= SegSize
  BY DEF OnChunk, Traffic, FrameOK, SealFrame
<1>2. f.key[1] \in Dev /\ f.key[2] \in SegSeq
  BY <1>1, KeyParts
<1>3. PlaceChunk(f.key[1], f.key[2], f.off, f.len)
  BY DEF OnChunk
<1> QED
  BY <1>1, <1>2, <1>3 DEF Next

(* So is a seal of any segment,                                            *)
LEMMA SealEngine ==
  ASSUME NEW key \in Key, Seal(key[1], key[2], SegSize)
  PROVE  Next
BY KeyParts DEF Next

(* that of a frame delivered                                               *)
LEMMA OnSealEngine ==
  ASSUME Traffic, NEW f \in wire, OnSeal(f)
  PROVE  f.key \in Key /\ f = SealFrame(f.key) /\ Seal(f.key[1], f.key[2], SegSize) /\ Next
<1>1. f.key \in Key /\ f = SealFrame(f.key)
  BY DEF OnSeal, Traffic, FrameOK
<1>2. Seal(f.key[1], f.key[2], SegSize)
  BY DEF OnSeal
<1> QED
  BY <1>1, <1>2, SealEngine

(* and that of a refill.                                                   *)
LEMMA TickEngine ==
  ASSUME Traffic, NEW r \in refills, TickRefill(r)
  PROVE  r.key \in Key /\ Seal(r.key[1], r.key[2], SegSize) /\ Next
BY SealEngine DEF Traffic, TickRefill

(* Hence a step of the ingest is a step of the engine or leaves it alone.  *)
LEMMA IngestStepEngine == Traffic /\ [IngestNext]_allVars => [Next]_vars
<1> SUFFICES ASSUME Traffic, [IngestNext]_allVars PROVE [Next]_vars
  OBVIOUS
<1>1. ASSUME NEW f \in wire, OnChunk(f) PROVE Next
  BY <1>1, OnChunkEngine
<1>2. ASSUME NEW f \in wire, OnSeal(f) PROVE Next
  BY <1>2, OnSealEngine
<1>3. ASSUME NEW r \in refills, TickRefill(r) PROVE Next
  BY <1>3, TickEngine
<1>4. CASE TickStart
  BY <1>4 DEF TickStart
<1>5. ASSUME NEW q \in queries, Answer(q) PROVE UNCHANGED vars
  BY <1>5 DEF Answer
<1>6. ASSUME NEW f \in wire, Lose(f) PROVE UNCHANGED vars
  BY <1>6 DEF Lose
<1>7. CASE UNCHANGED allVars
  BY <1>7 DEF allVars
<1> QED
  BY <1>1, <1>2, <1>3, <1>4, <1>5, <1>6, <1>7 DEF IngestNext, Deliver, Tick

(* The gap a seal reports is the one of its segment, from the cursor on.   *)
LEMMA SealGapsOf ==
  ASSUME AccountingInv, NEW key \in Key, Seal(key[1], key[2], SegSize)
  PROVE  \A g \in GapsOf : /\ g = Refill(key, g.last, 0) /\ g.last \in Nat
                           /\ g.last = Seg(buf, key[1], key[2]).next
<1> SUFFICES ASSUME NEW g \in GapsOf
             PROVE  g = Refill(key, g.last, 0) /\ g.last \in Nat /\ g.last = Seg(buf, key[1], key[2]).next
  OBVIOUS
<1>1. PICK ev \in events' : ev.kind = "SealGap" /\ g = Refill(<<ev.dev, ev.seq>>, ev.from, 0)
  BY DEF GapsOf
<1>2. ev = Event("SealGap", key[1], key[2], Seg(buf, key[1], key[2]).next, SegSize)
  BY <1>1, KeyParts, SealTells
<1>3. ev.dev = key[1] /\ ev.seq = key[2] /\ ev.from = Seg(buf, key[1], key[2]).next
  BY <1>2 DEF Event
<1>4. Seg(buf, key[1], key[2]).next \in Nat
  BY KeyParts DEF AccountingInv, Inv, TypeOK, BufOK, Seg, SegmentBuf
<1> QED
  BY <1>1, <1>3, <1>4, KeyParts DEF Refill

(* The bytes an event carries to a segment's decoder are the way its       *)
(* cursor went.                                                            *)
LEMMA BytesNat ==
  ASSUME AccountingInv, AccountingInv', Told, NEW key \in Key
  PROVE  /\ Bytes(key) \in Nat
         /\ LET from == Seg(buf, key[1], key[2]).next
                to == Seg(buf', key[1], key[2]).next
            IN  /\ from \in Nat /\ to \in Nat
                /\ \/ to = from + Bytes(key) /\ ~Happened("Sealed", key)
                   \/ to = 0 /\ from = SegSize /\ Bytes(key) = 0 /\ Happened("Sealed", key)
<1> DEFINE d == key[1]
           s == key[2]
           from == Seg(buf, d, s).next
           to == Seg(buf', d, s).next
<1>1. d \in Dev /\ s \in SegSeq /\ key = <<d, s>>
  BY KeyParts
<1>2. from \in Nat /\ to \in Nat
  BY <1>1 DEF AccountingInv, Inv, TypeOK, BufOK, Seg, SegmentBuf
<1>3. Appended(key) = Appends(d, s)
  BY <1>1 DEF Appended, Appends
<1>4. Happened("Sealed", key) <=> Finishes(d, s)
  BY <1>1 DEF Happened, Finishes
<1>5. Tells(d, s)
  BY <1>1 DEF Told
<1>6. CASE Appends(d, s) = {}
  <2>1. Bytes(key) = 0
    BY <1>3, <1>6 DEF Bytes
  <2> QED
    BY <1>2, <1>4, <1>5, <1>6, <2>1 DEF Tells
<1>7. CASE Appends(d, s) # {}
  <2>1. to > from /\ Appends(d, s) = {Event("Append", d, s, from, to)} /\ ~Finishes(d, s)
    BY <1>5, <1>7 DEF Tells
  <2>2. Event("Append", d, s, from, to).to - Event("Append", d, s, from, to).from = to - from
    BY DEF Event
  <2>3. Bytes(key) = to - from
    <3>1. Appended(key) = {Event("Append", d, s, from, to)}
      BY <1>3, <2>1
    <3>2. (CHOOSE a \in Appended(key) : TRUE) = Event("Append", d, s, from, to)
      BY <3>1
    <3> QED
      BY <2>2, <3>1, <3>2 DEF Bytes
  <2> QED
    BY <1>2, <1>4, <2>1, <2>3
<1> QED
  BY <1>6, <1>7

(* Draining the events moves the decoder as the call moved the cursor.     *)
LEMMA DrainFollows ==
  ASSUME AccountingInv, AccountingInv', Traffic, Told, Drained, DecoderFollowsCursor
  PROVE  DecoderFollowsCursor' /\ decoders' \in [Key -> Nat]
<1> SUFFICES ASSUME NEW key \in Key
             PROVE  decoders'[key] = Seg(buf', key[1], key[2]).next /\ decoders'[key] \in Nat
  <2>1. DOMAIN decoders' = Key /\ decoders' = [k \in Key |-> decoders'[k]]
    BY DEF Drained
  <2> QED
    BY <2>1 DEF DecoderFollowsCursor
<1>1. decoders'[key] = IF Happened("Sealed", key) THEN 0 ELSE decoders[key] + Bytes(key)
  BY DEF Drained
<1>2. decoders[key] = Seg(buf, key[1], key[2]).next
  BY DEF DecoderFollowsCursor
<1> QED
  BY <1>1, <1>2, BytesNat

-----------------------------------------------------------------------------
(* The first n records.                                                    *)
First(n) == [k \in 1 .. n |-> k]

(* They are a sequence.                                                    *)
LEMMA FirstIs ==
  ASSUME NEW n \in Nat
  PROVE  First(n) \in Seq(Nat) /\ Len(First(n)) = n /\ \A k \in 1 .. n : First(n)[k] = k
BY DEF First

(* More bytes make no fewer records.                                       *)
LEMMA DivMonotone ==
  ASSUME NEW r \in Nat \ {0}, NEW n \in Nat, NEW m \in Nat, n <= m
  PROVE  n \div r \in Nat /\ m \div r \in Nat /\ n \div r <= m \div r
<1> DEFINE a == n \div r
           b == m \div r
<1>1. a \in Int /\ n % r \in 0 .. r - 1 /\ n = a * r + (n % r)
  OBVIOUS
<1>2. b \in Int /\ m % r \in 0 .. r - 1 /\ m = b * r + (m % r)
  OBVIOUS
<1> HIDE DEF a, b
<1>3. \A c \in Int : c <= -1 => c * r <= -r
  OBVIOUS
<1>4. a >= 0
  <2>1. a <= -1 => a * r <= -r
    BY <1>1, <1>3
  <2>2. a * r \in Int
    BY <1>1
  <2> QED
    BY <1>1, <2>1, <2>2
<1>5. b >= a
  <2>1. b - a <= -1 => (b - a) * r <= -r
    BY <1>1, <1>2, <1>3
  <2>2. (b - a) * r = b * r - a * r /\ a * r \in Int /\ b * r \in Int
    BY <1>1, <1>2
  <2> QED
    BY <1>1, <1>2, <2>1, <2>2
<1> QED
  BY <1>1, <1>2, <1>4, <1>5 DEF a, b

(* Feeding n bytes to a decoder that was fed from bytes completes the      *)
(* records that they are the end of, whatever the residue was.             *)
LEMMA DecodedIs ==
  ASSUME NEW from \in Nat, NEW n \in Nat
  PROVE  /\ Decoded(from, from + n) \in Seq(Nat)
         /\ First(from \div RecLen) \o Decoded(from, from + n) = First((from + n) \div RecLen)
<1> DEFINE a == from \div RecLen
           b == (from + n) \div RecLen
           more == [k \in 1 .. b - a |-> a + k]
<1>1. a \in Nat /\ b \in Nat /\ a <= b
  BY DivMonotone, IngestAssumption
<1>2. Decoded(from, from + n) = more
  BY DEF Decoded
<1> HIDE DEF a, b
<1>3. more \in Seq(Nat) /\ Len(more) = b - a /\ \A k \in 1 .. b - a : more[k] = a + k
  BY <1>1
<1> HIDE DEF more
<1>4. First(a) \in Seq(Nat) /\ Len(First(a)) = a /\ \A k \in 1 .. a : First(a)[k] = k
  BY <1>1, FirstIs
<1>5. First(b) \in Seq(Nat) /\ Len(First(b)) = b /\ \A k \in 1 .. b : First(b)[k] = k
  BY <1>1, FirstIs
<1> DEFINE head == First(a)
<1>6. /\ head \o more \in Seq(Nat)
      /\ Len(head \o more) = a + (b - a)
      /\ \A i \in 1 .. a + (b - a) : (head \o more)[i] = IF i <= a THEN head[i] ELSE more[i - a]
  <2>1. head \in Seq(Nat) /\ Len(head) = a
    BY <1>4
  <2> HIDE DEF head
  <2>2. /\ head \o more \in Seq(Nat)
        /\ Len(head \o more) = Len(head) + Len(more)
        /\ \A i \in 1 .. Len(head) + Len(more) :
             (head \o more)[i] = IF i <= Len(head) THEN head[i] ELSE more[i - Len(head)]
    BY <1>3, <2>1, ConcatProperties
  <2> QED
    BY <1>3, <2>1, <2>2
<1>7. a + (b - a) = b
  BY <1>1
<1>8. ASSUME NEW i \in 1 .. b PROVE (First(a) \o more)[i] = i
  <2>1. CASE i <= a
    BY <1>1, <1>4, <1>6, <1>7, <2>1
  <2>2. CASE ~(i <= a)
    <3>1. i - a \in 1 .. b - a /\ a + (i - a) = i
      BY <1>1, <2>2
    <3>2. more[i - a] = i
      BY <1>3, <3>1
    <3> QED
      BY <1>6, <1>7, <2>2, <3>2
  <2> QED
    BY <2>1, <2>2
<1>9. First(a) \o more = First(b)
  BY <1>5, <1>6, <1>7, <1>8, SeqEqual
<1> QED
  BY <1>2, <1>3, <1>9 DEF a, b

(* A prefix stays one when the sequence grows.                             *)
LEMMA PrefixGrows ==
  ASSUME NEW p \in Seq(Nat), NEW s \in Seq(Nat), NEW t \in Seq(Nat), IsPrefix(p, s)
  PROVE  IsPrefix(p, s \o t)
<1>1. Len(p) \in Nat /\ Len(s) \in Nat /\ Len(t) \in Nat /\ Len(p) <= Len(s)
  BY LenProperties DEF IsPrefix
<1>2. /\ s \o t \in Seq(Nat)
      /\ Len(s \o t) = Len(s) + Len(t)
      /\ \A i \in 1 .. Len(s) + Len(t) : (s \o t)[i] = IF i <= Len(s) THEN s[i] ELSE t[i - Len(s)]
  BY ConcatProperties
<1> DEFINE n == Len(p)
           x == s \o t
<1>3. \A i \in 1 .. n : x[i] = s[i] /\ s[i] \in Nat /\ x[i] \in Nat
  <2> SUFFICES ASSUME NEW i \in 1 .. n PROVE x[i] = s[i] /\ s[i] \in Nat
    OBVIOUS
  <2>1. i \in 1 .. Len(s) /\ i \in 1 .. Len(s) + Len(t) /\ i <= Len(s)
    BY <1>1
  <2>2. s[i] \in Nat
    BY <2>1, ElementOfSeq
  <2> QED
    BY <1>2, <2>1, <2>2
<1> HIDE DEF x
<1>4. /\ SubSeq(x, 1, n) \in Seq(Nat) /\ Len(SubSeq(x, 1, n)) = IF 1 <= n THEN n - 1 + 1 ELSE 0
      /\ \A i \in 1 .. n - 1 + 1 : SubSeq(x, 1, n)[i] = x[1 + i - 1]
  BY SMTT(40), <1>1, <1>3, SubSeqProperties
<1>5. /\ SubSeq(s, 1, n) \in Seq(Nat) /\ Len(SubSeq(s, 1, n)) = IF 1 <= n THEN n - 1 + 1 ELSE 0
      /\ \A i \in 1 .. n - 1 + 1 : SubSeq(s, 1, n)[i] = s[1 + i - 1]
  BY <1>1, <1>3, SubSeqProperties
<1>6. Len(SubSeq(s, 1, n)) = n /\ n - 1 + 1 = n /\ \A i \in 1 .. n : 1 + i - 1 = i
  BY <1>1, <1>5
<1>7. \A i \in 1 .. n : SubSeq(x, 1, n)[i] = SubSeq(s, 1, n)[i]
  BY <1>3, <1>4, <1>5, <1>6
<1>8. SubSeq(x, 1, n) = SubSeq(s, 1, n)
  BY <1>4, <1>5, <1>6, <1>7, SeqEqual
<1>9. Len(p) <= Len(x)
  BY <1>1, <1>2 DEF x
<1> QED
  BY <1>8, <1>9 DEF IsPrefix, x

(* A sequence is a prefix of itself.                                       *)
LEMMA PrefixItself ==
  ASSUME NEW p \in Seq(Nat)
  PROVE  IsPrefix(p, p)
BY LenProperties DEF IsPrefix

(* What is stored of a segment: the records its decoder has completed, or, *)
(* once it was released, all of them first.                                *)
Records(key) ==
  /\ stored[key] \in Seq(Nat)
  /\ IF key \in known.released THEN IsPrefix(Whole, stored[key])
     ELSE stored[key] = First(decoders[key] \div RecLen)

(* And so for every segment, while no push fails.                          *)
Recorded == ~net.failing => DOMAIN stored = Key /\ \A key \in Key : Records(key)

(* The inductive invariant of the ingest around the engine's. A decoder    *)
(* standing at its cursor is not enough for what is stored: that takes the *)
(* records completed so far.                                               *)
IngestInv == AccountingInv /\ Traffic /\ DecoderFollowsCursor /\ Recorded

(* A whole segment is its first SegSize \div RecLen records.               *)
LEMMA WholeIs == Whole = First(SegSize \div RecLen) /\ Whole \in Seq(Nat)
<1>1. SegSize \div RecLen \in Nat
  BY DivMonotone, IngestAssumption, SizesAssumption
<1>2. Whole = First(SegSize \div RecLen)
  BY DEF Whole, First
<1> QED
  BY <1>1, <1>2, FirstIs

(* Without failures all the records are pushed.                            *)
LEMMA DrainPushes ==
  ASSUME Drained, ~net.failing
  PROVE  stored' = [key \in Key |->
           stored[key] \o Decoded(decoders[key], decoders[key] + Bytes(key))]
<1>1. Droppings = {{}}
  BY DEF Droppings
<1>2. \A records : Pushed(records, {}) = records
  BY DEF Pushed
<1>3. stored' = [key \in Key |->
        stored[key] \o Pushed(Decoded(decoders[key], decoders[key] + Bytes(key)), {})]
  BY <1>1 DEF Drained
<1> QED
  BY <1>2, <1>3

(* Draining keeps what is stored in step with the decoders, when the       *)
(* segments that were released are known.                                  *)
LEMMA DrainRecords ==
  ASSUME IngestInv, AccountingInv', Told, Drained, net' = net,
         \A key \in Key : key \in known'.released <=> (key \in known.released \/ Happened("Sealed", key))
  PROVE  Recorded'
<1> SUFFICES ASSUME ~net.failing, NEW key \in Key PROVE Records(key)'
  BY DrainPushes DEF Recorded
<1> DEFINE from == decoders[key]
           n == Bytes(key)
           old == stored[key]
           more == Decoded(from, from + n)
           new == stored'[key]
<1>1. from = Seg(buf, key[1], key[2]).next /\ from \in Nat
  BY DEF IngestInv, DecoderFollowsCursor, Traffic
<1>2. n \in Nat /\ (Happened("Sealed", key) => n = 0 /\ from = SegSize)
  BY <1>1, BytesNat DEF IngestInv
<1>3. new = old \o more
  BY DrainPushes
<1>4. old \in Seq(Nat) /\ Records(key)
  BY DEF IngestInv, Recorded, Records
<1>5. more \in Seq(Nat) /\ First(from \div RecLen) \o more = First((from + n) \div RecLen)
  BY <1>1, <1>2, DecodedIs
<1> HIDE DEF n, more, old, new, from
<1>6. new \in Seq(Nat)
  BY <1>3, <1>4, <1>5, ConcatProperties
<1>7. CASE key \in known.released
  <2>1. IsPrefix(Whole, old)
    BY <1>4, <1>7 DEF Records, old
  <2>2. IsPrefix(Whole, new)
    BY <1>3, <1>4, <1>5, <2>1, WholeIs, PrefixGrows
  <2>3. key \in known'.released
    BY <1>7
  <2> QED
    BY <1>6, <2>2, <2>3 DEF Records, new
<1>8. CASE key \notin known.released
  <2>1. new = First((from + n) \div RecLen)
    <3>1. old = First(from \div RecLen)
      BY <1>4, <1>8 DEF Records, old, from
    <3> QED
      BY <1>3, <1>5, <3>1
  <2>2. CASE Happened("Sealed", key)
    <3>1. key \in known'.released
      BY <2>2
    <3>2. from + n = SegSize
      BY <1>2, <2>2, SizesAssumption
    <3>3. new = Whole
      BY <2>1, <3>2, WholeIs
    <3> QED
      BY <1>6, <3>1, <3>3, PrefixItself DEF Records, new
  <2>3. CASE ~Happened("Sealed", key)
    <3>1. key \notin known'.released
      BY <1>8, <2>3
    <3>2. decoders'[key] = from + n
      BY <2>3 DEF Drained, from, n
    <3> QED
      BY <1>6, <2>1, <3>1, <3>2 DEF Records, new
  <2> QED
    BY <2>2, <2>3
<1> QED
  BY <1>7, <1>8

(* The events as the ingest reads them.                                    *)
LEMMA FinishesIs ==
  ASSUME NEW key \in Key, NEW kind
  PROVE  /\ Happened("Sealed", key) <=> Finishes(key[1], key[2])
         /\ Appended(key) = Appends(key[1], key[2])
BY KeyParts DEF Happened, Finishes, Appended, Appends

(* A chunk delivered keeps the invariant.                                  *)
LEMMA OnChunkStep ==
  ASSUME IngestInv, NEW f \in wire, OnChunk(f)
  PROVE  IngestInv'
<1>1. /\ f.key \in Key
      /\ f.off \in 0 .. SegSize - 1 /\ f.len \in 1 .. MaxLen
      /\ PlaceChunk(f.key[1], f.key[2], f.off, f.len)
      /\ Next
  BY OnChunkEngine DEF IngestInv
<1>2. AccountingInv'
  BY <1>1, NextAccounting DEF IngestInv
<1>3. Told /\ \A x \in Dev, q \in SegSeq : ~Finishes(x, q)
  BY <1>1, KeyParts, PlaceTells DEF IngestInv
<1>4. Drained /\ known' = [known EXCEPT !.hurt = @ \cup Hurt] /\ wire' \subseteq wire
      /\ net' = net /\ refills' = refills /\ queries' = queries
  BY DEF OnChunk
<1>5. DecoderFollowsCursor' /\ decoders' \in [Key -> Nat]
  BY <1>2, <1>3, <1>4, DrainFollows DEF IngestInv
<1>6. known \in Fates
  BY DEF IngestInv, Traffic
<1>7. known'.released = known.released
  BY <1>4, <1>6 DEF Fates
<1>8. \A key \in Key : ~Happened("Sealed", key)
  BY <1>3, KeyParts, FinishesIs
<1>9. Recorded'
  BY <1>2, <1>3, <1>4, <1>7, <1>8, DrainRecords
<1>10. Hurt \subseteq Key
  <2>1. events' \subseteq EventType
    BY <1>2 DEF AccountingInv, Inv, TypeOK, EventType
  <2>2. \A ev \in events' : ev.dev \in Dev /\ ev.seq \in SegSeq
    BY <2>1 DEF EventType
  <2> QED
    BY <2>2 DEF Hurt, Key
<1>11. known' \in Fates
  BY <1>4, <1>6, <1>10 DEF Fates
<1>12. Traffic'
  BY <1>4, <1>5, <1>11 DEF IngestInv, Traffic, FrameOK, SealFrame
<1> QED
  BY <1>2, <1>5, <1>9, <1>12 DEF IngestInv

(* What a seal leaves when its events are drained.                         *)
LEMMA SealDrained ==
  ASSUME IngestInv, NEW key \in Key, Seal(key[1], key[2], SegSize), Drained
  PROVE  /\ AccountingInv'
         /\ Told
         /\ DecoderFollowsCursor' /\ decoders' \in [Key -> Nat]
         /\ \A k \in Key : Happened("Sealed", k) => k = key
<1>1. Next
  BY SealEngine
<1>2. AccountingInv'
  BY <1>1, NextAccounting DEF IngestInv
<1>3. Told /\ \A x \in Dev, q \in SegSeq : Finishes(x, q) => x = key[1] /\ q = key[2]
  BY KeyParts, SealTells DEF IngestInv
<1>4. DecoderFollowsCursor' /\ decoders' \in [Key -> Nat]
  BY <1>2, <1>3, DrainFollows DEF IngestInv
<1>5. ASSUME NEW k \in Key, Happened("Sealed", k) PROVE k = key
  <2>1. Finishes(k[1], k[2])
    BY <1>5, FinishesIs
  <2>2. k[1] = key[1] /\ k[2] = key[2]
    BY <1>3, <2>1, KeyParts
  <2> QED
    BY <2>2, KeyParts
<1> QED
  BY <1>2, <1>3, <1>4, <1>5

(* A seal delivered keeps the invariant.                                   *)
LEMMA OnSealStep ==
  ASSUME IngestInv, NEW f \in wire, OnSeal(f)
  PROVE  IngestInv'
<1>1. f.key \in Key /\ Seal(f.key[1], f.key[2], SegSize)
  BY OnSealEngine DEF IngestInv
<1>2. /\ Drained /\ wire' = wire \ {f} /\ queries' = queries /\ net' = net
      /\ refills' = {r \in refills : r.key \notin {g.key : g \in GapsOf}} \cup GapsOf
      /\ known' = [known EXCEPT !.sealed = @ \cup {f.key},
                                !.released = IF Happened("Sealed", f.key) THEN @ \cup {f.key} ELSE @]
  BY DEF OnSeal
<1>3. /\ AccountingInv' /\ Told
      /\ DecoderFollowsCursor' /\ decoders' \in [Key -> Nat]
      /\ \A k \in Key : Happened("Sealed", k) => k = f.key
  BY <1>1, <1>2, SealDrained
<1>4. known \in Fates
  BY DEF IngestInv, Traffic
<1>5. known' \in Fates
      /\ known'.released = IF Happened("Sealed", f.key) THEN known.released \cup {f.key} ELSE known.released
  BY <1>1, <1>2, <1>4 DEF Fates
<1>6. Recorded'
  BY <1>2, <1>3, <1>5, DrainRecords
<1>7. GapsOf \subseteq [key : Key, last : Nat, rounds : Nat]
  BY <1>1, SealGapsOf DEF IngestInv, Refill
<1>8. refills' \subseteq [key : Key, last : Nat, rounds : Nat]
  BY <1>2, <1>7 DEF IngestInv, Traffic
<1>9. Traffic'
  BY <1>2, <1>3, <1>5, <1>8 DEF IngestInv, Traffic, FrameOK, SealFrame
<1> QED
  BY <1>3, <1>6, <1>9 DEF IngestInv

(* A refill after a round is one.                                          *)
LEMMA RefillUpdate ==
  ASSUME NEW r \in [key : Key, last : Nat, rounds : Nat], NEW l \in Nat, NEW m \in Nat
  PROVE  /\ [r EXCEPT !.last = l, !.rounds = m] \in [key : Key, last : Nat, rounds : Nat]
         /\ [r EXCEPT !.last = l, !.rounds = m].key = r.key
OBVIOUS

(* The refill sealed again is one of the same segment.                     *)
LEMMA ResealedIs ==
  ASSUME AccountingInv, NEW r \in [key : Key, last : Nat, rounds : Nat], Seal(r.key[1], r.key[2], SegSize)
  PROVE  Resealed(r) \in [key : Key, last : Nat, rounds : Nat] /\ Resealed(r).key = r.key
<1> DEFINE gaps == {g \in GapsOf : g.key = r.key}
           l == IF gaps = {} THEN r.last ELSE (CHOOSE g \in gaps : TRUE).last
           m == r.rounds + 1
<1>1. \A g \in gaps : g.last \in Nat
  BY SealGapsOf
<1>2. l \in Nat /\ m \in Nat
  BY <1>1
<1>3. Resealed(r) = [r EXCEPT !.last = l, !.rounds = m]
  BY DEF Resealed
<1> HIDE DEF l, m
<1> QED
  BY <1>2, <1>3, RefillUpdate

(* A refill's turn in the tick keeps the invariant.                        *)
LEMMA TickRefillStep ==
  ASSUME IngestInv, NEW r \in refills, TickRefill(r)
  PROVE  IngestInv'
<1>1. r.key \in Key /\ Seal(r.key[1], r.key[2], SegSize)
  BY TickEngine DEF IngestInv
<1>2. r \in [key : Key, last : Nat, rounds : Nat]
  BY DEF IngestInv, Traffic
<1> DEFINE asked == Resealed(r)
<1>3. asked \in [key : Key, last : Nat, rounds : Nat]
  BY <1>1, <1>2, ResealedIs DEF IngestInv
<1> HIDE DEF asked
<1>4. PICK over \in BOOLEAN :
      /\ Drained /\ wire' = wire /\ net' = net
      /\ refills' \subseteq refills \cup {asked}
      /\ queries' \subseteq queries \cup {[key |-> r.key, start |-> asked.last]}
      /\ known' = [known EXCEPT
              !.released = IF Happened("Sealed", r.key) THEN @ \cup {r.key} ELSE @,
              !.givenUp = IF over THEN @ \cup {r.key} ELSE @]
  BY DEF TickRefill, asked
<1>5. /\ AccountingInv' /\ Told
      /\ DecoderFollowsCursor' /\ decoders' \in [Key -> Nat]
      /\ \A k \in Key : Happened("Sealed", k) => k = r.key
  BY <1>1, <1>4, SealDrained
<1>6. known \in Fates
  BY DEF IngestInv, Traffic
<1>7. known' \in Fates
      /\ known'.released = IF Happened("Sealed", r.key) THEN known.released \cup {r.key} ELSE known.released
  BY <1>1, <1>4, <1>6 DEF Fates
<1>8. Recorded'
  BY <1>4, <1>5, <1>7, DrainRecords
<1>9. \A q \in queries' : q.key \in Key /\ q.start \in Nat
  BY <1>1, <1>3, <1>4 DEF IngestInv, Traffic
<1>10. Traffic'
  BY <1>3, <1>4, <1>5, <1>7, <1>9 DEF IngestInv, Traffic, FrameOK, SealFrame
<1> QED
  BY <1>5, <1>8, <1>10 DEF IngestInv

(* A step that calls no engine keeps it.                                   *)
LEMMA EngineIdle ==
  ASSUME IngestInv, UNCHANGED <<vars, decoders, stored, refills, known, net>>,
         \A f \in wire' : FrameOK(f), queries' \subseteq queries
  PROVE  IngestInv'
<1>1. AccountingInv'
  BY NextAccounting DEF IngestInv
<1>2. DecoderFollowsCursor' /\ Recorded'
  BY DEF IngestInv, DecoderFollowsCursor, Recorded, Records, vars, Seg
<1>3. Traffic'
  BY DEF IngestInv, Traffic, FrameOK, SealFrame
<1> QED
  BY <1>1, <1>2, <1>3 DEF IngestInv

(* Every step keeps it.                                                    *)
LEMMA IngestNextInv == IngestInv /\ [IngestNext]_allVars => IngestInv'
<1> SUFFICES ASSUME IngestInv, [IngestNext]_allVars PROVE IngestInv'
  OBVIOUS
<1>0. \A f \in wire : FrameOK(f)
  BY DEF IngestInv, Traffic
<1>1. ASSUME NEW f \in wire, OnChunk(f) PROVE IngestInv'
  BY <1>1, OnChunkStep
<1>2. ASSUME NEW f \in wire, OnSeal(f) PROVE IngestInv'
  BY <1>2, OnSealStep
<1>3. ASSUME NEW r \in refills, TickRefill(r) PROVE IngestInv'
  BY <1>3, TickRefillStep
<1>4. CASE TickStart
  BY <1>0, <1>4, EngineIdle DEF TickStart, worldVars
<1>5. ASSUME NEW q \in queries, Answer(q) PROVE IngestInv'
  <2>1. q.key \in Key /\ q.start \in Nat
    BY DEF IngestInv, Traffic
  <2>2. \A f \in wire' : FrameOK(f)
    BY <1>0, <1>5, <2>1, CutFrames DEF Answer
  <2> QED
    BY <1>5, <2>2, EngineIdle DEF Answer, ingestVars
<1>6. ASSUME NEW f \in wire, Lose(f) PROVE IngestInv'
  BY <1>0, <1>6, EngineIdle DEF Lose, ingestVars
<1>7. CASE UNCHANGED allVars
  BY <1>0, <1>7, EngineIdle DEF allVars, ingestVars, worldVars
<1> QED
  BY <1>1, <1>2, <1>3, <1>4, <1>5, <1>6, <1>7 DEF IngestNext, Deliver, Tick

(* It holds at first.                                                      *)
LEMMA IngestInitInv == IngestInit => IngestInv
<1> SUFFICES ASSUME IngestInit PROVE IngestInv
  OBVIOUS
<1>1. Init /\ Traffic /\ AccountingInv
  BY IngestInitTraffic, InitAccounting
<1>2. DecoderFollowsCursor
  <2>1. \A d \in Dev, s \in SegSeq : Seg(buf, d, s).next = 0
    BY <1>1 DEF Init, Seg, EmptySeg
  <2> QED
    BY <2>1, KeyParts DEF IngestInit, DecoderFollowsCursor
<1>3. Recorded
  <2>1. 0 \div RecLen = 0
    BY IngestAssumption
  <2>2. First(0) = <<>>
    <3>1. First(0) \in Seq(Nat) /\ Len(First(0)) = 0
      BY FirstIs
    <3> QED
      BY <3>1, EmptySeq
  <2> QED
    BY <2>1, <2>2 DEF IngestInit, Recorded, Records
<1> QED
  BY <1>1, <1>2, <1>3 DEF IngestInv

(* So it holds always.                                                     *)
LEMMA IngestSpecInv == IngestSpec => []IngestInv
BY IngestInitInv, IngestNextInv, PTL DEF IngestSpec

(* The live ingest drives the engine as its specification has it: every    *)
(* chunk it places lies within its segment, every seal names the segment's *)
(* size. What is proved of the engine holds in the ingest.                 *)
THEOREM IngestUsesEngine == IngestSpec => Spec
<1>1. IngestInit => Init
  BY IngestInitTraffic
<1>2. IngestInv /\ [IngestNext]_allVars => [Next]_vars
  BY IngestStepEngine DEF IngestInv
<1> QED
  BY <1>1, <1>2, IngestSpecInv, PTL DEF IngestSpec, Spec

(* Among it that a device overruns its budget by no more than its          *)
(* evictions allow, now with refills, losses and late answers around it.   *)
THEOREM IngestOvershoot == IngestSpec => []OvershootBounded
BY IngestUsesEngine, OvershootTheorem

(* A segment's decoder always stands where the engine's cursor stands, so  *)
(* records are cut at their right bytes whatever arrives in whatever       *)
(* order.                                                                  *)
THEOREM DecoderTheorem == IngestSpec => []DecoderFollowsCursor
<1>1. IngestInv => DecoderFollowsCursor
  BY DEF IngestInv
<1> QED
  BY <1>1, IngestSpecInv, PTL

-----------------------------------------------------------------------------
(* An offset at which the source cuts a segment.                           *)
OnGrid(o) == o % MaxLen = 0

(* Two of them lie MaxLen bytes apart.                                     *)
LEMMA GridApart ==
  ASSUME NEW x \in Nat, NEW y \in Nat, OnGrid(x), OnGrid(y), x < y
  PROVE  x + MaxLen <= y
<1> DEFINE m == MaxLen
           a == x \div m
           b == y \div m
<1>1. m \in Nat \ {0}
  BY SizesAssumption
<1>2. x % m = 0 /\ y % m = 0
  BY DEF OnGrid
<1> HIDE DEF m
<1>3. a \in Int /\ x = a * m + (x % m)
  BY <1>1
<1>4. b \in Int /\ y = b * m + (y % m)
  BY <1>1
<1>5. x = a * m /\ y = b * m /\ a * m \in Int /\ b * m \in Int
  <2> HIDE DEF a, b
  <2> QED
    BY <1>1, <1>2, <1>3, <1>4
<1> HIDE DEF a, b
<1>6. (b - a) * m = b * m - a * m
  BY <1>1, <1>3, <1>4
<1>7. \A c \in Int : (c <= 0 => c * m <= 0) /\ (c >= 1 => c * m >= m)
  BY <1>1
<1>8. b - a \in Int
  BY <1>3, <1>4
<1>9. b - a >= 1
  BY <1>5, <1>6, <1>7, <1>8
<1>10. (b - a) * m >= m
  BY <1>7, <1>8, <1>9
<1> QED
  BY <1>1, <1>5, <1>6, <1>10 DEF m

(* A chunk cut there.                                                      *)
Piece(c) == OnGrid(c.off) /\ c.len <= MaxLen

(* A drain of pieces steps over no piece that is yet to come: one at or    *)
(* ahead of the cursor that does not wait is at or ahead of it afterwards. *)
(* By induction on the offset of what is popped.                           *)
LEMMA PoppedSkips ==
  ASSUME NEW p \in SUBSET Chunk, NEW n \in Nat, NEW D \in SUBSET p, NEW e, Popped(p, n, D, e),
         \A c \in p : Piece(c), NEW o \in Nat, OnGrid(o), o >= n, o \notin Offsets(p)
  PROVE  o >= e
<1> DEFINE N == {k \in Nat : \A x \in D : x.off <= k => x.off < o}
<1>1. \A x \in D : /\ x.off \in Nat /\ x.len \in Nat \ {0} /\ End(x) = x.off + x.len
                   /\ x.off >= n
                   /\ x.off = n \/ \E y \in D : End(y) = x.off
                   /\ OnGrid(x.off) /\ x.len <= MaxLen
  BY DEF Popped, Chunk, End, Piece
<1>2. MaxLen \in Nat \ {0}
  BY SizesAssumption
<1>3. \A x \in D : x.off # o
  BY DEF Offsets
<1>4. ASSUME NEW x \in D, x.off < o PROVE End(x) <= o
  <2>1. x.off + MaxLen <= o
    BY <1>1, <1>4, GridApart
  <2> QED
    BY <1>1, <1>2, <2>1
<1>5. 0 \in N
  BY <1>1, <1>3
<1>6. ASSUME NEW k \in N PROVE k + 1 \in N
  <2>1. k \in Nat /\ \A x \in D : x.off <= k => x.off < o
    OBVIOUS
  <2> HIDE DEF N
  <2>2. ASSUME NEW x \in D, x.off <= k + 1 PROVE x.off < o
    <3>1. CASE x.off = n
      BY <1>1, <1>3, <3>1
    <3>2. CASE x.off # n
      <4>1. PICK y \in D : End(y) = x.off
        BY <1>1, <3>2
      <4>2. y.off <= k
        BY <1>1, <2>1, <2>2, <4>1
      <4>3. End(y) <= o
        BY <1>4, <2>1, <4>2
      <4> QED
        BY <1>1, <1>3, <4>1, <4>3
    <3> QED
      BY <3>1, <3>2
  <2> QED
    BY <2>1, <2>2 DEF N
<1>7. N = Nat
  <2>1. N \in SUBSET Nat
    OBVIOUS
  <2> HIDE DEF N
  <2> QED
    BY <1>5, <1>6, <2>1, SetInduction
<1>8. CASE D = {}
  BY <1>8 DEF Popped
<1>9. CASE D # {}
  <2>1. PICK x \in D : End(x) = e
    BY <1>9 DEF Popped
  <2>2. x.off \in N /\ x.off <= x.off
    BY <1>1, <1>7
  <2>3. x.off < o
    BY <2>2
  <2> HIDE DEF N
  <2>4. End(x) <= o /\ End(x) \in Nat
    BY <1>1, <1>4, <2>3
  <2> QED
    BY <2>1, <2>4
<1> QED
  BY <1>8, <1>9

(* The source's chunks are pieces, one for each offset.                    *)
LEMMA CutPieces ==
  ASSUME NEW key \in Key
  PROVE  /\ \A f \in Cut(key, 0) : Piece(f)
         /\ \A f, g \in Cut(key, 0) : f.off = g.off => f = g
<1>1. ASSUME NEW f \in Cut(key, 0)
      PROVE  /\ f = ChunkFrame(key, f.off, Min({MaxLen, SegSize - f.off}))
             /\ OnGrid(f.off)
  <2>1. PICK o \in 0 .. SegSize - 1 : (o - 0) % MaxLen = 0 /\ f = ChunkFrame(key, o, Min({MaxLen, SegSize - o}))
    BY DEF Cut
  <2>2. o - 0 = o
    BY SizesAssumption
  <2>3. f.off = o
    BY <2>1 DEF ChunkFrame
  <2> QED
    BY <2>1, <2>2, <2>3 DEF OnGrid
<1>2. \A f \in Cut(key, 0) : f.len \in 1 .. MaxLen
  <2> SUFFICES ASSUME NEW f \in Cut(key, 0) PROVE f.len \in 1 .. MaxLen
    OBVIOUS
  <2>1. FrameOK(f) /\ f.kind = "Chunk"
    BY CutFrames
  <2> QED
    BY <2>1 DEF FrameOK, SealFrame
<1>3. MaxLen \in Nat
  BY SizesAssumption
<1>4. ASSUME NEW f \in Cut(key, 0) PROVE Piece(f)
  <2>1. OnGrid(f.off)
    BY <1>1
  <2>2. f.len <= MaxLen
    BY <1>2, <1>3
  <2> QED
    BY <2>1, <2>2 DEF Piece
<1>5. ASSUME NEW f \in Cut(key, 0), NEW g \in Cut(key, 0), f.off = g.off PROVE f = g
  BY <1>1, <1>5
<1> QED
  BY <1>4, <1>5

-----------------------------------------------------------------------------
(* Seals, queries and refills in their order: a segment's seal is          *)
(* delivered once, queries and refills come behind it, and a segment has   *)
(* one refill, that ends with its release.                                 *)
Orderly ==
  /\ faults \in [lost : Nat, twice : Nat]
  /\ \A key \in known.sealed : SealFrame(key) \notin wire
  /\ \A q \in queries : q.key \in known.sealed
  /\ \A r \in refills : r.key \in known.sealed /\ r.key \notin known.released
  /\ \A r, t \in refills : r.key = t.key => r = t
  /\ known.released \subseteq known.sealed

(* No chunk is delivered twice, no answer comes late and no push fails.    *)
Undoubled == net.prompt /\ net.twice = 0 /\ ~net.failing

(* What is on its way and what waits of a segment are different pieces,    *)
(* and none on its way lies behind the cursor.                             *)
Pieced(key) ==
  LET seg == Seg(buf, key[1], key[2])
  IN  /\ \A c \in seg.pend : Piece(c)
      /\ \A f \in FramesOf(key) : f.kind = "Chunk" =>
           f \in Cut(key, 0) /\ f.off >= seg.next /\ f.off \notin Offsets(seg.pend)

(* Nothing is on its way for a segment and nothing will be.                *)
Still(key) == FramesOf(key) = {} /\ \A q \in queries : q.key # key

(* Without doubled chunks and late answers: before its seal a segment      *)
(* arrives in different pieces; when a refill is looked at, and when the   *)
(* segment was released, nothing of it is on its way; and then it is       *)
(* stored exactly.                                                         *)
OnceEach ==
  Undoubled => \A key \in Key :
    /\ key \notin known.sealed => Pieced(key)
    /\ key \in visiting \cup known.released => Still(key)
    /\ key \in known.released => stored[key] = Whole

(* The inductive invariant of the exact case. That a released segment is   *)
(* stored exactly is not inductive: it takes that nothing of it can still  *)
(* arrive, which for a seal that finds it complete follows from the pieces *)
(* and for a refill from the wait for its answers.                         *)
OnceInv == IngestInv /\ Orderly /\ OnceEach

(* A call that hands on no bytes of a segment stores none of its records.  *)
LEMMA NothingFed ==
  ASSUME IngestInv, Drained, ~net.failing, NEW key \in Key, Appends(key[1], key[2]) = {}
  PROVE  stored'[key] = stored[key]
<1>1. Bytes(key) = 0
  BY FinishesIs DEF Bytes
<1>2. decoders[key] \in Nat
  BY DEF IngestInv, Traffic
<1>3. Decoded(decoders[key], decoders[key] + 0) = <<>>
  <2> DEFINE a == decoders[key] \div RecLen
             more == Decoded(decoders[key], decoders[key] + 0)
  <2>1. a \in Nat
    BY <1>2, DivMonotone, IngestAssumption
  <2>2. decoders[key] + 0 = decoders[key]
    BY <1>2
  <2>3. more = [k \in 1 .. a - a |-> a + k]
    BY <2>2 DEF Decoded
  <2>4. Len(more) = 0 /\ more \in Seq(Nat)
    <3> HIDE DEF a, more
    <3>1. a - a = 0 /\ 1 .. 0 = {}
      BY <2>1
    <3>2. more = [k \in 1 .. 0 |-> a + k]
      BY <2>3, <3>1
    <3> QED
      BY <2>1, <3>1, <3>2
  <2> QED
    BY <2>4, EmptySeq
<1>4. stored[key] \in Seq(Nat)
  BY DEF IngestInv, Recorded, Records
<1>5. stored'[key] = stored[key] \o <<>>
  BY <1>1, <1>3, DrainPushes
<1> QED
  BY <1>4, <1>5, ConcatEmptySeq

(* The pieces stay what they are when the cursor stands and less waits.    *)
LEMMA PiecedKept ==
  ASSUME NEW key \in Key, Pieced(key),
         Seg(buf', key[1], key[2]).next = Seg(buf, key[1], key[2]).next,
         Seg(buf', key[1], key[2]).pend \subseteq Seg(buf, key[1], key[2]).pend,
         \A f \in wire' : f.key = key /\ f.kind = "Chunk" => f \in wire
  PROVE  Pieced(key)'
BY DEF Pieced, FramesOf, Offsets

(* Nothing is on its way when nothing was added.                           *)
LEMMA StillKept ==
  ASSUME NEW key \in Key, Still(key), \A f \in wire' : f.key = key => f \in wire,
         \A q \in queries' : q.key = key => q \in queries
  PROVE  Still(key)'
BY DEF Still, FramesOf

(* What a seal leaves of what the exact case is about; and a segment is    *)
(* stored in whole when it is first released.                              *)
LEMMA SealCalm ==
  ASSUME IngestInv, NEW key \in Key, Seal(key[1], key[2], SegSize), Drained
  PROVE  /\ ~net.failing => \A k \in Key : stored'[k] = stored[k]
         /\ \A k \in Key : Seg(buf', k[1], k[2]).pend \subseteq Seg(buf, k[1], k[2]).pend
         /\ \A k \in Key : k # key => Seg(buf', k[1], k[2]).next = Seg(buf, k[1], k[2]).next
         /\ Happened("Sealed", key) => /\ Seg(buf, key[1], key[2]).next = SegSize
                                       /\ GapsOf = {}
         /\ ~net.failing /\ Happened("Sealed", key) /\ key \notin known.released =>
              stored[key] = Whole
<1>1. /\ Told
      /\ \A x \in Dev, q \in SegSeq : Appends(x, q) = {}
      /\ \A x \in Dev, q \in SegSeq : Finishes(x, q) => x = key[1] /\ q = key[2]
      /\ \A x \in Dev, q \in SegSeq : Seg(buf', x, q).pend \subseteq Seg(buf, x, q).pend
      /\ Finishes(key[1], key[2]) => \A ev \in events' : ev.kind # "SealGap"
  BY KeyParts, SealTells DEF IngestInv
<1>2. ~net.failing => \A k \in Key : stored'[k] = stored[k]
  BY <1>1, KeyParts, NothingFed
<1>3. ASSUME NEW k \in Key, k # key PROVE Seg(buf', k[1], k[2]).next = Seg(buf, k[1], k[2]).next
  <2>1. k[1] \in Dev /\ k[2] \in SegSeq /\ (k[1] # key[1] \/ k[2] # key[2])
    BY <1>3, KeyParts
  <2>2. Tells(k[1], k[2]) /\ Appends(k[1], k[2]) = {} /\ ~Finishes(k[1], k[2])
    BY <1>1, <2>1 DEF Told
  <2> QED
    BY <2>2 DEF Tells
<1>4. ASSUME Happened("Sealed", key) PROVE Seg(buf, key[1], key[2]).next = SegSize /\ GapsOf = {}
  <2>1. Finishes(key[1], key[2])
    BY <1>4, FinishesIs
  <2>2. Tells(key[1], key[2])
    BY <1>1, KeyParts DEF Told
  <2> QED
    BY <1>1, <2>1, <2>2 DEF Tells, GapsOf
<1>5. ASSUME ~net.failing, Happened("Sealed", key), key \notin known.released PROVE stored[key] = Whole
  <2>1. decoders[key] = SegSize
    BY <1>4, <1>5 DEF IngestInv, DecoderFollowsCursor
  <2> QED
    BY <1>5, <2>1, WholeIs DEF IngestInv, Recorded, Records
<1> QED
  BY <1>1, <1>2, <1>3, <1>4, <1>5, KeyParts

-----------------------------------------------------------------------------
(* A piece delivered leaves the other ones on their way.                   *)
LEMMA OnChunkPieced ==
  ASSUME IngestInv, NEW f \in wire, OnChunk(f), Pieced(f.key), wire' = wire \ {f}
  PROVE  Pieced(f.key)'
<1> DEFINE d == f.key[1]
           s == f.key[2]
           old == Seg(buf, d, s)
           new == Seg(buf', d, s)
           c == [off |-> f.off, len |-> f.len]
<1>1. /\ f.key \in Key /\ f.kind = "Chunk"
      /\ f.off \in 0 .. SegSize - 1 /\ f.len \in 1 .. MaxLen
      /\ PlaceChunk(d, s, f.off, f.len)
  BY OnChunkEngine DEF IngestInv, OnChunk
<1>2. d \in Dev /\ s \in SegSeq
  BY <1>1, KeyParts
<1>3. f \in Cut(f.key, 0) /\ f.off >= old.next /\ (\A x \in old.pend : Piece(x))
  BY <1>1 DEF Pieced, FramesOf
<1>4. BufOK(buf)
  BY DEF IngestInv, AccountingInv, Inv, TypeOK
<1>5. old.next \in Nat /\ old.pend \subseteq Chunk /\ f.off \in Nat /\ f.len \in Nat \ {0} /\ MaxLen \in Nat
  BY <1>1, <1>2, <1>4, SizesAssumption DEF BufOK, Seg, SegmentBuf
<1>6. NewPart(f.off, f.len, old.next) = c
  BY <1>3, <1>5 DEF NewPart
<1>7. \/ new.next = old.next /\ new.pend \subseteq old.pend
      \/ Flows(d, s, c)
  BY <1>1, <1>2, <1>6, PlaceTells DEF IngestInv
<1>8. CASE new.next = old.next /\ new.pend \subseteq old.pend
  BY <1>1, <1>8, PiecedKept
<1>9. CASE Flows(d, s, c)
  <2>1. PICK p, D : /\ p \subseteq old.pend \cup {c} /\ D \subseteq p
                    /\ new.pend = p \ D
                    /\ Popped(p, old.next, D, new.next)
    BY <1>9 DEF Flows
  <2>2. c \in Chunk /\ Piece(c)
    <3>1. Piece(f)
      BY <1>1, <1>3, CutPieces
    <3> QED
      BY <1>5, <3>1 DEF Chunk, Piece
  <2>3. p \subseteq Chunk /\ \A x \in p : Piece(x)
    BY <1>3, <1>5, <2>1, <2>2
  <2>4. ASSUME NEW g \in wire', g.key = f.key, g.kind = "Chunk"
        PROVE  g \in Cut(f.key, 0) /\ g.off >= new.next /\ g.off \notin Offsets(new.pend)
    <3>1. g \in wire /\ g # f
      BY <2>4
    <3>2. g \in Cut(f.key, 0) /\ g.off >= old.next /\ g.off \notin Offsets(old.pend)
      BY <2>4, <3>1 DEF Pieced, FramesOf
    <3>3. g.off # f.off
      BY <1>1, <1>3, <3>1, <3>2, CutPieces
    <3>4. g.off \notin Offsets(p)
      BY <2>1, <3>2, <3>3 DEF Offsets
    <3>5. g.off \in Nat /\ OnGrid(g.off)
      <4>1. Piece(g) /\ FrameOK(g) /\ g.kind = "Chunk"
        BY <1>1, <3>2, CutPieces, CutFrames
      <4> QED
        BY <4>1 DEF Piece, FrameOK, SealFrame
    <3>6. g.off >= new.next
      BY <1>5, <2>1, <2>3, <3>2, <3>4, <3>5, PoppedSkips
    <3>7. g.off \notin Offsets(new.pend)
      BY <2>1, <3>4 DEF Offsets
    <3> QED
      BY <3>2, <3>6, <3>7
  <2>5. \A x \in new.pend : Piece(x)
    BY <2>1, <2>3
  <2> QED
    BY <2>4, <2>5 DEF Pieced, FramesOf
<1> QED
  BY <1>7, <1>8, <1>9

(* A chunk delivered keeps the exact case,                                 *)
LEMMA OnChunkOnce ==
  ASSUME OnceInv, NEW f \in wire, OnChunk(f)
  PROVE  Orderly' /\ OnceEach'
<1>0. IngestInv /\ known \in Fates
  BY DEF OnceInv, IngestInv, Traffic
<1>1. /\ f.key \in Key /\ f.kind = "Chunk"
      /\ f.off \in 0 .. SegSize - 1 /\ f.len \in 1 .. MaxLen
      /\ PlaceChunk(f.key[1], f.key[2], f.off, f.len)
  BY <1>0, OnChunkEngine DEF IngestInv, OnChunk
<1>2. /\ Drained /\ net' = net /\ refills' = refills /\ visiting' = visiting /\ visiting = {}
      /\ queries' = queries
      /\ wire' \subseteq wire
      /\ known' = [known EXCEPT !.hurt = @ \cup Hurt]
  BY DEF OnChunk
<1>3. known'.sealed = known.sealed /\ known'.released = known.released
  BY <1>0, <1>2 DEF Fates
<1>4. faults \in [lost : Nat, twice : Nat]
  BY DEF OnceInv, Orderly
<1>5. faults' \in [lost : Nat, twice : Nat]
  BY <1>4 DEF OnChunk
<1>6. Orderly'
  BY <1>2, <1>3, <1>5 DEF OnceInv, Orderly, SealFrame
<1>7. ASSUME Undoubled, NEW key \in Key
      PROVE  /\ key \notin known.sealed => Pieced(key)'
             /\ key \in known.released => Still(key)'
             /\ key \in known.released => stored'[key] = Whole
  <2>1. wire' = wire \ {f}
    BY <1>4, <1>7 DEF OnChunk, Undoubled
  <2>2. /\ key \notin known.sealed => Pieced(key)
        /\ key \in known.released => Still(key)
        /\ key \in known.released => stored[key] = Whole
    BY <1>7 DEF OnceInv, OnceEach
  <2>3. /\ OthersKept(f.key[1], f.key[2])
        /\ \A x \in Dev, q \in SegSeq : x # f.key[1] \/ q # f.key[2] => Appends(x, q) = {}
    BY <1>0, <1>1, KeyParts, PlaceTells DEF IngestInv
  <2>4. CASE key = f.key
    <3>1. key \notin known.released
      BY <2>2, <2>4 DEF Still, FramesOf
    <3>2. key \notin known.sealed => Pieced(key)'
      BY <1>0, <2>1, <2>2, <2>4, OnChunkPieced
    <3> QED
      BY <3>1, <3>2
  <2>5. CASE key # f.key
    <3>1. key[1] \in Dev /\ key[2] \in SegSeq /\ (key[1] # f.key[1] \/ key[2] # f.key[2])
      BY <1>1, <2>5, KeyParts
    <3>2. /\ Seg(buf', key[1], key[2]).next = Seg(buf, key[1], key[2]).next
          /\ Seg(buf', key[1], key[2]).pend \subseteq Seg(buf, key[1], key[2]).pend
      BY <2>3, <3>1 DEF OthersKept
    <3>3. stored'[key] = stored[key]
      BY <1>0, <1>2, <1>7, <2>3, <3>1, NothingFed DEF Undoubled
    <3>4. key \notin known.sealed => Pieced(key)'
      BY <1>2, <2>2, <3>2, PiecedKept
    <3>5. key \in known.released => Still(key)'
      BY <1>2, <2>2, StillKept
    <3> QED
      BY <2>2, <3>3, <3>4, <3>5
  <2> QED
    BY <2>4, <2>5
<1>8. OnceEach'
  BY <1>2, <1>3, <1>7 DEF OnceEach, Undoubled
<1> QED
  BY <1>6, <1>8

(* a seal delivered,                                                       *)
LEMMA OnSealOnce ==
  ASSUME OnceInv, NEW f \in wire, OnSeal(f)
  PROVE  Orderly' /\ OnceEach'
<1> DEFINE released == Happened("Sealed", f.key)
<1>0. IngestInv /\ known \in Fates /\ Orderly
  BY DEF OnceInv, IngestInv, Traffic
<1>1. f.key \in Key /\ f = SealFrame(f.key) /\ Seal(f.key[1], f.key[2], SegSize)
  BY <1>0, OnSealEngine DEF IngestInv
<1>2. /\ Drained /\ wire' = wire \ {f} /\ queries' = queries /\ net' = net /\ faults' = faults
      /\ visiting' = visiting /\ visiting = {}
      /\ refills' = {r \in refills : r.key \notin {g.key : g \in GapsOf}} \cup GapsOf
      /\ known' = [known EXCEPT !.sealed = @ \cup {f.key},
                                !.released = IF released THEN @ \cup {f.key} ELSE @]
  BY DEF OnSeal
<1> HIDE DEF released
<1>3. /\ known'.sealed = known.sealed \cup {f.key}
      /\ known'.released = IF released THEN known.released \cup {f.key} ELSE known.released
  BY <1>0, <1>2 DEF Fates
<1>4. f.key \notin known.sealed /\ f.key \notin known.released
  BY <1>0, <1>1 DEF Orderly
<1>5. /\ ~net.failing => \A k \in Key : stored'[k] = stored[k]
      /\ \A k \in Key : Seg(buf', k[1], k[2]).pend \subseteq Seg(buf, k[1], k[2]).pend
      /\ \A k \in Key : k # f.key => Seg(buf', k[1], k[2]).next = Seg(buf, k[1], k[2]).next
      /\ released => Seg(buf, f.key[1], f.key[2]).next = SegSize /\ GapsOf = {}
      /\ ~net.failing /\ released => stored[f.key] = Whole
  BY <1>0, <1>1, <1>2, <1>4, SealCalm DEF released
<1>6. \A g \in GapsOf : g = Refill(f.key, g.last, 0) /\ g.last = Seg(buf, f.key[1], f.key[2]).next
  BY <1>0, <1>1, SealGapsOf DEF IngestInv
<1>7. \A g \in GapsOf : g.key = f.key
  BY <1>6 DEF Refill
<1>8. \A g, h \in GapsOf : g = h
  BY <1>6
<1>9. ASSUME NEW r \in refills' PROVE r.key \in known'.sealed /\ r.key \notin known'.released
  <2>1. CASE r \in refills
    BY <1>0, <1>3, <1>4, <2>1 DEF Orderly
  <2>2. CASE r \in GapsOf
    BY <1>3, <1>4, <1>5, <1>7, <2>2
  <2> QED
    BY <1>2, <2>1, <2>2
<1>10. \A r, t \in refills' : r.key = t.key => r = t
  <2>1. \A r \in refills : r.key # f.key
    BY <1>0, <1>4 DEF Orderly
  <2>2. \A r \in refills' : r \in refills \/ r \in GapsOf
    BY <1>2
  <2>3. \A r, t \in refills : r.key = t.key => r = t
    BY <1>0 DEF Orderly
  <2> QED
    BY <1>7, <1>8, <2>1, <2>2, <2>3
<1>11. ASSUME NEW key \in known'.sealed PROVE SealFrame(key) \notin wire'
  <2>1. CASE key = f.key
    BY <1>1, <1>2, <2>1
  <2>2. CASE key # f.key
    BY <1>0, <1>2, <1>3, <2>2 DEF Orderly
  <2> QED
    BY <2>1, <2>2
<1>12. Orderly'
  <2>1. /\ faults' \in [lost : Nat, twice : Nat]
        /\ \A q \in queries' : q.key \in known'.sealed
        /\ known'.released \subseteq known'.sealed
    BY <1>0, <1>2, <1>3 DEF Orderly
  <2> QED
    BY <1>9, <1>10, <1>11, <2>1 DEF Orderly
<1>13. ASSUME Undoubled, NEW key \in Key
       PROVE  /\ key \notin known'.sealed => Pieced(key)'
              /\ key \in known'.released => Still(key)' /\ stored'[key] = Whole
  <2>1. /\ key \notin known.sealed => Pieced(key)
        /\ key \in known.released => Still(key)
        /\ key \in known.released => stored[key] = Whole
    BY <1>13 DEF OnceInv, OnceEach
  <2>2. CASE key # f.key
    <3>1. key \notin known.sealed => Pieced(key)'
      BY <1>2, <1>5, <2>1, <2>2, PiecedKept
    <3>2. key \in known.released => Still(key)'
      BY <1>2, <2>1, StillKept
    <3> QED
      BY <1>3, <1>5, <1>13, <2>1, <2>2, <3>1, <3>2 DEF Undoubled
  <2>3. CASE key = f.key
    <3>1. key \in known'.sealed
      BY <1>3, <2>3
    <3>2. ASSUME released PROVE Still(key)' /\ stored'[key] = Whole
      <4>1. Pieced(key)
        BY <1>4, <2>1, <2>3
      <4>2. ASSUME NEW g \in wire, g.key = key, g # f PROVE FALSE
        <5>1. FrameOK(g)
          BY <1>0 DEF IngestInv, Traffic
        <5>2. CASE g.kind = "Chunk"
          <6>1. g.off >= SegSize
            BY <1>5, <2>3, <3>2, <4>1, <4>2, <5>2 DEF Pieced, FramesOf
          <6>2. g.off \in 0 .. SegSize - 1
            BY <5>1, <5>2 DEF FrameOK, SealFrame
          <6> QED
            BY <6>1, <6>2, SizesAssumption
        <5>3. CASE g = SealFrame(key)
          BY <1>1, <2>3, <4>2, <5>3
        <5> QED
          BY <4>2, <5>1, <5>2, <5>3 DEF FrameOK
      <4>3. FramesOf(key)' = {}
        BY <1>2, <4>2 DEF FramesOf
      <4>4. \A q \in queries' : q.key # key
        BY <1>0, <1>2, <1>4, <2>3 DEF Orderly
      <4>5. stored'[key] = Whole
        BY <1>5, <1>13, <2>3, <3>2 DEF Undoubled
      <4> QED
        BY <4>3, <4>4, <4>5 DEF Still
    <3>3. key \in known'.released => released
      BY <1>3, <1>4, <2>3
    <3> QED
      BY <3>1, <3>2, <3>3
  <2> QED
    BY <2>2, <2>3
<1>14. OnceEach'
  BY <1>2, <1>13 DEF OnceEach, Undoubled
<1> QED
  BY <1>12, <1>14

(* a refill's turn in the tick,                                            *)
LEMMA TickRefillOnce ==
  ASSUME OnceInv, NEW r \in refills, TickRefill(r)
  PROVE  Orderly' /\ OnceEach'
<1> DEFINE released == Happened("Sealed", r.key)
           asked == Resealed(r)
<1>0. IngestInv /\ known \in Fates /\ Orderly
  BY DEF OnceInv, IngestInv, Traffic
<1>1. r.key \in Key /\ Seal(r.key[1], r.key[2], SegSize)
  BY <1>0, TickEngine DEF IngestInv
<1>2. asked.key = r.key
  BY <1>0, <1>1, ResealedIs DEF IngestInv, Traffic
<1> HIDE DEF released, asked
<1>3. PICK over \in BOOLEAN :
      /\ Drained /\ wire' = wire /\ net' = net /\ faults' = faults
      /\ r.key \in visiting
      /\ visiting' = visiting \ {r.key}
      /\ refills' = (refills \ {r}) \cup (IF released \/ over THEN {} ELSE {asked})
      /\ queries' = IF released \/ over THEN queries
                    ELSE queries \cup {[key |-> r.key, start |-> asked.last]}
      /\ known' = [known EXCEPT
              !.released = IF released THEN @ \cup {r.key} ELSE @,
              !.givenUp = IF over THEN @ \cup {r.key} ELSE @]
  BY DEF TickRefill, asked, released
<1>4. /\ known'.sealed = known.sealed
      /\ known'.released = IF released THEN known.released \cup {r.key} ELSE known.released
  BY <1>0, <1>3 DEF Fates
<1>5. r.key \in known.sealed /\ r.key \notin known.released
  BY <1>0 DEF Orderly
<1>6. /\ ~net.failing => \A k \in Key : stored'[k] = stored[k]
      /\ \A k \in Key : Seg(buf', k[1], k[2]).pend \subseteq Seg(buf, k[1], k[2]).pend
      /\ \A k \in Key : k # r.key => Seg(buf', k[1], k[2]).next = Seg(buf, k[1], k[2]).next
      /\ ~net.failing /\ released => stored[r.key] = Whole
  BY <1>0, <1>1, <1>3, <1>5, SealCalm DEF released
<1>7. \A t \in refills : t # r => t.key # r.key
  BY <1>0 DEF Orderly
<1>8. \A t \in refills' : t.key \in known'.sealed /\ t.key \notin known'.released
  <2>1. \A t \in refills : t.key \in known.sealed /\ t.key \notin known.released
    BY <1>0 DEF Orderly
  <2> QED
    BY <1>2, <1>3, <1>4, <1>5, <1>7, <2>1
<1>9. \A t, u \in refills' : t.key = u.key => t = u
  <2>1. \A t \in refills' : (t \in refills /\ t # r) \/ t = asked
    BY <1>3
  <2>2. \A t, u \in refills : t.key = u.key => t = u
    BY <1>0 DEF Orderly
  <2> QED
    BY <1>2, <1>7, <2>1, <2>2
<1>10. \A q \in queries' : q \in queries \/ q.key = r.key
  BY <1>3
<1>11. Orderly'
  <2>1. /\ faults' \in [lost : Nat, twice : Nat]
        /\ \A key \in known'.sealed : SealFrame(key) \notin wire'
        /\ \A q \in queries' : q.key \in known'.sealed
        /\ known'.released \subseteq known'.sealed
    BY <1>0, <1>3, <1>4, <1>5, <1>10 DEF Orderly, SealFrame
  <2> QED
    BY <1>8, <1>9, <2>1 DEF Orderly
<1>12. ASSUME Undoubled, NEW key \in Key
       PROVE  /\ key \notin known'.sealed => Pieced(key)'
              /\ key \in visiting' \cup known'.released => Still(key)'
              /\ key \in known'.released => stored'[key] = Whole
  <2>1. /\ key \notin known.sealed => Pieced(key)
        /\ key \in visiting \cup known.released => Still(key)
        /\ key \in known.released => stored[key] = Whole
    BY <1>12 DEF OnceInv, OnceEach
  <2>2. CASE key # r.key
    <3>1. key \notin known.sealed => Pieced(key)'
      BY <1>3, <1>6, <2>1, <2>2, PiecedKept
    <3>2. key \in visiting \cup known.released => Still(key)'
      BY <1>3, <1>10, <2>1, <2>2, StillKept
    <3> QED
      BY <1>3, <1>4, <1>6, <1>12, <2>1, <2>2, <3>1, <3>2 DEF Undoubled
  <2>3. CASE key = r.key
    <3>1. key \in known'.released => released
      BY <1>4, <1>5, <2>3
    <3>2. released => Still(key)'
      BY <1>3, <2>1, <2>3, StillKept
    <3>3. key \notin visiting'
      BY <1>3, <2>3
    <3>4. key \in known'.sealed
      BY <1>4, <1>5, <2>3
    <3> QED
      BY <1>6, <1>12, <2>3, <3>1, <3>2, <3>3, <3>4 DEF Undoubled
  <2> QED
    BY <2>2, <2>3
<1>13. OnceEach'
  BY <1>3, <1>12 DEF OnceEach, Undoubled
<1> QED
  BY <1>11, <1>13

(* an answer of the source, which comes to segments not yet released,      *)
LEMMA AnswerOnce ==
  ASSUME OnceInv, NEW q \in queries, Answer(q)
  PROVE  Orderly' /\ OnceEach'
<1>0. IngestInv /\ Orderly
  BY DEF OnceInv
<1>1. q.key \in Key /\ q.start \in Nat /\ q.key \in known.sealed
  BY <1>0 DEF IngestInv, Traffic, Orderly
<1>2. /\ queries' = queries \ {q} /\ wire' = wire \cup Cut(q.key, q.start)
      /\ UNCHANGED <<buf, stored, refills, visiting, net, known, faults>> /\ visiting = {}
  BY DEF Answer, vars, ingestVars
<1>3. \A f \in Cut(q.key, q.start) : f.kind = "Chunk" /\ f.key = q.key
  BY <1>1, CutFrames
<1>4. \A key : SealFrame(key).kind = "Seal"
  BY DEF SealFrame
<1>5. \A key \in known.sealed : SealFrame(key) \notin wire'
  BY <1>0, <1>2, <1>3, <1>4 DEF Orderly
<1>6. Orderly'
  BY <1>0, <1>2, <1>5 DEF Orderly, SealFrame
<1>7. ASSUME Undoubled, NEW key \in Key
      PROVE  /\ key \notin known.sealed => Pieced(key)'
             /\ key \in known.released => Still(key)'
             /\ key \in known.released => stored[key] = Whole
  <2>1. /\ key \notin known.sealed => Pieced(key)
        /\ key \in known.released => Still(key)
        /\ key \in known.released => stored[key] = Whole
    BY <1>7 DEF OnceInv, OnceEach
  <2>2. key \notin known.sealed => Pieced(key)'
    BY <1>1, <1>2, <1>3, <2>1, PiecedKept
  <2>3. key \in known.released => key # q.key
    BY <2>1 DEF Still
  <2>4. key \in known.released => Still(key)'
    BY <1>2, <1>3, <2>1, <2>3, StillKept
  <2> QED
    BY <2>1, <2>2, <2>4
<1>8. OnceEach'
  BY <1>2, <1>7 DEF OnceEach, Undoubled
<1> QED
  BY <1>6, <1>8

(* a loss,                                                                 *)
LEMMA IdleOnce ==
  ASSUME OnceInv, wire' \subseteq wire, visiting' = visiting, faults' \in [lost : Nat, twice : Nat],
         UNCHANGED <<buf, stored, refills, net, known, queries>>
  PROVE  Orderly' /\ OnceEach'
<1>0. Orderly
  BY DEF OnceInv
<1>1. Orderly'
  BY <1>0 DEF Orderly, SealFrame
<1>2. ASSUME Undoubled, NEW key \in Key
      PROVE  /\ key \notin known.sealed => Pieced(key)'
             /\ key \in visiting \cup known.released => Still(key)'
             /\ key \in known.released => stored[key] = Whole
  <2>1. /\ key \notin known.sealed => Pieced(key)
        /\ key \in visiting \cup known.released => Still(key)
        /\ key \in known.released => stored[key] = Whole
    BY <1>2 DEF OnceInv, OnceEach
  <2>2. key \notin known.sealed => Pieced(key)'
    BY <2>1, PiecedKept
  <2>3. key \in visiting \cup known.released => Still(key)'
    BY <2>1, StillKept
  <2> QED
    BY <2>1, <2>2, <2>3
<1>3. OnceEach'
  BY <1>2 DEF OnceEach, Undoubled
<1> QED
  BY <1>1, <1>3

(* and the start of a tick, which waits for the answers.                   *)
LEMMA TickStartOnce ==
  ASSUME OnceInv, TickStart
  PROVE  Orderly' /\ OnceEach'
<1>0. Orderly
  BY DEF OnceInv
<1>1. /\ UNCHANGED <<buf, stored, refills, net, wire, queries, known, faults>>
      /\ visiting' = InFlight
      /\ net.prompt => queries = {} /\ \A key \in InFlight : FramesOf(key) = {}
  BY DEF TickStart, vars, worldVars
<1>2. Orderly'
  BY <1>0, <1>1 DEF Orderly, SealFrame
<1>3. ASSUME Undoubled, NEW key \in Key
      PROVE  /\ key \notin known.sealed => Pieced(key)'
             /\ key \in InFlight \cup known.released => Still(key)'
             /\ key \in known.released => stored[key] = Whole
  <2>1. /\ key \notin known.sealed => Pieced(key)
        /\ key \in known.released => Still(key)
        /\ key \in known.released => stored[key] = Whole
    BY <1>3 DEF OnceInv, OnceEach
  <2>2. key \notin known.sealed => Pieced(key)'
    BY <1>1, <2>1, PiecedKept
  <2>3. key \in InFlight => Still(key)
    BY <1>1, <1>3 DEF Undoubled, Still
  <2>4. key \in InFlight \cup known.released => Still(key)'
    BY <1>1, <2>1, <2>3, StillKept
  <2> QED
    BY <2>1, <2>2, <2>4
<1>4. OnceEach'
  BY <1>1, <1>3 DEF OnceEach, Undoubled
<1> QED
  BY <1>2, <1>4

(* Every step keeps it.                                                    *)
LEMMA OnceNext == OnceInv /\ [IngestNext]_allVars => OnceInv'
<1> SUFFICES ASSUME OnceInv, [IngestNext]_allVars PROVE OnceInv'
  OBVIOUS
<1>0. IngestInv' /\ faults \in [lost : Nat, twice : Nat]
  BY IngestNextInv DEF OnceInv, Orderly
<1>1. ASSUME NEW f \in wire, OnChunk(f) PROVE Orderly' /\ OnceEach'
  BY <1>1, OnChunkOnce
<1>2. ASSUME NEW f \in wire, OnSeal(f) PROVE Orderly' /\ OnceEach'
  BY <1>2, OnSealOnce
<1>3. ASSUME NEW r \in refills, TickRefill(r) PROVE Orderly' /\ OnceEach'
  BY <1>3, TickRefillOnce
<1>4. ASSUME TickStart PROVE Orderly' /\ OnceEach'
  BY <1>4, TickStartOnce
<1>5. ASSUME NEW q \in queries, Answer(q) PROVE Orderly' /\ OnceEach'
  BY <1>5, AnswerOnce
<1>6. ASSUME NEW f \in wire, Lose(f) PROVE Orderly' /\ OnceEach'
  <2>1. faults' = [faults EXCEPT !.lost = @ + 1]
    BY <1>6 DEF Lose
  <2>2. faults' \in [lost : Nat, twice : Nat]
    BY <1>0, <2>1
  <2>3. wire' \subseteq wire /\ visiting' = visiting
        /\ UNCHANGED <<buf, stored, refills, net, known, queries>>
    BY <1>6 DEF Lose, vars, ingestVars
  <2> QED
    BY <2>2, <2>3, IdleOnce
<1>7. ASSUME UNCHANGED allVars PROVE Orderly' /\ OnceEach'
  <2>1. wire' \subseteq wire /\ visiting' = visiting /\ faults' = faults
        /\ UNCHANGED <<buf, stored, refills, net, known, queries>>
    BY <1>7 DEF allVars, vars, ingestVars, worldVars
  <2> QED
    BY <1>0, <2>1, IdleOnce
<1>8. Orderly' /\ OnceEach'
  BY <1>1, <1>2, <1>3, <1>4, <1>5, <1>6, <1>7 DEF IngestNext, Deliver, Tick
<1> QED
  BY <1>0, <1>8 DEF OnceInv

(* It holds at first.                                                      *)
LEMMA OnceInit == IngestInit => OnceInv
<1> SUFFICES ASSUME IngestInit PROVE OnceInv
  OBVIOUS
<1>0. IngestInv
  BY IngestInitInv
<1>1. Orderly
  BY DEF IngestInit, Orderly
<1>2. ASSUME NEW key \in Key PROVE Pieced(key)
  <2>1. key[1] \in Dev /\ key[2] \in SegSeq
    BY KeyParts
  <2>2. Seg(buf, key[1], key[2]).next = 0 /\ Seg(buf, key[1], key[2]).pend = {}
    BY <2>1 DEF IngestInit, Init, Seg, EmptySeg
  <2>3. ASSUME NEW f \in wire, f.key = key, f.kind = "Chunk" PROVE f \in Cut(key, 0) /\ f.off >= 0
    <3>1. PICK k \in Key : f \in Cut(k, 0) \/ f = SealFrame(k)
      BY DEF IngestInit
    <3>2. f \in Cut(k, 0)
      BY <2>3, <3>1 DEF SealFrame
    <3>3. f.key = k /\ FrameOK(f)
      BY <3>2, CutFrames
    <3>4. f.off \in Nat
      BY <2>3, <3>3 DEF FrameOK, SealFrame
    <3> QED
      BY <2>3, <3>2, <3>3, <3>4
  <2> QED
    BY <2>2, <2>3 DEF Pieced, FramesOf, Offsets
<1>3. OnceEach
  BY <1>2 DEF IngestInit, OnceEach
<1> QED
  BY <1>0, <1>1, <1>3 DEF OnceInv

(* So it holds always.                                                     *)
LEMMA OnceAlways == IngestSpec => []OnceInv
BY OnceInit, OnceNext, PTL DEF IngestSpec

(* Whatever is lost, doubled, late or evicted, a segment that was released *)
(* once has had all its records pushed first, in order; and exactly those  *)
(* when no chunk was doubled and no answer late.  This is without pushes   *)
(* that fail: those are lost (drain_events).                               *)
THEOREM ReleasedTheorem == IngestSpec => []ReleasedIsStored
<1>1. OnceInv => ReleasedIsStored
  <2> SUFFICES ASSUME OnceInv, ~net.failing, NEW key \in known.released
               PROVE  /\ IsPrefix(Whole, stored[key])
                      /\ net.prompt /\ net.twice = 0 => stored[key] = Whole
    BY DEF ReleasedIsStored
  <2>1. key \in Key
    BY DEF OnceInv, IngestInv, Traffic, Fates
  <2> QED
    BY <2>1 DEF OnceInv, IngestInv, Recorded, Records, OnceEach, Undoubled
<1> QED
  BY <1>1, OnceAlways, PTL
=============================================================================
