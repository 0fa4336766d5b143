---------------------------- MODULE QrMatchProofs ----------------------------
(***************************************************************************)
(* The request tables of the match engine, for every choice of its         *)
(* constants: that they agree with one another after any packet, and that  *)
(* the list of the timeout scan covers what is pending. The engine's       *)
(* handler is a chain of operators over the tables, so each gets its lemma *)
(* (what it does to the tables, and that they still agree), the handler    *)
(* one from those, and the conversation only has to show that its packets  *)
(* are packets the handler's lemma covers.                                 *)
(***************************************************************************)
EXTENDS QrMatch, FiniteSetTheorems, TLAPS

(* A row of T_REQ_PENDING, of T_REQ_PENDING_TTL, and a terminal row of     *)
(* T_QR, in the fields the model keeps.                                    *)
PendRow == [inc : Nat, end : Nat, q : Nat, ts : Nat]
TtlRow == [ts : Nat, q : Nat]
TermRow == [q : Nat, status : Status, by : Nat, also : SUBSET Nat]

(* The tables, and the types they keep.                                    *)
View ==
  [conn : ConnState, live : SUBSET Nat, pend : SUBSET PendRow, ttl : SUBSET TtlRow,
   rows : SUBSET TermRow, opened : SUBSET Nat, recs : SUBSET [ts : Nat, idx : Nat],
   audit : SUBSET [q : Nat, status : Status], meta : SUBSET [q : Nat, hint : ProtocolKind],
   archive : SUBSET [first : Nat, last : Nat]]

(* Typed tables, with finitely many requests open: the order of the        *)
(* pending requests is that of a finite set.                               *)
Sound(v) == v \in View /\ IsFiniteSet(v.live) /\ IsFiniteSet(v.pend)

-----------------------------------------------------------------------------
(* A number modulo SeqSpace is a sequence number.                          *)
LEMMA ModRange ==
  ASSUME NEW x \in Int
  PROVE  x % SeqSpace \in RawSeq
<1>1. SeqSpace \in Nat /\ SeqSpace > 0
  BY SeqSpaceAssumption
<1> QED
  BY <1>1 DEF RawSeq

(* What the assumptions say of the constants.                              *)
LEMMA ConstantTypes ==
  /\ SeqSpace \in Nat /\ SeqSpace > 1
  /\ RawSeq \subseteq Nat /\ 0 \in RawSeq /\ 1 \in RawSeq
  /\ IncMod \in Nat /\ IncMod > 0 /\ 0 \in 0 .. IncMod - 1
  /\ AckTol \in Nat /\ AckLeadCap \in Nat /\ QrTimeout \in Nat /\ FinTimeout \in Nat
  /\ Unknown \in ProtocolKind /\ NoOne \notin Ends
BY SeqSpaceAssumption, EngineAssumption DEF RawSeq

(* The fields of a stream.                                                 *)
LEMMA StreamFields ==
  ASSUME NEW str \in Stream
  PROVE  /\ str.raw \in RawSeq /\ str.raw \in Nat /\ str.abs \in Nat /\ str.active \in BOOLEAN
         /\ str = [raw |-> str.raw, abs |-> str.abs, active |-> str.active]
<1>1. str.raw \in RawSeq /\ str.abs \in Nat /\ str.active \in BOOLEAN
  BY DEF Stream
<1>2. str = [raw |-> str.raw, abs |-> str.abs, active |-> str.active]
  BY DEF Stream
<1> QED
  BY <1>1, <1>2, ConstantTypes

(* Moving the head of a stream.                                            *)
LEMMA StreamMoved ==
  ASSUME NEW str \in Stream, NEW raw \in RawSeq, NEW abs \in Nat
  PROVE  /\ [str EXCEPT !.raw = raw, !.abs = abs] \in Stream
         /\ [str EXCEPT !.raw = raw, !.abs = abs].abs = abs
         /\ [str EXCEPT !.raw = raw, !.abs = abs].active = str.active
BY DEF Stream

(* A stream that has, and one that has not, its baseline.                  *)
LEMMA BaselineType == ASSUME NEW isn \in RawSeq PROVE Baseline(isn) \in Stream /\ IdleStream \in Stream
BY ConstantTypes DEF Baseline, IdleStream, Stream

(* A distance is an integer, and an absolute number is a natural.          *)
LEMMA DiffType ==
  ASSUME NEW str \in Stream, NEW raw \in RawSeq
  PROVE  Diff(str, raw) \in Int /\ AbsOf(str, raw) \in Nat
<1>1. str.raw \in Nat /\ raw \in Nat /\ str.abs \in Nat
  BY ConstantTypes, StreamFields
<1> raw - str.raw \in Int
  BY <1>1
<1>2. (raw - str.raw) % SeqSpace \in Nat
  BY <1>1, ModRange, ConstantTypes
<1>3. Diff(str, raw) \in Int
  BY <1>2, ConstantTypes DEF Diff, Signed
<1>4. Diff(str, raw) > 0 => str.abs + Diff(str, raw) \in Nat
  BY <1>1, <1>3
<1> QED
  BY <1>1, <1>3, <1>4 DEF AbsOf

(* What feed_packet promises: the head never falls back, and new bytes end *)
(* at it, so that nothing the stream delivers lies below an earlier head.  *)
Feeds(str, len, fed) ==
  /\ fed.stream \in Stream /\ fed.stream.active
  /\ fed.start \in Nat /\ fed.new \in Nat
  /\ str.active => /\ fed.stream.abs >= str.abs
                   /\ fed.new > 0 => fed.start + fed.new = fed.stream.abs /\ fed.start >= str.abs
  /\ ~str.active => fed.new = len

(* feed_packet keeps that promise in each of its four cases: baseline,     *)
(* gap, overlap and old bytes.                                             *)
LEMMA FeedPacketFeeds ==
  ASSUME NEW str \in Stream, NEW seq \in RawSeq, NEW len \in Nat
  PROVE  Feeds(str, len, FeedPacket(str, seq, len))
<1> DEFINE a == Ahead(str, seq, len)
           d == Diff(str, seq)
<1>0. /\ str.raw \in Nat /\ seq \in Nat /\ str.abs \in Nat /\ str.active \in BOOLEAN
      /\ str.raw \in RawSeq /\ str = [raw |-> str.raw, abs |-> str.abs, active |-> str.active]
  BY ConstantTypes, StreamFields
<1>1. seq + len - str.raw \in Int /\ seq + len \in Int
  BY <1>0
<1>2. d \in Int
  BY DiffType
<1>3. a \in Nat
  <2>1. (seq + len - str.raw) % SeqSpace \in Nat
    BY <1>1, ModRange, ConstantTypes
  <2> QED
    BY <2>1 DEF Ahead
<1>4. (seq + len) % SeqSpace \in RawSeq
  BY <1>1, ModRange
<1>5. ASSUME NEW start \in Nat, NEW new \in Nat, start >= str.abs, str.active
      PROVE  Feeds(str, len, Advance(str, seq, len, start, new))
  <2> DEFINE s == [str EXCEPT !.raw = (seq + len) % SeqSpace, !.abs = start + new]
  <2>1. start + new \in Nat
    BY <1>5
  <2>3. s \in Stream /\ s.abs = start + new /\ s.active = str.active
    BY ZenonT(60), <2>1, <1>4, StreamMoved
  <2>4. s.active /\ s.abs = start + new
    BY <2>3, <1>5
  <2>5. Advance(str, seq, len, start, new) = [stream |-> s, start |-> start, new |-> new]
    BY DEF Advance, Fed
  <2> HIDE DEF s
  <2> QED
    BY <2>3, <2>4, <2>5, <1>5, <1>0 DEF Feeds
<1>6. CASE ~str.active
  <2>1. FeedPacket(str, seq, len) = [stream |-> Baseline(seq), start |-> seq, new |-> len]
    BY <1>6 DEF FeedPacket, Fed
  <2>2. Baseline(seq) \in Stream /\ Baseline(seq).active
    BY BaselineType DEF Baseline
  <2> QED
    BY <2>1, <2>2, <1>0, <1>6 DEF Feeds
<1>7. CASE str.active /\ d > 0
  <2>1. FeedPacket(str, seq, len) = Advance(str, seq, len, str.abs + d, len)
    BY <1>7, <1>2 DEF FeedPacket
  <2>2. str.abs + d \in Nat /\ str.abs + d >= str.abs
    BY <1>7, <1>0, <1>2
  <2> HIDE DEF d
  <2> QED
    BY <2>1, <2>2, <1>5, <1>7
<1>8. CASE str.active /\ ~(d > 0) /\ a > 0
  <2>1. FeedPacket(str, seq, len) = Advance(str, seq, len, str.abs, a)
    BY <1>8, <1>2 DEF FeedPacket
  <2> HIDE DEF d, a
  <2> QED
    BY <2>1, <1>5, <1>8, <1>0, <1>3
<1>9. CASE str.active /\ ~(d > 0) /\ ~(a > 0)
  <2>1. FeedPacket(str, seq, len) = [stream |-> str, start |-> str.abs, new |-> 0]
    BY <1>9, <1>2 DEF FeedPacket, Fed
  <2> QED
    BY <2>1, <1>0, <1>9 DEF Feeds
<1> QED
  BY <1>6, <1>7, <1>8, <1>9, <1>0

-----------------------------------------------------------------------------
(* The fields of a connection.                                             *)
LEMMA ConnFields ==
  ASSUME NEW c \in ConnState
  PROVE  /\ c.client \in Ends \cup {NoOne} /\ c.state \in ConnStateKind
         /\ c.inc \in 0 .. IncMod - 1 /\ c.inc \in Nat
         /\ c.c \in Stream /\ c.s \in Stream
         /\ c.consumed \in Nat /\ c.fin \in Nat /\ c.syn \in Nat
         /\ c.bind \in 0 .. Len(MetaBinds) /\ c.hint \in ProtocolKind
         /\ c.open \in Nat /\ c.first \in Nat /\ c.last \in Nat
BY ConstantTypes DEF ConnState

(* The tables one by one.                                                  *)
LEMMA ViewFields ==
  ASSUME NEW v \in View
  PROVE  /\ v.conn \in ConnState /\ v.live \in SUBSET Nat /\ v.pend \in SUBSET PendRow
         /\ v.ttl \in SUBSET TtlRow /\ v.rows \in SUBSET TermRow /\ v.opened \in SUBSET Nat
         /\ v.recs \in SUBSET [ts : Nat, idx : Nat]
         /\ v.audit \in SUBSET [q : Nat, status : Status]
         /\ v.meta \in SUBSET [q : Nat, hint : ProtocolKind]
         /\ v.archive \in SUBSET [first : Nat, last : Nat]
BY DEF View

(* The fields of a pending row.                                            *)
LEMMA PendFields ==
  ASSUME NEW v \in View, NEW h \in v.pend
  PROVE  h.inc \in Nat /\ h.end \in Nat /\ h.q \in Nat /\ h.ts \in Nat
BY DEF View, PendRow

-----------------------------------------------------------------------------
(* The fields of a packet.                                                 *)
LEMMA PacketFields ==
  ASSUME NEW p \in Packets
  PROVE  /\ p.idx \in Nat /\ p.ts \in Nat /\ p.src \in Ends /\ p.flags \in SUBSET Flag
         /\ p.seq \in RawSeq /\ p.ack \in RawSeq /\ p.len \in Nat /\ p.kind \in ProtocolKind
BY DEF Packets

(* A new connection.                                                       *)
LEMMA FreshConnType ==
  ASSUME NEW client \in Ends, NEW ts \in Nat
  PROVE  /\ FreshConn(client, ts) \in ConnState
         /\ FreshConn(client, ts).client = client
         /\ FreshConn(client, ts).c = IdleStream
<1>1. 0 \in 0 .. Len(MetaBinds)
  BY EngineAssumption
<1> QED
  BY <1>1, ConstantTypes, BaselineType DEF FreshConn, ConnState, ConnStateKind

(* What the stream's part of a packet does to the connection: one          *)
(* direction's stream is replaced, and nothing by which requests are       *)
(* found.                                                                  *)
Moves(conn, dir, stream, to) ==
  /\ to \in ConnState
  /\ to.client = conn.client /\ to.inc = conn.inc /\ to.consumed = conn.consumed
  /\ to.c = IF dir = "C2S" THEN stream ELSE conn.c
  /\ to.s = IF dir = "S2C" THEN stream ELSE conn.s

(* That is so whatever the packet's flags do to the state.                 *)
LEMMA AdvancedMoves ==
  ASSUME NEW conn \in ConnState, NEW p \in Packets, NEW dir \in {"C2S", "S2C"}, NEW stream \in Stream
  PROVE  Moves(conn, dir, stream, Advanced(conn, p, dir, stream))
<1> DEFINE state == NextState(conn, p, dir)
           c == IF dir = "C2S" THEN stream ELSE conn.c
           s == IF dir = "S2C" THEN stream ELSE conn.s
           syn == IF Has(p, "SYN") /\ dir = "C2S" THEN p.idx ELSE conn.syn
           fin == IF Has(p, "FIN") THEN p.ts ELSE conn.fin
           to == [conn EXCEPT !.c = c, !.s = s, !.state = state, !.syn = syn, !.fin = fin, !.last = p.ts]
<1>1. Advanced(conn, p, dir, stream) = to
  BY ConnFields DEF Advanced
<1>2. state \in ConnStateKind
  BY ConnFields DEF NextState, ConnStateKind
<1>3. c \in Stream /\ s \in Stream /\ syn \in Nat /\ fin \in Nat /\ p.ts \in Nat
  BY ConnFields, PacketFields
<1>4. /\ c = IF dir = "C2S" THEN stream ELSE conn.c
      /\ s = IF dir = "S2C" THEN stream ELSE conn.s
  OBVIOUS
<1> HIDE DEF state, c, s, syn, fin
<1>5. to \in ConnState
  BY <1>2, <1>3 DEF ConnState
<1>6. to.client = conn.client /\ to.inc = conn.inc /\ to.consumed = conn.consumed /\ to.c = c /\ to.s = s
  BY DEF ConnState
<1> QED
  BY <1>1, <1>4, <1>5, <1>6 DEF Moves

(* What flip_epoch makes of a connection.                                  *)
Reborn(conn, dir, to) ==
  /\ to \in ConnState
  /\ to.client = conn.client /\ to.consumed = 0
  /\ to.c.active <=> dir = "C2S"

(* An epoch's flip keeps a baseline only in the direction of the SYN.      *)
LEMMA RebirthReborn ==
  ASSUME NEW conn \in ConnState, NEW p \in Packets, NEW dir \in {"C2S", "S2C"}
  PROVE  Reborn(conn, dir, Rebirth(conn, p, dir))
<1> DEFINE c == IF dir = "C2S" THEN Baseline(p.seq) ELSE IdleStream
           s == IF dir = "S2C" THEN Baseline(p.seq) ELSE IdleStream
           inc == (conn.inc + 1) % IncMod
           to == [conn EXCEPT !.state = "HalfOpen", !.inc = inc, !.syn = p.idx, !.consumed = 0,
                              !.c = c, !.s = s]
<1>1. Rebirth(conn, p, dir) = to
  BY DEF Rebirth
<1>2. c \in Stream /\ s \in Stream /\ p.idx \in Nat
  BY BaselineType, PacketFields
<1>3. c.active <=> dir = "C2S"
  BY DEF Baseline, IdleStream
<1>4. inc \in 0 .. IncMod - 1
  BY ConnFields, ConstantTypes
<1> HIDE DEF c, s, inc
<1>5. to \in ConnState
  BY <1>2, <1>4 DEF ConnState, ConnStateKind
<1>6. to.client = conn.client /\ to.consumed = 0 /\ to.c = c
  BY DEF ConnState
<1> QED
  BY <1>1, <1>3, <1>5, <1>6 DEF Reborn

-----------------------------------------------------------------------------
(* Every pending request is of the current epoch, ends at or below the     *)
(* head of the client's stream, and above what was consumed.               *)
Reached(v) ==
  \A h \in v.pend : /\ h.inc = v.conn.inc
                    /\ v.conn.consumed < h.end /\ h.end <= v.conn.c.abs
                    /\ v.conn.c.active

(* A pending row for each live request, and one only.                      *)
PendingInv(v) ==
  /\ {h.q : h \in v.pend} = v.live
  /\ \A g, h \in v.pend : g.q = h.q => g = h
  /\ Reached(v)

(* Every request opened is either live or has its one terminal row.        *)
VerdictInv(v) ==
  /\ v.live \cap Settled(v) = {}
  /\ v.live \cup Settled(v) = v.opened
  /\ \A r, s \in v.rows : r.q = s.q => r = s

(* An aggregate names requests that the same packet settled, and one       *)
(* packet writes one aggregate at most.                                    *)
PairInv(v) ==
  /\ \A r \in v.rows : \A q \in r.also : \E own \in v.rows : own.q = q /\ own.by = r.by
  /\ \A r, s \in v.rows : r.by = s.by /\ r.also # {r.q} /\ s.also # {s.q} => r = s

(* The inductive invariant of the tables. TablesAgree is not inductive     *)
(* alone: that a new request never collides with a pending row of the same *)
(* end rests on every row ending at the head or below (Reached).           *)
Agree(v) == Sound(v) /\ PendingInv(v) /\ VerdictInv(v) /\ PairInv(v)

(* What a batch of terminal rows must be to settle the pending rows hits.  *)
NewVerdicts(hits, rows, by) ==
  /\ rows \in SUBSET TermRow
  /\ {r.q : r \in rows} = {h.q : h \in hits}
  /\ \A r, s \in rows : r.q = s.q => r = s
  /\ \A r \in rows : r.by = by /\ r.also \subseteq {h.q : h \in hits}
  /\ \A r, s \in rows : r.also # {r.q} /\ s.also # {s.q} => r = s

(* The packet has written no row yet, unless there is none to write.       *)
Unused(v, rows, by) == rows = {} \/ \A r \in v.rows : r.by # by

(* What settling hits with rows does to the tables.                        *)
Changed(v, w, hits, rows) ==
  /\ w.opened = v.opened
  /\ w.live = v.live \ {h.q : h \in hits}
  /\ w.pend = v.pend \ hits
  /\ w.ttl = {t \in v.ttl : t.ts \notin {h.ts : h \in hits}}
  /\ w.rows = v.rows \cup {r \in rows : r.q \in v.live /\ ~Terminal(v, r.q)}

(* Settle does just that.                                                  *)
LEMMA SettleChanges ==
  ASSUME NEW v, Sound(v), NEW hits \in SUBSET v.pend, NEW rows \in SUBSET TermRow
  PROVE  /\ Sound(Settle(v, hits, rows)) /\ Changed(v, Settle(v, hits, rows), hits, rows)
         /\ Settle(v, hits, rows).conn = v.conn
<1> DEFINE live == v.live \ {h.q : h \in hits}
           pend == v.pend \ hits
           ttl == {t \in v.ttl : t.ts \notin {h.ts : h \in hits}}
           all == v.rows \cup {r \in rows : r.q \in v.live /\ ~Terminal(v, r.q)}
           w == [v EXCEPT !.rows = all, !.live = live, !.pend = pend, !.ttl = ttl]
<1>1. v \in View /\ IsFiniteSet(v.live) /\ IsFiniteSet(v.pend)
  BY DEF Sound
<1>2. Settle(v, hits, rows) = w
  BY <1>1 DEF Settle, View
<1>3. /\ live \in SUBSET Nat /\ pend \in SUBSET PendRow /\ ttl \in SUBSET TtlRow
      /\ all \in SUBSET TermRow
  BY <1>1, ViewFields
<1>4. IsFiniteSet(live) /\ IsFiniteSet(pend)
  BY <1>1, FS_Subset
<1>5. /\ live = v.live \ {h.q : h \in hits}
      /\ pend = v.pend \ hits
      /\ ttl = {t \in v.ttl : t.ts \notin {h.ts : h \in hits}}
      /\ all = v.rows \cup {r \in rows : r.q \in v.live /\ ~Terminal(v, r.q)}
  OBVIOUS
<1> HIDE DEF live, pend, ttl, all
<1>6. w \in View
  BY <1>1, <1>3 DEF View
<1>7. /\ w.conn = v.conn /\ w.opened = v.opened /\ w.live = live /\ w.pend = pend
      /\ w.ttl = ttl /\ w.rows = all
  BY <1>1 DEF View
<1> QED
  BY <1>2, <1>4, <1>5, <1>6, <1>7 DEF Sound, Changed

(* Settling keeps the tables in agreement: verdicts move requests from     *)
(* live to settled, one row each.                                          *)
LEMMA SettleAgrees ==
  ASSUME NEW v, Agree(v), NEW hits \in SUBSET v.pend, NEW by \in Nat, NEW rows,
         NewVerdicts(hits, rows, by), Unused(v, rows, by),
         NEW w, Changed(v, w, hits, rows), Sound(w), Reached(w)
  PROVE  Agree(w) /\ w.rows = v.rows \cup rows
<1> DEFINE qs == {h.q : h \in hits}
<1>1. qs \subseteq v.live /\ v.live \cap Settled(v) = {}
  BY DEF Agree, PendingInv, VerdictInv
<1>2. \A r \in rows : r.q \in qs
  BY DEF NewVerdicts
<1>3. w.rows = v.rows \cup rows
  <2>1. \A r \in rows : r.q \in v.live /\ ~Terminal(v, r.q)
    BY <1>1, <1>2 DEF Terminal
  <2> QED
    BY <2>1 DEF Changed
<1>4. w.live = v.live \ qs /\ w.pend = v.pend \ hits /\ w.opened = v.opened
  BY DEF Changed
<1>5. PendingInv(w)
  <2>1. \A h \in v.pend : h.q \in qs <=> h \in hits
    BY DEF Agree, PendingInv
  <2>2. {h.q : h \in v.pend \ hits} = v.live \ qs
    BY <2>1 DEF Agree, PendingInv
  <2> HIDE DEF qs
  <2> QED
    BY <2>2, <1>4 DEF Agree, PendingInv
<1>6. VerdictInv(w)
  <2>1. Settled(w) = Settled(v) \cup qs
    BY <1>3 DEF Settled, NewVerdicts
  <2>2. \A r \in v.rows : r.q \notin qs
    BY <1>1 DEF Settled
  <2>3. \A r, s \in w.rows : r.q = s.q => r = s
    <3>1. \A r, s \in v.rows : r.q = s.q => r = s
      BY DEF Agree, VerdictInv
    <3>2. \A r, s \in rows : r.q = s.q => r = s
      BY DEF NewVerdicts
    <3> HIDE DEF qs
    <3> QED
      BY <3>1, <3>2, <2>2, <1>2, <1>3
  <2>4. v.live \cup Settled(v) = v.opened
    BY DEF Agree, VerdictInv
  <2> HIDE DEF qs
  <2>5. w.live \cap Settled(w) = {} /\ w.live \cup Settled(w) = w.opened
    BY <2>1, <2>4, <1>1, <1>4
  <2> QED
    BY <2>3, <2>5 DEF VerdictInv
<1>7. PairInv(w)
  <2>1. \A r \in rows : \A q \in r.also : \E own \in rows : own.q = q /\ own.by = r.by
    <3> TAKE r \in rows
    <3> TAKE q \in r.also
    <3>1. q \in {s.q : s \in rows} /\ r.by = by
      BY DEF NewVerdicts
    <3>2. PICK own \in rows : own.q = q
      BY <3>1
    <3>3. own.by = by
      BY DEF NewVerdicts
    <3> QED
      BY <3>1, <3>2, <3>3
  <2>2. \A r, s \in w.rows : r.by = s.by /\ r.also # {r.q} /\ s.also # {s.q} => r = s
    <3>1. \A r, s \in v.rows : r.by = s.by /\ r.also # {r.q} /\ s.also # {s.q} => r = s
      BY DEF Agree, PairInv
    <3>2. \A r, s \in rows : r.also # {r.q} /\ s.also # {s.q} => r = s
      BY DEF NewVerdicts
    <3>3. \A r \in rows : r.by = by
      BY DEF NewVerdicts
    <3> QED
      BY <3>1, <3>2, <3>3, <1>3 DEF Unused
  <2>3. \A r \in v.rows : \A q \in r.also : \E own \in v.rows : own.q = q /\ own.by = r.by
    BY DEF Agree, PairInv
  <2> QED
    BY <2>1, <2>2, <2>3, <1>3 DEF PairInv
<1> QED
  BY <1>3, <1>5, <1>6, <1>7 DEF Agree

(* A row that is written.                                                  *)
LEMMA RowFields ==
  ASSUME NEW q \in Nat, NEW status \in Status, NEW by \in Nat, NEW also \in SUBSET Nat
  PROVE  /\ Row(q, status, by, also) \in TermRow
         /\ Row(q, status, by, also).q = q /\ Row(q, status, by, also).by = by
         /\ Row(q, status, by, also).also = also
BY DEF Row, TermRow

(* A row for each of the hits, in which at most one aggregates, is a batch *)
(* of verdicts.                                                            *)
LEMMA VerdictsOf ==
  ASSUME NEW v, Agree(v), NEW hits \in SUBSET v.pend, NEW status \in Status, NEW by \in Nat,
         NEW A, \A h \in hits : A[h.q] \in SUBSET {g.q : g \in hits},
         \A g, h \in hits : A[g.q] # {g.q} /\ A[h.q] # {h.q} => g = h,
         NEW rows, \A r : r \in rows <=> \E h \in hits : r = Row(h.q, status, by, A[h.q])
  PROVE  NewVerdicts(hits, rows, by)
<1> DEFINE qs == {g.q : g \in hits}
<1>1. \A h \in hits : h.q \in Nat
  BY PendFields DEF Agree, Sound
<1>2. \A h \in hits : A[h.q] \in SUBSET Nat
  BY <1>1
<1>3. \A h \in hits : LET r == Row(h.q, status, by, A[h.q])
                     IN  r \in TermRow /\ r.q = h.q /\ r.by = by /\ r.also = A[h.q]
  BY <1>1, <1>2, RowFields
<1>4. rows \in SUBSET TermRow
  BY <1>3
<1>5. {r.q : r \in rows} = qs
  BY <1>3
<1>6. \A r, s \in rows : r.q = s.q => r = s
  BY <1>3
<1>7. \A r \in rows : r.by = by /\ r.also \subseteq qs
  BY <1>3
<1>8. ASSUME NEW r \in rows, NEW s \in rows, r.also # {r.q}, s.also # {s.q} PROVE r = s
  <2>1. PICK g \in hits : r = Row(g.q, status, by, A[g.q])
    OBVIOUS
  <2>2. PICK h \in hits : s = Row(h.q, status, by, A[h.q])
    OBVIOUS
  <2>3. A[g.q] # {g.q} /\ A[h.q] # {h.q}
    BY <2>1, <2>2, <1>3, <1>8
  <2> QED
    BY <2>1, <2>2, <2>3
<1> QED
  BY <1>4, <1>5, <1>6, <1>7, <1>8 DEF NewVerdicts

(* The rows of a reset or of an epoch's end are.                           *)
LEMMA EndedVerdicts ==
  ASSUME NEW v, Agree(v), NEW hits \in SUBSET v.pend, NEW status \in Status, NEW p \in Packets
  PROVE  NewVerdicts(hits, EndedRows(hits, status, p), p.idx)
<1> DEFINE A == [q \in Nat |-> {q}]
<1>1. \A h \in hits : h.q \in Nat
  BY PendFields DEF Agree, Sound
<1>2. \A h \in hits : A[h.q] = {h.q}
  BY <1>1
<1> HIDE DEF A
<1>3. p.idx \in Nat
  BY PacketFields
<1>4. /\ \A h \in hits : A[h.q] \in SUBSET {g.q : g \in hits}
      /\ \A g, h \in hits : A[g.q] # {g.q} /\ A[h.q] # {h.q} => g = h
  BY <1>2
<1>5. \A r : r \in EndedRows(hits, status, p) <=> \E h \in hits : r = Row(h.q, status, p.idx, A[h.q])
  BY <1>2 DEF EndedRows
<1> QED
  BY <1>3, <1>4, <1>5, VerdictsOf

(* The rows consume_r writes.                                              *)
MatchedRows(hits, p) == {Row(h.q, "Matched", p.idx, Aggregate(hits, h.q)) : h \in hits}

(* They are a batch too: all but the aggregate's row name themselves only. *)
LEMMA MatchedVerdicts ==
  ASSUME NEW v, Agree(v), NEW hits \in SUBSET v.pend, NEW p \in Packets
  PROVE  NewVerdicts(hits, MatchedRows(hits, p), p.idx)
<1> DEFINE A == [q \in Nat |-> Aggregate(hits, q)]
           first == CHOOSE h \in hits : \A g \in hits : h.end <= g.end
<1>1. \A h \in hits : h.q \in Nat
  BY PendFields DEF Agree, Sound
<1>2. \A h \in hits : A[h.q] = Aggregate(hits, h.q)
  BY <1>1
<1>3. \A h \in hits : A[h.q] = IF h.q = first.q THEN {g.q : g \in hits} ELSE {h.q}
  BY <1>2 DEF Aggregate
<1>4. \A g, h \in hits : g.q = h.q => g = h
  BY DEF Agree, PendingInv
<1> HIDE DEF A, first
<1>5. p.idx \in Nat /\ "Matched" \in Status
  BY PacketFields DEF Status
<1>6. /\ \A h \in hits : A[h.q] \in SUBSET {g.q : g \in hits}
      /\ \A g, h \in hits : A[g.q] # {g.q} /\ A[h.q] # {h.q} => g = h
  BY ZenonT(60), <1>3, <1>4
<1>7. \A r : r \in MatchedRows(hits, p) <=> \E h \in hits : r = Row(h.q, "Matched", p.idx, A[h.q])
  BY <1>2 DEF MatchedRows
<1> QED
  BY <1>5, <1>6, <1>7, VerdictsOf

-----------------------------------------------------------------------------
(* The rows are typed.                                                     *)
LEMMA RowsTyped ==
  ASSUME NEW v, Sound(v), NEW hits \in SUBSET v.pend, NEW p \in Packets
  PROVE  /\ \A status \in Status : EndedRows(hits, status, p) \in SUBSET TermRow
         /\ MatchedRows(hits, p) \in SUBSET TermRow
<1>1. \A h \in hits : h.q \in Nat /\ {h.q} \in SUBSET Nat
  BY PendFields DEF Sound
<1>2. {g.q : g \in hits} \in SUBSET Nat
  BY <1>1
<1>3. \A h \in hits : Aggregate(hits, h.q) \in SUBSET Nat
  BY <1>1, <1>2 DEF Aggregate
<1>4. p.idx \in Nat /\ "Matched" \in Status
  BY PacketFields DEF Status
<1>5. \A status \in Status : \A h \in hits : Row(h.q, status, p.idx, {h.q}) \in TermRow
  BY <1>1, <1>4, RowFields
<1>6. \A h \in hits : Row(h.q, "Matched", p.idx, Aggregate(hits, h.q)) \in TermRow
  BY <1>1, <1>3, <1>4, RowFields
<1> QED
  BY <1>5, <1>6 DEF EndedRows, MatchedRows

(* Only the connection, the audit and the like differ.                     *)
SameTables(v, w) ==
  /\ w.live = v.live /\ w.pend = v.pend /\ w.ttl = v.ttl
  /\ w.rows = v.rows /\ w.opened = v.opened

(* Settling and then leaving the tables alone is settling.                 *)
LEMMA ChangedThen ==
  ASSUME NEW u, NEW v, NEW w, NEW hits, NEW rows, Changed(u, v, hits, rows), SameTables(v, w)
  PROVE  Changed(u, w, hits, rows)
BY DEF Changed, SameTables

(* Writing the connection leaves the tables alone.                         *)
LEMMA PutConn ==
  ASSUME NEW v, Sound(v), NEW c \in ConnState
  PROVE  /\ Sound([v EXCEPT !.conn = c]) /\ SameTables(v, [v EXCEPT !.conn = c])
         /\ [v EXCEPT !.conn = c].conn = c
<1> DEFINE w == [v EXCEPT !.conn = c]
<1>1. v \in View
  BY DEF Sound
<1>2. w \in View
  BY <1>1 DEF View
<1>3. w.conn = c /\ SameTables(v, w)
  BY <1>1 DEF View, SameTables
<1> QED
  BY <1>2, <1>3 DEF Sound, SameTables

(* So does the audit.                                                      *)
LEMMA AuditedSound ==
  ASSUME NEW v, Sound(v), NEW hits \in SUBSET PendRow, NEW status \in Status
  PROVE  /\ Sound(Audited(v, hits, status)) /\ SameTables(v, Audited(v, hits, status))
         /\ Audited(v, hits, status).conn = v.conn
<1> DEFINE all == v.audit \cup {[q |-> h.q, status |-> status] : h \in hits}
           w == [v EXCEPT !.audit = all]
<1>1. v \in View
  BY DEF Sound
<1>2. all \in SUBSET [q : Nat, status : Status]
  BY <1>1, ViewFields DEF PendRow
<1>3. Audited(v, hits, status) = w
  BY DEF Audited
<1> HIDE DEF all
<1>4. w \in View
  BY <1>1, <1>2 DEF View
<1>5. w.conn = v.conn /\ SameTables(v, w)
  BY <1>1 DEF View, SameTables
<1> QED
  BY <1>3, <1>4, <1>5 DEF Sound, SameTables

(* What consume_r does: it settles what is pending up to the               *)
(* acknowledgement and moves the cursor up to it.                          *)
ConsumeFacts(v, p, ack, w) ==
  LET hits == PendingUpto(v, ack + AckTol)
  IN  /\ Sound(w) /\ Changed(v, w, hits, MatchedRows(hits, p))
      /\ w.conn = [v.conn EXCEPT !.consumed = MaxOf(v.conn.consumed, ack)]

(* It does that.                                                           *)
LEMMA ConsumeRFacts ==
  ASSUME NEW v, Sound(v), NEW p \in Packets, NEW ack \in Nat
  PROVE  ConsumeFacts(v, p, ack, ConsumeR(v, p, ack))
<1> DEFINE hits == PendingUpto(v, ack + AckTol)
           u == Settle(v, hits, MatchedRows(hits, p))
           c == [u.conn EXCEPT !.consumed = MaxOf(u.conn.consumed, ack)]
           w == [u EXCEPT !.conn = c]
<1>1. hits \in SUBSET v.pend
  BY DEF PendingUpto
<1>2. MatchedRows(hits, p) \in SUBSET TermRow
  BY <1>1, RowsTyped
<1>3. Sound(u) /\ Changed(v, u, hits, MatchedRows(hits, p)) /\ u.conn = v.conn
  BY <1>1, <1>2, SettleChanges
<1>4. ConsumeR(v, p, ack) = w
  <2>1. u \in View
    BY <1>3 DEF Sound
  <2>2. ConsumeR(v, p, ack) = [u EXCEPT !.conn.consumed = MaxOf(@, ack)]
    BY DEF ConsumeR, MatchedRows
  <2> HIDE DEF u
  <2> QED
    BY <2>1, <2>2
<1> HIDE DEF u, hits
<1>5. u.conn \in ConnState /\ u.conn.consumed \in Nat
  BY <1>3, ViewFields, ConnFields DEF Sound
<1>6. c \in ConnState
  <2>1. MaxOf(u.conn.consumed, ack) \in Nat
    BY <1>5 DEF MaxOf
  <2> QED
    BY <2>1, <1>5 DEF ConnState
<1>7. Sound(w) /\ SameTables(u, w) /\ w.conn = c
  BY <1>3, <1>6, PutConn
<1>8. Changed(v, w, hits, MatchedRows(hits, p))
  BY <1>3, <1>7, ChangedThen
<1>9. w.conn = [v.conn EXCEPT !.consumed = MaxOf(v.conn.consumed, ack)]
  BY <1>3, <1>7
<1> QED
  BY <1>4, <1>7, <1>8, <1>9 DEF ConsumeFacts, hits

(* What the end of all that is pending does, and what becomes of the       *)
(* connection.                                                             *)
EndFacts(v, w, status, p, conn) ==
  /\ Sound(w) /\ Changed(v, w, AllPending(v), EndedRows(AllPending(v), status, p))
  /\ w.conn = conn

(* Settling all and writing the audit and the connection is such an end.   *)
LEMMA EndAll ==
  ASSUME NEW v, Sound(v), NEW p \in Packets, NEW status \in Status, NEW c \in ConnState
  PROVE  LET hits == AllPending(v)
             u == Audited(Settle(v, hits, EndedRows(hits, status, p)), hits, status)
         IN  u.conn = v.conn /\ u \in View /\ EndFacts(v, [u EXCEPT !.conn = c], status, p, c)
<1> DEFINE hits == AllPending(v)
           t == Settle(v, hits, EndedRows(hits, status, p))
           u == Audited(t, hits, status)
           w == [u EXCEPT !.conn = c]
<1>1. hits \in SUBSET v.pend /\ hits \in SUBSET PendRow
  BY ViewFields DEF AllPending, Sound
<1>2. EndedRows(hits, status, p) \in SUBSET TermRow
  BY <1>1, RowsTyped
<1>3. Sound(t) /\ Changed(v, t, hits, EndedRows(hits, status, p)) /\ t.conn = v.conn
  BY <1>1, <1>2, SettleChanges
<1> HIDE DEF t, hits
<1>4. Sound(u) /\ SameTables(t, u) /\ u.conn = t.conn
  BY <1>1, <1>3, AuditedSound
<1> HIDE DEF u
<1>5. Sound(w) /\ SameTables(u, w) /\ w.conn = c
  BY <1>4, PutConn
<1>6. Changed(v, w, hits, EndedRows(hits, status, p))
  BY <1>3, <1>4, <1>5, ChangedThen
<1>7. u \in View
  BY <1>4 DEF Sound
<1>8. u.conn = v.conn /\ EndFacts(v, w, status, p, c)
  BY <1>3, <1>4, <1>5, <1>6 DEF EndFacts, hits
<1> QED
  BY <1>7, <1>8 DEF u, t, hits

(* A reset is one.                                                         *)
LEMMA RstCascadeFacts ==
  ASSUME NEW v, Sound(v), NEW p \in Packets
  PROVE  /\ EndFacts(v, RstCascade(v, p), "RstAbort", p, [v.conn EXCEPT !.state = "Reset"])
         /\ [v.conn EXCEPT !.state = "Reset"] \in ConnState
<1> DEFINE hits == AllPending(v)
           u == Audited(Settle(v, hits, EndedRows(hits, "RstAbort", p)), hits, "RstAbort")
           c == [v.conn EXCEPT !.state = "Reset"]
<1>1. c \in ConnState
  <2>1. v.conn \in ConnState
    BY ViewFields DEF Sound
  <2> QED
    BY <2>1 DEF ConnState, ConnStateKind
<1>2. "RstAbort" \in Status
  BY DEF Status
<1> HIDE DEF c
<1>3. u.conn = v.conn /\ u \in View /\ EndFacts(v, [u EXCEPT !.conn = c], "RstAbort", p, c)
  BY <1>1, <1>2, EndAll
<1>4. RstCascade(v, p) = [u EXCEPT !.conn.state = "Reset"]
  BY DEF RstCascade
<1> HIDE DEF u
<1>5. RstCascade(v, p) = [u EXCEPT !.conn = c]
  BY <1>3, <1>4 DEF c, View
<1> QED
  BY <1>1, <1>3, <1>5 DEF c

(* An epoch's flip is one.                                                 *)
LEMMA FlipEpochFacts ==
  ASSUME NEW v, Sound(v), NEW p \in Packets, NEW dir \in {"C2S", "S2C"}
  PROVE  /\ EndFacts(v, FlipEpoch(v, p, dir), "Unmatched", p, Rebirth(v.conn, p, dir))
         /\ Reborn(v.conn, dir, Rebirth(v.conn, p, dir))
<1> DEFINE hits == AllPending(v)
           u == Audited(Settle(v, hits, EndedRows(hits, "Unmatched", p)), hits, "Unmatched")
           c == Rebirth(v.conn, p, dir)
<1>1. Reborn(v.conn, dir, c) /\ c \in ConnState
  <2>1. v.conn \in ConnState
    BY ViewFields DEF Sound
  <2> QED
    BY <2>1, RebirthReborn DEF Reborn
<1>2. "Unmatched" \in Status
  BY DEF Status
<1> HIDE DEF c
<1>3. u.conn = v.conn /\ u \in View /\ EndFacts(v, [u EXCEPT !.conn = c], "Unmatched", p, c)
  BY <1>1, <1>2, EndAll
<1>4. FlipEpoch(v, p, dir) = [u EXCEPT !.conn = Rebirth(u.conn, p, dir)]
  BY DEF FlipEpoch
<1> HIDE DEF u
<1>5. FlipEpoch(v, p, dir) = [u EXCEPT !.conn = c]
  BY <1>3, <1>4 DEF c
<1> QED
  BY <1>1, <1>3, <1>5 DEF c

-----------------------------------------------------------------------------
(* The fields of a connection by which requests are found.                 *)
SameHead(c, d) ==
  d.client = c.client /\ d.inc = c.inc /\ d.consumed = c.consumed /\ d.c = c.c

(* Hints and bindings are typed.                                           *)
LEMMA HintType ==
  ASSUME NEW p \in Packets
  PROVE  /\ HintOf(p) \in ProtocolKind
         /\ Resolve(p.src) \in SUBSET (1 .. Len(MetaBinds))
<1>1. Resolve(p.src) \in SUBSET (1 .. Len(MetaBinds))
  BY DEF Resolve
<1>2. \A n \in 1 .. Len(MetaBinds) : MetaBinds[n].fingerprint \in SUBSET ProtocolKind
  <2> DEFINE Rule == [port : Nat, fingerprint : SUBSET ProtocolKind]
  <2>1. MetaBinds \in Seq(Rule)
    BY EngineAssumption
  <2> HIDE DEF Rule
  <2>2. \A n \in 1 .. Len(MetaBinds) : MetaBinds[n] \in Rule
    BY <2>1
  <2> QED
    BY <2>2 DEF Rule
<1>3. UNION {MetaBinds[n].fingerprint : n \in Resolve(p.src)} \in SUBSET ProtocolKind
  BY <1>1, <1>2
<1>4. p.kind \in ProtocolKind
  BY PacketFields
<1>5. HintOf(p) \in ProtocolKind
  BY <1>3, <1>4 DEF HintOf
<1> QED
  BY <1>1, <1>5

(* The binding and the metadata leave them alone.                          *)
LEMMA BindKeeps ==
  ASSUME NEW v, Sound(v), NEW p \in Packets
  PROVE  /\ Sound(Bind(v, p)) /\ SameTables(v, Bind(v, p))
         /\ SameHead(v.conn, Bind(v, p).conn)
<1> DEFINE bind == IF Resolve(p.src) = {} THEN 0 ELSE CHOOSE n \in Resolve(p.src) : TRUE
           hint == HintOf(p)
           meta == Fingerprinted(v, p)
           c == [v.conn EXCEPT !.bind = bind, !.hint = hint]
           w == [v EXCEPT !.conn = c, !.meta = meta]
<1>1. v \in View /\ v.conn \in ConnState
  BY ViewFields DEF Sound
<1>2. bind \in 0 .. Len(MetaBinds)
  <2>1. Len(MetaBinds) \in Nat
    BY EngineAssumption
  <2> QED
    BY <2>1, HintType
<1>3. hint \in ProtocolKind /\ p.idx \in Nat
  BY HintType, PacketFields
<1>4. meta \in SUBSET [q : Nat, hint : ProtocolKind]
  <2>1. v.meta \in SUBSET [q : Nat, hint : ProtocolKind]
    BY <1>1, ViewFields
  <2>2. [q |-> p.idx, hint |-> hint] \in [q : Nat, hint : ProtocolKind]
    BY <1>3
  <2> QED
    BY <2>1, <2>2 DEF Fingerprinted
<1>5. CASE v.conn.bind > 0
  <2>1. Bind(v, p) = v
    BY <1>5 DEF Bind
  <2> QED
    BY <2>1 DEF SameTables, SameHead
<1>6. CASE ~(v.conn.bind > 0)
  <2>1. Bind(v, p) = [v EXCEPT !.conn.bind = bind, !.conn.hint = hint, !.meta = meta]
    BY <1>6 DEF Bind
  <2> HIDE DEF bind, hint, meta
  <2>2. Bind(v, p) = w
    BY <2>1, <1>1 DEF View, ConnState
  <2>3. c \in ConnState /\ SameHead(v.conn, c)
    BY <1>1, <1>2, <1>3 DEF ConnState, SameHead
  <2> HIDE DEF c
  <2>4. w \in View /\ w.conn = c /\ SameTables(v, w)
    BY <1>1, <1>4, <2>3 DEF View, SameTables
  <2> QED
    BY <2>2, <2>3, <2>4 DEF Sound, SameTables
<1> QED
  BY <1>5, <1>6

(* The pending rows and the time-out rows after a request was opened: each *)
(* insertion is under NO_OVERWRITE.                                        *)
PendWith(v, p, end) ==
  IF \E h \in v.pend : h.inc = v.conn.inc /\ h.end = end THEN v.pend
  ELSE v.pend \cup {[inc |-> v.conn.inc, end |-> end, q |-> p.idx, ts |-> p.ts]}

TtlWith(v, p) ==
  IF \E t \in v.ttl : t.ts = p.ts THEN v.ttl ELSE v.ttl \cup {[ts |-> p.ts, q |-> p.idx]}

(* What opening a request does to the tables.                              *)
Opens(v, w, p, end) ==
  /\ w.live = v.live \cup {p.idx} /\ w.opened = v.opened \cup {p.idx} /\ w.rows = v.rows
  /\ w.pend = PendWith(v, p, end) /\ w.ttl = TtlWith(v, p)

(* open_q does that.                                                       *)
LEMMA OpenQOpens ==
  ASSUME NEW v, Sound(v), NEW p \in Packets, NEW end \in Nat
  PROVE  /\ Sound(OpenQ(v, p, end)) /\ Opens(v, OpenQ(v, p, end), p, end)
         /\ SameHead(v.conn, OpenQ(v, p, end).conn)
<1> DEFINE b == Bind(v, p)
           live == v.live \cup {p.idx}
           opened == v.opened \cup {p.idx}
           pend == PendWith(v, p, end)
           ttl == TtlWith(v, p)
           w == [b EXCEPT !.live = live, !.pend = pend, !.ttl = ttl, !.opened = opened]
<1>1. Sound(b) /\ SameTables(v, b) /\ SameHead(v.conn, b.conn)
  BY BindKeeps
<1>2. v \in View /\ b \in View /\ IsFiniteSet(v.live) /\ IsFiniteSet(v.pend)
  BY <1>1 DEF Sound
<1>3. p.idx \in Nat /\ p.ts \in Nat /\ v.conn.inc \in Nat
  BY <1>2, PacketFields, ViewFields, ConnFields
<1>4. live \in SUBSET Nat /\ opened \in SUBSET Nat
  BY <1>2, <1>3, ViewFields
<1>5. pend \in SUBSET PendRow
  <2>1. [inc |-> v.conn.inc, end |-> end, q |-> p.idx, ts |-> p.ts] \in PendRow
    BY <1>3 DEF PendRow
  <2> QED
    BY <2>1, <1>2, ViewFields DEF PendWith
<1>6. ttl \in SUBSET TtlRow
  <2>1. [ts |-> p.ts, q |-> p.idx] \in TtlRow
    BY <1>3 DEF TtlRow
  <2> QED
    BY <2>1, <1>2, ViewFields DEF TtlWith
<1>7. IsFiniteSet(live) /\ IsFiniteSet(pend)
  BY <1>2, FS_AddElement DEF PendWith
<1>8. OpenQ(v, p, end) = w
  BY <1>1, <1>2 DEF OpenQ, View, SameTables, PendWith, TtlWith
<1>9. live = v.live \cup {p.idx} /\ opened = v.opened \cup {p.idx}
  OBVIOUS
<1> HIDE DEF b, live, opened, pend, ttl
<1>10. w \in View /\ w.live = live /\ w.pend = pend
  BY <1>2, <1>4, <1>5, <1>6 DEF View
<1>11. w.ttl = ttl /\ w.opened = opened /\ w.rows = v.rows /\ w.conn = b.conn
  BY <1>2, <1>1 DEF View, SameTables
<1> QED
  BY <1>1, <1>7, <1>8, <1>9, <1>10, <1>11 DEF Sound, Opens, pend, ttl

-----------------------------------------------------------------------------
(* Where only the connection moves the tables agree, as long as what is    *)
(* pending is still reached.                                               *)
LEMMA SameAgrees ==
  ASSUME NEW v, Agree(v), NEW w, Sound(w), SameTables(v, w), Reached(w)
  PROVE  Agree(w)
<1>1. PendingInv(w)
  BY DEF Agree, PendingInv, SameTables
<1>2. VerdictInv(w)
  BY DEF Agree, VerdictInv, SameTables, Settled
<1>3. PairInv(w)
  BY DEF Agree, PairInv, SameTables
<1> QED
  BY <1>1, <1>2, <1>3 DEF Agree

(* Opening a request that ends at the head, above all that is pending,     *)
(* keeps the tables in agreement: NO_OVERWRITE finds nothing to keep.      *)
LEMMA OpenAgrees ==
  ASSUME NEW v, Agree(v), NEW p \in Packets, NEW end \in Nat, p.idx \notin v.opened,
         v.conn.consumed < end, end <= v.conn.c.abs, v.conn.c.active,
         \A h \in v.pend : h.end < end,
         NEW w, Sound(w), Opens(v, w, p, end), SameHead(v.conn, w.conn)
  PROVE  Agree(w)
<1> DEFINE new == [inc |-> v.conn.inc, end |-> end, q |-> p.idx, ts |-> p.ts]
<1>1. w.pend = v.pend \cup {new}
  <2>1. ~ \E h \in v.pend : h.inc = v.conn.inc /\ h.end = end
    <3>1. \A h \in v.pend : h.end \in Nat
      BY PendFields DEF Agree, Sound
    <3> QED
      BY <3>1
  <2> QED
    BY <2>1 DEF Opens, PendWith
<1>2. /\ w.live = v.live \cup {p.idx} /\ w.opened = v.opened \cup {p.idx} /\ w.rows = v.rows
      /\ w.conn.inc = v.conn.inc /\ w.conn.consumed = v.conn.consumed /\ w.conn.c = v.conn.c
  BY DEF Opens, SameHead
<1>3. p.idx \notin v.live /\ p.idx \notin Settled(v)
  BY DEF Agree, VerdictInv
<1>4. PendingInv(w)
  <2>1. new.q = p.idx /\ new.inc = v.conn.inc /\ new.end = end
    OBVIOUS
  <2> HIDE DEF new
  <2>2. {h.q : h \in w.pend} = w.live
    BY <1>1, <1>2, <2>1 DEF Agree, PendingInv
  <2>3. \A h \in v.pend : h.q # p.idx
    BY <1>3 DEF Agree, PendingInv
  <2>4. \A g, h \in w.pend : g.q = h.q => g = h
    BY <2>1, <2>3, <1>1 DEF Agree, PendingInv
  <2>5. Reached(w)
    BY <1>1, <1>2, <2>1 DEF Agree, PendingInv, Reached
  <2> QED
    BY <2>2, <2>4, <2>5 DEF PendingInv
<1>5. VerdictInv(w)
  <2>1. Settled(w) = Settled(v)
    BY <1>2 DEF Settled
  <2>2. w.live \cap Settled(w) = {} /\ w.live \cup Settled(w) = w.opened
    BY <2>1, <1>2, <1>3 DEF Agree, VerdictInv
  <2> QED
    BY <2>2, <1>2 DEF Agree, VerdictInv
<1>6. PairInv(w)
  BY <1>2 DEF Agree, PairInv
<1> QED
  BY <1>4, <1>5, <1>6 DEF Agree

(* What a packet adds: at most one request and rows of its own.            *)
Grown(v, p, w) ==
  /\ w.opened \subseteq v.opened \cup {p.idx}
  /\ \A r \in w.rows : r \in v.rows \/ r.by = p.idx

(* The packet has settled nothing, or nothing is left to settle.           *)
Idle(v, p) == v.pend = {} \/ \A r \in v.rows : r.by # p.idx

(* A client's packet keeps the tables in agreement: it opens a request     *)
(* only for new bytes, which end at the head.                              *)
LEMMA RequestAgrees ==
  ASSUME NEW v, Agree(v), NEW p \in Packets, NEW fed, p.idx \notin v.opened,
         fed.start \in Nat, fed.new \in Nat, v.conn.c.active,
         fed.new > 0 => fed.start + fed.new = v.conn.c.abs /\ \A h \in v.pend : h.end <= fed.start
  PROVE  LET w == Request(v, p, fed)
         IN  Agree(w) /\ Grown(v, p, w) /\ SameHead(v.conn, w.conn)
<1> DEFINE end == fed.start + fed.new
           w == Request(v, p, fed)
<1>1. Sound(v)
  BY DEF Agree
<1>2. end \in Nat
  OBVIOUS
<1>3. CASE fed.new > 0 /\ end > v.conn.consumed
  <2>1. w = OpenQ(v, p, end)
    BY <1>3 DEF Request
  <2>2. end = v.conn.c.abs /\ v.conn.c.abs \in Nat /\ v.conn.consumed \in Nat
    BY <1>1, <1>3, ViewFields, ConnFields, StreamFields DEF Sound
  <2>3. \A h \in v.pend : h.end < end
    <3>1. \A h \in v.pend : h.end \in Nat
      BY <1>1, PendFields DEF Sound
    <3> QED
      BY <3>1, <1>3
  <2>4. v.conn.consumed < end /\ end <= v.conn.c.abs
    BY <2>2, <1>3, <1>2
  <2> HIDE DEF end, w
  <2>5. Sound(w) /\ Opens(v, w, p, end) /\ SameHead(v.conn, w.conn)
    BY <1>1, <1>2, <2>1, OpenQOpens
  <2>6. Agree(w)
    BY <1>2, <2>3, <2>4, <2>5, OpenAgrees
  <2>7. Grown(v, p, w)
    BY <2>5 DEF Opens, Grown
  <2> QED
    BY <2>5, <2>6, <2>7 DEF w
<1>4. CASE ~(fed.new > 0 /\ end > v.conn.consumed)
  <2>1. w = v
    BY <1>4 DEF Request
  <2> QED
    BY <2>1 DEF Grown, SameHead
<1> QED
  BY <1>3, <1>4

(* A server's packet does, whatever it acknowledges.                       *)
LEMMA ResponseAgrees ==
  ASSUME NEW v, Agree(v), NEW p \in Packets, Idle(v, p)
  PROVE  LET w == Response(v, p)
         IN  Agree(w) /\ Grown(v, p, w) /\ w.conn.client = v.conn.client /\ w.conn.c = v.conn.c
<1> DEFINE ack == AbsOf(v.conn.c, p.ack)
           w == Response(v, p)
           hits == PendingUpto(v, ack + AckTol)
<1>1. Sound(v)
  BY DEF Agree
<1>2. v.conn \in ConnState /\ v.conn.consumed \in Nat /\ v.conn.c \in Stream
  BY <1>1, ViewFields, ConnFields DEF Sound
<1>3. ack \in Nat /\ p.idx \in Nat
  BY <1>2, DiffType, PacketFields
<1>4. CASE ack > v.conn.consumed /\ ack <= v.conn.c.abs + AckLeadCap
  <2>1. w = ConsumeR(v, p, ack)
    BY <1>4 DEF Response
  <2> HIDE DEF ack, w
  <2>2. ConsumeFacts(v, p, ack, w)
    BY <1>1, <1>3, <2>1, ConsumeRFacts
  <2>3. /\ Sound(w) /\ Changed(v, w, hits, MatchedRows(hits, p))
        /\ w.conn = [v.conn EXCEPT !.consumed = MaxOf(v.conn.consumed, ack)]
    BY <2>2 DEF ConsumeFacts
  <2>4. /\ w.conn.client = v.conn.client /\ w.conn.c = v.conn.c /\ w.conn.inc = v.conn.inc
        /\ w.conn.consumed = ack
    <3>1. MaxOf(v.conn.consumed, ack) = ack
      BY <1>2, <1>3, <1>4 DEF MaxOf
    <3> QED
      BY <2>3, <3>1, <1>2 DEF ConnState
  <2>5. hits \in SUBSET v.pend
    BY DEF PendingUpto
  <2>6. Reached(w)
    <3>1. SUFFICES ASSUME NEW h \in v.pend, h \notin hits
                   PROVE  /\ h.inc = w.conn.inc
                          /\ w.conn.consumed < h.end /\ h.end <= w.conn.c.abs
                          /\ w.conn.c.active
      BY <2>3 DEF Reached, Changed
    <3>2. h.inc = v.conn.inc /\ h.end <= v.conn.c.abs /\ v.conn.c.active
      BY DEF Agree, PendingInv, Reached
    <3>3. h.end \in Nat
      BY <1>1, PendFields DEF Sound
    <3>4. ~(h.end <= ack + AckTol)
      BY <3>1, <3>2 DEF PendingUpto
    <3>5. ack < h.end
      BY <3>3, <3>4, <1>3, ConstantTypes
    <3> QED
      BY <2>4, <3>2, <3>5
  <2> HIDE DEF hits
  <2>7. NewVerdicts(hits, MatchedRows(hits, p), p.idx)
    BY <2>5, MatchedVerdicts
  <2>8. Unused(v, MatchedRows(hits, p), p.idx)
    <3>1. hits = {} => MatchedRows(hits, p) = {}
      BY DEF MatchedRows
    <3> QED
      BY <3>1, <2>5 DEF Unused, Idle
  <2>9. Agree(w) /\ w.rows = v.rows \cup MatchedRows(hits, p)
    <3>1. Sound(w) /\ Changed(v, w, hits, MatchedRows(hits, p))
      BY <2>3
    <3> QED
      BY <1>3, <3>1, <2>5, <2>6, <2>7, <2>8, SettleAgrees
  <2>10. Grown(v, p, w)
    BY <2>3, <2>7, <2>9 DEF Grown, Changed, NewVerdicts
  <2> QED
    BY <2>4, <2>9, <2>10 DEF w
<1>5. CASE ~(ack > v.conn.consumed /\ ack <= v.conn.c.abs + AckLeadCap)
  <2>1. w = v
    BY <1>5 DEF Response
  <2> QED
    BY <2>1 DEF Grown
<1> QED
  BY <1>4, <1>5

(* So does the end of all that is pending, which leaves nothing pending    *)
(* for the packet to settle again.                                         *)
LEMMA EndAgrees ==
  ASSUME NEW v, Agree(v), NEW p \in Packets, Idle(v, p), NEW status \in Status,
         NEW conn, NEW w, EndFacts(v, w, status, p, conn)
  PROVE  Agree(w) /\ w.pend = {} /\ Grown(v, p, w)
<1> DEFINE hits == AllPending(v)
           rows == EndedRows(hits, status, p)
<1>1. hits = v.pend
  BY DEF AllPending, Agree, PendingInv, Reached
<1>2. Sound(w) /\ Changed(v, w, hits, rows)
  BY DEF EndFacts
<1>3. hits = {} => rows = {}
  BY DEF EndedRows
<1> HIDE DEF hits, rows
<1>4. NewVerdicts(hits, rows, p.idx) /\ p.idx \in Nat
  BY <1>1, EndedVerdicts, PacketFields DEF rows
<1>5. w.pend = {}
  BY <1>1, <1>2 DEF Changed
<1>6. Reached(w)
  BY <1>5 DEF Reached
<1>7. Unused(v, rows, p.idx)
  BY <1>1, <1>3 DEF Unused, Idle
<1>8. Agree(w) /\ w.rows = v.rows \cup rows
  BY <1>1, <1>2, <1>4, <1>6, <1>7, SettleAgrees
<1>9. Grown(v, p, w)
  BY <1>2, <1>4, <1>8 DEF Grown, Changed, NewVerdicts
<1> QED
  BY <1>5, <1>8, <1>9

(* Feeding the stream leaves the tables alone.                             *)
LEMMA FeedKeeps ==
  ASSUME NEW v, Sound(v), NEW p \in Packets, NEW dir \in {"C2S", "S2C"}, NEW fed,
         Feeds(StreamOf(v.conn, dir), p.len, fed)
  PROVE  LET u == [v EXCEPT !.conn = Advanced(v.conn, p, dir, fed.stream)]
         IN  /\ Sound(u) /\ SameTables(v, u)
             /\ Moves(v.conn, dir, fed.stream, u.conn)
<1> DEFINE c == Advanced(v.conn, p, dir, fed.stream)
<1>1. v.conn \in ConnState /\ fed.stream \in Stream
  BY ViewFields DEF Sound, Feeds
<1>2. Moves(v.conn, dir, fed.stream, c)
  BY <1>1, AdvancedMoves
<1>3. c \in ConnState
  BY <1>2 DEF Moves
<1> HIDE DEF c
<1> QED
  BY <1>2, <1>3, PutConn DEF c

(* The tables after a packet was matched, and whether the client's stream  *)
(* has its baseline.                                                       *)
MatchResult(v, p, dir, w) ==
  /\ Agree(w) /\ Grown(v, p, w) /\ w.conn.client = v.conn.client
  /\ w.conn.c.active <=> (v.conn.c.active \/ dir = "C2S")

(* Matching a packet keeps the tables in agreement. A packet with payload  *)
(* needs the baseline: a stream that takes it from a payload gives the     *)
(* request an end the head never reaches.                                  *)
LEMMA MatchAgrees ==
  ASSUME NEW v, Agree(v), NEW p \in Packets, NEW dir \in {"C2S", "S2C"}, Idle(v, p),
         p.idx \notin v.opened, p.len > 0 => v.conn.c.active
  PROVE  MatchResult(v, p, dir, Match(v, p, dir))
<1> DEFINE str == StreamOf(v.conn, dir)
           fed == FeedPacket(str, p.seq, p.len)
           u == [v EXCEPT !.conn = Advanced(v.conn, p, dir, fed.stream)]
<1>1. Sound(v) /\ v.conn \in ConnState /\ p.seq \in RawSeq /\ p.len \in Nat
  BY ViewFields, PacketFields DEF Agree, Sound
<1>2. str \in Stream
  BY <1>1, ConnFields DEF StreamOf
<1>3. Feeds(str, p.len, fed)
  BY <1>1, <1>2, FeedPacketFeeds
<1>4. Match(v, p, dir) = IF dir = "C2S" THEN Request(u, p, fed) ELSE Response(u, p)
  BY DEF Match
<1>5. dir = "C2S" => str = v.conn.c
  BY DEF StreamOf
<1> HIDE DEF str, fed
<1>6. Sound(u) /\ SameTables(v, u) /\ Moves(v.conn, dir, fed.stream, u.conn)
  BY <1>1, <1>3, FeedKeeps DEF str
<1> HIDE DEF u
<1>7. \A h \in v.pend : /\ h.inc = v.conn.inc /\ v.conn.consumed < h.end
                        /\ h.end <= v.conn.c.abs /\ v.conn.c.active
  BY DEF Agree, PendingInv, Reached
<1>8. \A h \in v.pend : h.end \in Nat
  BY <1>1, PendFields DEF Sound
<1>9. u.conn.client = v.conn.client /\ u.conn.inc = v.conn.inc /\ u.conn.consumed = v.conn.consumed
  BY <1>6 DEF Moves
<1>10. u.pend = v.pend /\ u.opened = v.opened /\ u.rows = v.rows
  BY <1>6 DEF SameTables
<1>11. v.conn.c \in Stream /\ v.conn.c.abs \in Nat /\ v.conn.c.active \in BOOLEAN
  BY <1>1, ConnFields, StreamFields
<1>12. CASE dir = "C2S"
  <2>1. u.conn.c = fed.stream /\ fed.stream \in Stream /\ fed.stream.abs \in Nat /\ u.conn.c.active
    BY <1>6, <1>12, <1>3, StreamFields DEF Moves, Feeds
  <2>2. v.conn.c.active => u.conn.c.abs >= v.conn.c.abs
    BY <2>1, <1>3, <1>5, <1>12 DEF Feeds
  <2>3. Reached(u)
    BY <1>7, <1>8, <1>9, <1>10, <1>11, <2>1, <2>2 DEF Reached
  <2>4. Agree(u)
    BY <1>6, <2>3, SameAgrees
  <2>5. fed.start \in Nat /\ fed.new \in Nat
    BY <1>3 DEF Feeds
  <2>6. ASSUME fed.new > 0
        PROVE  fed.start + fed.new = u.conn.c.abs /\ \A h \in u.pend : h.end <= fed.start
    <3>1. v.conn.c.active
      BY <2>6, <1>3, <1>5, <1>12 DEF Feeds
    <3>2. fed.start + fed.new = fed.stream.abs /\ fed.start >= v.conn.c.abs
      BY <2>6, <3>1, <1>3, <1>5, <1>12 DEF Feeds
    <3> QED
      BY <3>2, <2>1, <2>5, <1>7, <1>8, <1>10, <1>11
  <2> DEFINE w == Request(u, p, fed)
  <2>7. Agree(w) /\ Grown(u, p, w) /\ SameHead(u.conn, w.conn)
    BY <2>1, <2>4, <2>5, <2>6, <1>10, RequestAgrees
  <2>8. w = Match(v, p, dir)
    BY <1>4, <1>12
  <2> HIDE DEF w
  <2>9. MatchResult(v, p, dir, w)
    BY <2>1, <2>7, <1>9, <1>10, <1>12 DEF MatchResult, Grown, SameHead
  <2> QED
    BY <2>8, <2>9
<1>13. CASE dir = "S2C"
  <2>1. u.conn.c = v.conn.c
    BY <1>6, <1>13 DEF Moves
  <2>2. Reached(u)
    BY <1>7, <1>9, <1>10, <2>1 DEF Reached
  <2>3. Agree(u) /\ Idle(u, p)
    BY <1>6, <2>2, <1>10, SameAgrees DEF Idle
  <2> DEFINE w == Response(u, p)
  <2>4. Agree(w) /\ Grown(u, p, w) /\ w.conn.client = u.conn.client /\ w.conn.c = u.conn.c
    BY <2>3, ResponseAgrees
  <2>5. w = Match(v, p, dir)
    BY <1>4, <1>13
  <2> HIDE DEF w
  <2>6. MatchResult(v, p, dir, w)
    BY <2>1, <2>4, <1>9, <1>10, <1>13 DEF MatchResult, Grown
  <2> QED
    BY <2>5, <2>6
<1> QED
  BY <1>12, <1>13

-----------------------------------------------------------------------------
(* The connection a packet belongs to: the one there is, or a new one with *)
(* the packet's sender as its client.                                      *)
LocatedFacts(v, p, w) ==
  /\ Sound(w) /\ SameTables(v, w)
  /\ w.conn \in {v.conn, FreshConn(p.src, p.ts)}
  /\ w.conn.client \in Ends
  /\ v.conn.client # NoOne => w.conn = v.conn
  /\ v.conn.client = NoOne => w.conn = FreshConn(p.src, p.ts) /\ w.conn.client = p.src

(* Finding the connection leaves the tables alone.                         *)
LEMMA LocatedKeeps ==
  ASSUME NEW v, Sound(v), NEW p \in Packets
  PROVE  LocatedFacts(v, p, Located(Indexed(v, p), p))
<1> DEFINE recs == v.recs \cup {[ts |-> p.ts, idx |-> p.idx]}
           u == [v EXCEPT !.recs = recs]
           w == [u EXCEPT !.conn = FreshConn(p.src, p.ts)]
<1>1. v \in View /\ p.ts \in Nat /\ p.idx \in Nat /\ p.src \in Ends
  BY PacketFields DEF Sound
<1>2. recs \in SUBSET [ts : Nat, idx : Nat]
  <2>1. [ts |-> p.ts, idx |-> p.idx] \in [ts : Nat, idx : Nat]
    BY <1>1
  <2> QED
    BY <2>1, <1>1, ViewFields
<1>3. Indexed(v, p) = u
  BY DEF Indexed
<1> HIDE DEF recs
<1>4. u \in View /\ SameTables(v, u) /\ u.conn = v.conn
  BY <1>1, <1>2 DEF View, SameTables
<1>5. Sound(u)
  BY <1>4 DEF Sound, SameTables
<1> HIDE DEF u
<1>6. Located(u, p) = IF v.conn.client = NoOne THEN w ELSE u
  BY <1>4 DEF Located
<1>7. /\ FreshConn(p.src, p.ts) \in ConnState /\ FreshConn(p.src, p.ts).client = p.src
  BY <1>1, FreshConnType
<1>8. Sound(w) /\ SameTables(u, w) /\ w.conn = FreshConn(p.src, p.ts)
  BY <1>5, <1>7, PutConn
<1>9. v.conn.client \in Ends \cup {NoOne}
  BY <1>1, ViewFields, ConnFields
<1> HIDE DEF w
<1>10. CASE v.conn.client = NoOne
  <2>1. LocatedFacts(v, p, w)
    BY <1>10, <1>4, <1>7, <1>8, <1>1 DEF LocatedFacts, SameTables
  <2> QED
    BY <2>1, <1>3, <1>6, <1>10
<1>11. CASE v.conn.client # NoOne
  <2>1. LocatedFacts(v, p, u)
    BY <1>11, <1>4, <1>5, <1>9 DEF LocatedFacts, SameTables
  <2> QED
    BY <2>1, <1>3, <1>6, <1>11
<1> QED
  BY <1>10, <1>11

(* The tables after a packet, who is the client, and whether its stream    *)
(* has its baseline.                                                       *)
IngestResult(v, p, w) ==
  /\ Agree(w) /\ Grown(v, p, w)
  /\ w.conn.client = IF v.conn.client = NoOne THEN p.src ELSE v.conn.client
  /\ v.conn.client # NoOne /\ v.conn.c.active /\ "SYN" \notin p.flags => w.conn.c.active
  /\ w.conn.client = p.src /\ "RST" \notin p.flags => w.conn.c.active

(* The whole handler of a packet keeps the tables in agreement, for any    *)
(* packet whatsoever as long as payload only comes where the client's      *)
(* stream has its baseline: with a reset, with an epoch's flip (with or    *)
(* without SYN), with a request or a response.                             *)
LEMMA IngestAgrees ==
  ASSUME NEW v, Agree(v), NEW p \in Packets, p.idx \notin v.opened, \A r \in v.rows : r.by # p.idx,
         v.conn.client = NoOne => v.pend = {} /\ p.len = 0,
         p.len > 0 => v.conn.c.active /\ "SYN" \notin p.flags
  PROVE  IngestResult(v, p, Ingest(v, p))
<1> DEFINE located == Located(Indexed(v, p), p)
           dir == IF located.conn.client = p.src THEN "C2S" ELSE "S2C"
           flipped == EpochTriggered(located.conn, p, dir)
           current == IF flipped THEN FlipEpoch(located, p, dir) ELSE located
           w == Ingest(v, p)
<1>1. w = IF Has(p, "RST") THEN RstCascade(current, p) ELSE Match(current, p, dir)
  BY DEF Ingest
<1>2. Sound(v)
  BY DEF Agree
<1>3. dir \in {"C2S", "S2C"} /\ (dir = "C2S" <=> located.conn.client = p.src)
  OBVIOUS
<1>4. LocatedFacts(v, p, located)
  BY <1>2, LocatedKeeps
<1>5. flipped => "SYN" \in p.flags
  BY DEF EpochTriggered, Has
<1> HIDE DEF located, dir, flipped
<1>6. /\ Sound(located) /\ SameTables(v, located)
      /\ located.conn.client = IF v.conn.client = NoOne THEN p.src ELSE v.conn.client
      /\ v.conn.client # NoOne => located.conn = v.conn
  BY <1>4 DEF LocatedFacts
<1>7. Agree(located) /\ Idle(located, p) /\ Grown(v, p, located) /\ p.idx \notin located.opened
  <2>1. Reached(located)
    <3>1. CASE v.conn.client = NoOne
      BY <3>1, <1>6 DEF Reached, SameTables
    <3>2. CASE v.conn.client # NoOne
      BY <3>2, <1>6 DEF Agree, PendingInv, Reached, SameTables
    <3> QED
      BY <3>1, <3>2
  <2>2. Agree(located)
    BY <2>1, <1>6, SameAgrees
  <2> QED
    BY <2>2, <1>6 DEF Idle, Grown, SameTables
<1>8. p.len > 0 => located.conn.c.active /\ ~flipped
  BY <1>5, <1>6
<1>9. /\ Agree(current) /\ Idle(current, p) /\ Grown(v, p, current) /\ p.idx \notin current.opened
      /\ current.conn.client = located.conn.client
      /\ flipped => (current.conn.c.active <=> dir = "C2S")
      /\ ~flipped => current.conn = located.conn
  <2>1. CASE flipped
    <3> DEFINE conn == Rebirth(located.conn, p, dir)
    <3>1. EndFacts(located, current, "Unmatched", p, conn) /\ Reborn(located.conn, dir, conn)
      BY <2>1, <1>3, <1>6, FlipEpochFacts
    <3> HIDE DEF conn, current
    <3>2. Agree(current) /\ current.pend = {} /\ Grown(located, p, current)
      BY <1>7, <3>1, EndAgrees DEF Status
    <3>3. current.conn = conn /\ current.opened = located.opened
      BY <3>1 DEF EndFacts, Changed
    <3>4. Grown(v, p, current)
      BY <3>2, <1>7 DEF Grown
    <3> QED
      BY <2>1, <3>1, <3>2, <3>3, <3>4, <1>7 DEF Idle, Reborn
  <2>2. CASE ~flipped
    BY <2>2, <1>7
  <2> QED
    BY <2>1, <2>2
<1>10. p.len > 0 => current.conn.c.active
  BY <1>8, <1>9
<1> HIDE DEF current, w
<1>11. ASSUME Has(p, "RST") PROVE IngestResult(v, p, w)
  <2> DEFINE conn == [current.conn EXCEPT !.state = "Reset"]
  <2>1. EndFacts(current, w, "RstAbort", p, conn) /\ conn \in ConnState
    BY <1>11, <1>1, <1>9, RstCascadeFacts DEF Agree
  <2>2. conn.client = current.conn.client /\ conn.c = current.conn.c
    <3>1. current.conn \in ConnState
      BY <1>9, ViewFields DEF Agree, Sound
    <3> QED
      BY <3>1 DEF ConnState
  <2> HIDE DEF conn
  <2>3. Agree(w) /\ Grown(current, p, w)
    BY <1>9, <2>1, EndAgrees DEF Status
  <2>4. w.conn = conn
    BY <2>1 DEF EndFacts
  <2>5. Grown(v, p, w)
    BY <2>3, <1>9 DEF Grown
  <2>6. v.conn.c.active /\ "SYN" \notin p.flags /\ v.conn.client # NoOne => w.conn.c.active
    BY <2>2, <2>4, <1>5, <1>6, <1>9
  <2> QED
    BY <2>2, <2>3, <2>4, <2>5, <2>6, <1>6, <1>9, <1>11 DEF IngestResult, Has
<1>12. ASSUME ~Has(p, "RST") PROVE IngestResult(v, p, w)
  <2>1. MatchResult(current, p, dir, w)
    BY <1>12, <1>1, <1>3, <1>9, <1>10, MatchAgrees
  <2>2. Agree(w) /\ Grown(current, p, w) /\ w.conn.client = current.conn.client
    BY <2>1 DEF MatchResult
  <2>3. w.conn.c.active <=> (current.conn.c.active \/ dir = "C2S")
    BY <2>1 DEF MatchResult
  <2>4. Grown(v, p, w)
    BY <2>2, <1>9 DEF Grown
  <2> QED
    BY <2>2, <2>3, <2>4, <1>3, <1>5, <1>6, <1>9 DEF IngestResult
<1> QED
  BY <1>11, <1>12 DEF w

-----------------------------------------------------------------------------
(* The time-out table in the form the steps keep: a row for each live      *)
(* request, times and requests one to one, and the time of every pending   *)
(* row on it.                                                              *)
TtlInv(v) ==
  /\ v.live = {t.q : t \in v.ttl}
  /\ \A s, t \in v.ttl : s.q = t.q <=> s.ts = t.ts
  /\ \A h \in v.pend : [ts |-> h.ts, q |-> h.q] \in v.ttl
  /\ \A g, h \in v.pend : g.q = h.q => g = h

(* Nothing waits at the time of p, or under its index.                     *)
FreshTime(v, p) == \A t \in v.ttl : t.ts # p.ts /\ t.q # p.idx

(* A time-out row.                                                         *)
LEMMA TtlFields ==
  ASSUME NEW v \in View, NEW t \in v.ttl
  PROVE  t.ts \in Nat /\ t.q \in Nat /\ t = [ts |-> t.ts, q |-> t.q]
<1>1. t \in TtlRow
  BY ViewFields
<1> QED
  BY <1>1 DEF TtlRow

(* The connection does not matter.                                         *)
LEMMA TtlSame ==
  ASSUME NEW v, NEW w, TtlInv(v), SameTables(v, w)
  PROVE  TtlInv(w)
BY DEF TtlInv, SameTables

(* Settling takes the settled requests off the list, which settle finds by *)
(* the time of the pending row.                                            *)
LEMMA TtlChanged ==
  ASSUME NEW v \in View, NEW w, NEW hits \in SUBSET v.pend, NEW rows, Changed(v, w, hits, rows), TtlInv(v)
  PROVE  TtlInv(w) /\ w.ttl \subseteq v.ttl
<1>1. /\ w.live = v.live \ {h.q : h \in hits} /\ w.pend = v.pend \ hits
      /\ w.ttl = {t \in v.ttl : t.ts \notin {h.ts : h \in hits}}
  BY DEF Changed
<1>2. \A h \in v.pend : \E t \in v.ttl : t.ts = h.ts /\ t.q = h.q
  <2> TAKE h \in v.pend
  <2>1. [ts |-> h.ts, q |-> h.q] \in v.ttl
    BY DEF TtlInv
  <2> QED
    BY <2>1
<1>3. \A h \in v.pend, t \in v.ttl : t.ts = h.ts <=> t.q = h.q
  BY <1>2 DEF TtlInv
<1>4. w.live = {t.q : t \in w.ttl}
  <2>1. \A t \in v.ttl : t \in w.ttl <=> t.q \notin {h.q : h \in hits}
    BY <1>1, <1>3
  <2>2. w.ttl \subseteq v.ttl /\ v.live = {t.q : t \in v.ttl}
    BY <1>1 DEF TtlInv
  <2> QED
    BY <2>1, <2>2, <1>1
<1>5. \A h \in w.pend : [ts |-> h.ts, q |-> h.q] \in w.ttl
  <2> TAKE h \in w.pend
  <2>1. h \in v.pend /\ h \notin hits
    BY <1>1
  <2>2. [ts |-> h.ts, q |-> h.q] \in v.ttl
    BY <2>1 DEF TtlInv
  <2>3. ASSUME NEW g \in hits, g.ts = h.ts PROVE FALSE
    <3>1. g \in v.pend
      OBVIOUS
    <3>2. h.q = g.q
      BY <2>2, <2>3, <3>1, <1>3
    <3> QED
      BY <3>1, <3>2, <2>1 DEF TtlInv
  <2> QED
    BY <2>2, <2>3, <1>1
<1>6. /\ \A s, t \in w.ttl : s.q = t.q <=> s.ts = t.ts
      /\ \A g, h \in w.pend : g.q = h.q => g = h
  BY <1>1 DEF TtlInv
<1> QED
  BY <1>1, <1>4, <1>5, <1>6 DEF TtlInv

(* Opening a request puts it on the list, where its time finds no other    *)
(* row.                                                                    *)
LEMMA TtlOpens ==
  ASSUME NEW v \in View, NEW w, NEW p \in Packets, NEW end, Opens(v, w, p, end),
         FreshTime(v, p), TtlInv(v)
  PROVE  TtlInv(w)
<1> DEFINE new == [ts |-> p.ts, q |-> p.idx]
           row == [inc |-> v.conn.inc, end |-> end, q |-> p.idx, ts |-> p.ts]
<1>1. w.live = v.live \cup {p.idx} /\ w.ttl = v.ttl \cup {new} /\ w.pend \subseteq v.pend \cup {row}
  BY DEF Opens, TtlWith, PendWith, FreshTime
<1>2. new.ts = p.ts /\ new.q = p.idx /\ row.q = p.idx /\ [ts |-> row.ts, q |-> row.q] = new
  OBVIOUS
<1>3. \A h \in v.pend : h.q # p.idx
  <2> TAKE h \in v.pend
  <2>1. [ts |-> h.ts, q |-> h.q] \in v.ttl
    BY DEF TtlInv
  <2> QED
    BY <2>1 DEF FreshTime
<1> HIDE DEF new, row
<1>4. w.live = {t.q : t \in w.ttl}
  BY <1>1, <1>2 DEF TtlInv
<1>5. \A s, t \in w.ttl : s.q = t.q <=> s.ts = t.ts
  BY <1>1, <1>2 DEF TtlInv, FreshTime
<1>6. \A h \in w.pend : [ts |-> h.ts, q |-> h.q] \in w.ttl
  BY <1>1, <1>2 DEF TtlInv
<1>7. \A g, h \in w.pend : g.q = h.q => g = h
  BY <1>1, <1>2, <1>3 DEF TtlInv
<1> QED
  BY <1>4, <1>5, <1>6, <1>7 DEF TtlInv

(* What a stage of ingest does to the time-out table, whatever the tables  *)
(* What a part of the handler does to the list.                            *)
TtlStage(v, p, w) ==
  /\ Sound(w)
  /\ w.ttl \subseteq v.ttl \cup {[ts |-> p.ts, q |-> p.idx]}
  /\ TtlInv(v) /\ FreshTime(v, p) => TtlInv(w)

(* Settling is such a part.                                                *)
LEMMA TtlClosing ==
  ASSUME NEW v, Sound(v), NEW w, Sound(w), NEW p \in Packets, NEW hits \in SUBSET v.pend, NEW rows,
         Changed(v, w, hits, rows)
  PROVE  TtlStage(v, p, w) /\ w.ttl \subseteq v.ttl
<1>1. w.ttl \subseteq v.ttl
  BY DEF Changed
<1>2. TtlInv(v) => TtlInv(w)
  BY TtlChanged DEF Sound
<1> QED
  BY <1>1, <1>2 DEF TtlStage

(* Matching a packet is.                                                   *)
LEMMA MatchTtl ==
  ASSUME NEW v, Sound(v), NEW p \in Packets, NEW dir \in {"C2S", "S2C"}
  PROVE  TtlStage(v, p, Match(v, p, dir))
<1> DEFINE str == StreamOf(v.conn, dir)
           fed == FeedPacket(str, p.seq, p.len)
           u == [v EXCEPT !.conn = Advanced(v.conn, p, dir, fed.stream)]
           w == Match(v, p, dir)
           end == fed.start + fed.new
           ack == AbsOf(u.conn.c, p.ack)
<1>1. v.conn \in ConnState /\ p.seq \in RawSeq /\ p.len \in Nat
  BY ViewFields, PacketFields DEF Sound
<1>2. str \in Stream
  BY <1>1, ConnFields DEF StreamOf
<1>3. Feeds(str, p.len, fed)
  BY <1>1, <1>2, FeedPacketFeeds
<1>4. w = IF dir = "C2S" THEN Request(u, p, fed) ELSE Response(u, p)
  BY DEF Match
<1> HIDE DEF str, fed
<1>5. Sound(u) /\ SameTables(v, u)
  BY <1>1, <1>3, FeedKeeps DEF str
<1> HIDE DEF u
<1>6. u \in View /\ u.conn.c \in Stream /\ end \in Nat
  BY <1>3, <1>5, ViewFields, ConnFields DEF Sound, Feeds
<1>7. ack \in Nat
  BY <1>6, PacketFields, DiffType
<1>8. w = OpenQ(u, p, end) \/ w = ConsumeR(u, p, ack) \/ w = u
  BY <1>4 DEF Request, Response
<1> HIDE DEF end, ack, w
<1>9. TtlStage(u, p, w)
  <2>1. CASE w = OpenQ(u, p, end)
    <3>1. Sound(w) /\ Opens(u, w, p, end)
      BY <2>1, <1>5, <1>6, OpenQOpens
    <3>2. w.ttl \subseteq u.ttl \cup {[ts |-> p.ts, q |-> p.idx]}
      BY <3>1 DEF Opens, TtlWith
    <3>3. TtlInv(u) /\ FreshTime(u, p) => TtlInv(w)
      BY <3>1, <1>6, TtlOpens
    <3> QED
      BY <3>1, <3>2, <3>3 DEF TtlStage
  <2>2. CASE w = ConsumeR(u, p, ack)
    <3> DEFINE hits == PendingUpto(u, ack + AckTol)
    <3>1. ConsumeFacts(u, p, ack, w)
      BY <2>2, <1>5, <1>7, ConsumeRFacts
    <3>2. Sound(w) /\ Changed(u, w, hits, MatchedRows(hits, p)) /\ hits \in SUBSET u.pend
      BY <3>1 DEF ConsumeFacts, PendingUpto
    <3> HIDE DEF hits
    <3> QED
      BY <3>2, <1>5, TtlClosing
  <2>3. CASE w = u
    BY <2>3, <1>5 DEF TtlStage
  <2> QED
    BY <2>1, <2>2, <2>3, <1>8
<1>10. TtlStage(v, p, w)
  <2>1. TtlInv(v) => TtlInv(u)
    BY <1>5, TtlSame
  <2>2. u.ttl = v.ttl /\ (FreshTime(v, p) => FreshTime(u, p))
    BY <1>5 DEF SameTables, FreshTime
  <2> QED
    BY <2>1, <2>2, <1>9 DEF TtlStage
<1> QED
  BY <1>10 DEF w

(* One part after another.                                                 *)
LEMMA TtlThen ==
  ASSUME NEW v, NEW u, NEW p, NEW w, TtlStage(v, p, u), u.ttl \subseteq v.ttl, TtlStage(u, p, w)
  PROVE  TtlStage(v, p, w)
<1>1. FreshTime(v, p) => FreshTime(u, p)
  BY DEF FreshTime
<1> QED
  BY <1>1 DEF TtlStage

(* The whole handler is.                                                   *)
LEMMA IngestTtl ==
  ASSUME NEW v, Sound(v), NEW p \in Packets
  PROVE  TtlStage(v, p, Ingest(v, p))
<1> DEFINE located == Located(Indexed(v, p), p)
           dir == IF located.conn.client = p.src THEN "C2S" ELSE "S2C"
           current == IF EpochTriggered(located.conn, p, dir) THEN FlipEpoch(located, p, dir) ELSE located
           w == Ingest(v, p)
<1>1. w = IF Has(p, "RST") THEN RstCascade(current, p) ELSE Match(current, p, dir)
  BY DEF Ingest
<1>2. dir \in {"C2S", "S2C"}
  OBVIOUS
<1>3. Sound(located) /\ SameTables(v, located)
  BY LocatedKeeps DEF LocatedFacts
<1>4. current = FlipEpoch(located, p, dir) \/ current = located
  OBVIOUS
<1> HIDE DEF located, dir, current, w
<1>5. TtlStage(v, p, located) /\ located.ttl \subseteq v.ttl
  <2>1. TtlInv(v) => TtlInv(located)
    BY <1>3, TtlSame
  <2> QED
    BY <2>1, <1>3 DEF TtlStage, SameTables
<1>6. ASSUME NEW x, Sound(x), NEW y, NEW status, NEW conn, EndFacts(x, y, status, p, conn)
      PROVE  TtlStage(x, p, y) /\ y.ttl \subseteq x.ttl
  <2> DEFINE hits == AllPending(x)
             rows == EndedRows(hits, status, p)
  <2>1. hits \in SUBSET x.pend
    BY DEF AllPending
  <2>2. Sound(y) /\ Changed(x, y, hits, rows)
    BY <1>6 DEF EndFacts
  <2> HIDE DEF hits, rows
  <2> QED
    BY <2>1, <2>2, <1>6, TtlClosing
<1>7. TtlStage(v, p, current) /\ current.ttl \subseteq v.ttl
  <2>1. CASE current = FlipEpoch(located, p, dir)
    <3>1. TtlStage(located, p, current) /\ current.ttl \subseteq located.ttl
      BY <2>1, <1>2, <1>3, <1>6, FlipEpochFacts
    <3> QED
      BY <3>1, <1>5, TtlThen
  <2>2. CASE current = located
    BY <2>2, <1>5
  <2> QED
    BY <2>1, <2>2, <1>4
<1>8. Sound(current)
  BY <1>7 DEF TtlStage
<1>9. TtlStage(current, p, w)
  <2>1. CASE Has(p, "RST")
    BY <2>1, <1>1, <1>6, <1>8, RstCascadeFacts
  <2>2. CASE ~Has(p, "RST")
    BY <2>2, <1>1, <1>2, <1>8, MatchTtl
  <2> QED
    BY <2>1, <2>2
<1>10. TtlStage(v, p, w)
  BY <1>7, <1>9, TtlThen
<1> QED
  BY <1>10 DEF w

-----------------------------------------------------------------------------
(* The tables as a packet leaves them (Capture).                           *)
Stored(v) ==
  [Writeback(v) EXCEPT !.recs = {}, !.archive = {}, !.conn.first = 0, !.conn.last = 0]

(* The write-back leaves them alone.                                       *)
LEMMA StoredKeeps ==
  ASSUME NEW v, Sound(v)
  PROVE  Sound(Stored(v)) /\ SameTables(v, Stored(v)) /\ SameHead(v.conn, Stored(v).conn)
<1> DEFINE c == [v.conn EXCEPT !.open = Cardinality(v.pend), !.first = 0, !.last = 0]
           w == [v EXCEPT !.conn = c, !.recs = {}, !.archive = {}]
<1>1. v \in View /\ v.conn \in ConnState /\ Cardinality(v.pend) \in Nat
  BY ViewFields, FS_CardinalityType DEF Sound
<1>2. Stored(v) = w
  BY <1>1 DEF Stored, Writeback, View, ConnState
<1>3. c \in ConnState /\ SameHead(v.conn, c)
  BY <1>1 DEF ConnState, SameHead
<1> HIDE DEF c
<1>4. w \in View /\ w.conn = c /\ SameTables(v, w)
  BY <1>1, <1>3 DEF View, SameTables
<1> QED
  BY <1>2, <1>3, <1>4 DEF Sound, SameTables

(* The requests that a scan gives up: live still, and without a terminal   *)
(* row.                                                                    *)
Due(v, qs) == (qs \cap v.live) \ Settled(v)

(* What a scan of the time-out table does.                                 *)
ScanFacts(v, w, gone, qs) ==
  /\ Sound(w) /\ SameHead(v.conn, w.conn)
  /\ gone \in SUBSET v.ttl /\ qs = {t.q : t \in gone}
  /\ w.opened = v.opened /\ w.ttl = v.ttl \ gone /\ w.live = v.live \ qs
  /\ w.rows = v.rows \cup {Row(q, "Timeout", 0, {q}) : q \in Due(v, qs)}
  /\ w.pend = {h \in v.pend : ~(h.q \in qs /\ FirstPending(v, h))}

(* scan_pending_ttl does that, whatever is due.                            *)
LEMMA ScanKeeps ==
  ASSUME NEW v, Sound(v), NEW now \in Nat
  PROVE  \E gone, qs : ScanFacts(v, ScanPendingTtl(v, now), gone, qs)
<1> DEFINE gone == IF QrTimeout = 0 THEN {} ELSE Expired(v, now)
           qs == {t.q : t \in gone}
           due == Due(v, qs)
           rows == v.rows \cup {Row(q, "Timeout", 0, {q}) : q \in due}
           live == v.live \ qs
           pend == {h \in v.pend : ~(h.q \in qs /\ FirstPending(v, h))}
           ttl == v.ttl \ gone
           audit == v.audit \cup {[q |-> q, status |-> "Timeout"] : q \in due}
           open == MaxOf(v.conn.open - Cardinality(due), 0)
           c == [v.conn EXCEPT !.open = open]
           w == [v EXCEPT !.rows = rows, !.live = live, !.pend = pend, !.ttl = ttl,
                          !.conn = c, !.audit = audit]
<1>1. v \in View /\ v.conn \in ConnState /\ IsFiniteSet(v.live) /\ IsFiniteSet(v.pend)
  BY ViewFields DEF Sound
<1>2. gone \in SUBSET v.ttl
  BY DEF Expired
<1>3. due \in SUBSET v.live /\ v.live \in SUBSET Nat
  BY <1>1, ViewFields DEF Due
<1>4. open \in Nat
  <2>1. IsFiniteSet(due)
    BY <1>1, <1>3, FS_Subset
  <2>2. Cardinality(due) \in Nat /\ v.conn.open \in Nat
    BY <1>1, <2>1, FS_CardinalityType, ConnFields
  <2> QED
    BY <2>2 DEF MaxOf
<1>5. rows \in SUBSET TermRow
  <2>1. \A q \in due : q \in Nat /\ {q} \in SUBSET Nat
    BY <1>3
  <2>2. \A q \in due : Row(q, "Timeout", 0, {q}) \in TermRow
    BY <2>1, RowFields DEF Status
  <2> QED
    BY <2>2, <1>1, ViewFields
<1>6. audit \in SUBSET [q : Nat, status : Status]
  <2>1. \A q \in due : [q |-> q, status |-> "Timeout"] \in [q : Nat, status : Status]
    BY <1>3 DEF Status
  <2>2. v.audit \in SUBSET [q : Nat, status : Status]
    BY <1>1, ViewFields
  <2> HIDE DEF due
  <2> QED
    BY <2>1, <2>2
<1>7. live \in SUBSET Nat /\ pend \in SUBSET PendRow /\ ttl \in SUBSET TtlRow
  BY <1>1, ViewFields
<1>8. IsFiniteSet(live) /\ IsFiniteSet(pend)
  BY <1>1, FS_Subset
<1>9. ScanPendingTtl(v, now) = w
  <2>1. ScanPendingTtl(v, now) =
          [v EXCEPT !.rows = rows, !.live = live, !.pend = pend, !.ttl = ttl,
                    !.conn.open = open, !.audit = audit]
    BY DEF ScanPendingTtl, Due
  <2> HIDE DEF rows, live, pend, ttl, audit, open
  <2> QED
    BY <2>1, <1>1 DEF View, ConnState
<1>10. /\ ttl = v.ttl \ gone /\ live = v.live \ qs
       /\ rows = v.rows \cup {Row(q, "Timeout", 0, {q}) : q \in Due(v, qs)}
       /\ pend = {h \in v.pend : ~(h.q \in qs /\ FirstPending(v, h))}
       /\ qs = {t.q : t \in gone}
  OBVIOUS
<1> HIDE DEF gone, qs, due, rows, live, pend, ttl, audit, open
<1>11. c \in ConnState /\ SameHead(v.conn, c)
  BY <1>1, <1>4 DEF ConnState, SameHead
<1> HIDE DEF c
<1>12. w \in View /\ w.live = live /\ w.pend = pend /\ w.conn = c
  BY <1>1, <1>5, <1>6, <1>7, <1>11 DEF View
<1>13. w.ttl = ttl /\ w.rows = rows /\ w.opened = v.opened
  BY <1>1 DEF View
<1> HIDE DEF w
<1>14. ScanFacts(v, w, gone, qs)
  BY <1>2, <1>8, <1>10, <1>11, <1>12, <1>13 DEF ScanFacts, Sound
<1> QED
  BY <1>9, <1>14

(* It takes away the pending rows of the requests it gives up.             *)
LEMMA ScanTakes ==
  ASSUME NEW v, Sound(v), NEW w, NEW gone, NEW qs, ScanFacts(v, w, gone, qs),
         \A g, h \in v.pend : g.q = h.q => g = h
  PROVE  w.pend = {h \in v.pend : h.q \notin qs}
<1>1. \A h \in v.pend : FirstPending(v, h)
  <2>1. \A h \in v.pend : h.inc \in Nat /\ h.end \in Nat
    BY PendFields DEF Sound
  <2> QED
    BY <2>1 DEF FirstPending, Before
<1> QED
  BY <1>1 DEF ScanFacts

(* So a scan keeps the tables in agreement.                                *)
LEMMA ScanAgrees ==
  ASSUME NEW v, Agree(v), NEW w, NEW gone, NEW qs, ScanFacts(v, w, gone, qs)
  PROVE  /\ Agree(w) /\ w.opened = v.opened /\ w.pend \subseteq v.pend
         /\ \A r \in w.rows : r \in v.rows \/ r.by = 0
<1> DEFINE new == {Row(q, "Timeout", 0, {q}) : q \in Due(v, qs)}
<1>1. w.pend = {h \in v.pend : h.q \notin qs}
  BY ScanTakes DEF Agree, PendingInv
<1>2. /\ w.live = v.live \ qs /\ w.rows = v.rows \cup new /\ w.opened = v.opened
      /\ Sound(w) /\ SameHead(v.conn, w.conn)
  BY DEF ScanFacts
<1>3. Due(v, qs) = qs \cap v.live
  BY DEF Due, Agree, VerdictInv
<1>5. ASSUME NEW r \in new PROVE r.q \in Due(v, qs) /\ r.by = 0 /\ r.also = {r.q}
  BY DEF Row
<1>6. {r.q : r \in new} = Due(v, qs)
  <2>1. ASSUME NEW q \in Due(v, qs) PROVE \E r \in new : r.q = q
    <3>1. Row(q, "Timeout", 0, {q}) \in new /\ Row(q, "Timeout", 0, {q}).q = q
      BY DEF Row
    <3> QED
      BY <3>1
  <2> HIDE DEF new
  <2> QED
    BY <2>1, <1>5
<1>7. ASSUME NEW r \in new, NEW s \in new, r.q = s.q PROVE r = s
  BY <1>7 DEF Row
<1> HIDE DEF new
<1>8. PendingInv(w)
  <2>1. {h.q : h \in w.pend} = w.live
    BY <1>1, <1>2 DEF Agree, PendingInv
  <2>2. Reached(w)
    BY <1>1, <1>2 DEF Agree, PendingInv, Reached, SameHead
  <2> QED
    BY <2>1, <2>2, <1>1 DEF Agree, PendingInv
<1>9. VerdictInv(w)
  <2>1. Settled(w) = Settled(v) \cup (qs \cap v.live)
    BY <1>2, <1>3, <1>6 DEF Settled
  <2>2. w.live \cap Settled(w) = {} /\ w.live \cup Settled(w) = w.opened
    BY <2>1, <1>2 DEF Agree, VerdictInv
  <2>3. \A r, s \in w.rows : r.q = s.q => r = s
    <3>1. \A r \in v.rows : r.q \notin Due(v, qs)
      BY DEF Due, Settled
    <3> QED
      BY <3>1, <1>2, <1>5, <1>7 DEF Agree, VerdictInv
  <2> QED
    BY <2>2, <2>3 DEF VerdictInv
<1>10. PairInv(w)
  <2>1. \A r \in new : \A q \in r.also : q = r.q
    BY <1>5
  <2> QED
    BY <2>1, <1>2, <1>5 DEF Agree, PairInv
<1> QED
  BY <1>1, <1>2, <1>5, <1>8, <1>9, <1>10 DEF Agree

(* And the time-out table.                                                 *)
LEMMA ScanTtl ==
  ASSUME NEW v, Sound(v), NEW w, NEW gone, NEW qs, ScanFacts(v, w, gone, qs), TtlInv(v)
  PROVE  TtlInv(w) /\ w.ttl \subseteq v.ttl
<1>1. w.pend = {h \in v.pend : h.q \notin qs}
  BY ScanTakes DEF TtlInv
<1>2. /\ w.live = v.live \ qs /\ w.ttl = v.ttl \ gone /\ gone \in SUBSET v.ttl
      /\ qs = {t.q : t \in gone}
  BY DEF ScanFacts
<1>3. \A s, t \in v.ttl : s.q = t.q => s = t
  <2>1. \A t \in v.ttl : t = [ts |-> t.ts, q |-> t.q]
    BY TtlFields DEF Sound
  <2> QED
    BY <2>1 DEF TtlInv
<1>4. \A t \in v.ttl : t \in gone <=> t.q \in qs
  BY <1>2, <1>3
<1>5. w.live = {t.q : t \in w.ttl}
  BY <1>2, <1>4 DEF TtlInv
<1>6. \A h \in w.pend : [ts |-> h.ts, q |-> h.q] \in w.ttl
  <2> TAKE h \in w.pend
  <2>1. [ts |-> h.ts, q |-> h.q] \in v.ttl /\ h.q \notin qs
    BY <1>1 DEF TtlInv
  <2>2. [ts |-> h.ts, q |-> h.q] \notin gone
    BY <2>1, <1>4
  <2> QED
    BY <2>1, <2>2, <1>2
<1> QED
  BY <1>1, <1>2, <1>5, <1>6 DEF TtlInv

-----------------------------------------------------------------------------
(* The client of the conversation, and the clock, with their types.        *)
Peer ==
  [phase : {"Closed", "SynSent", "SynRcvd", "Open"}, gen : Nat, isn : RawSeq,
   sent : Nat, acked : Nat, fin : Nat]

Clock == [now : Nat, packets : Nat]

(* The type invariant of the specification.                                *)
Typed ==
  talk \in Talks /\ Sound(view) /\ peer \in Peer /\ clock \in Clock /\ late \in SUBSET Packets

(* The packet a step captures, and all it does to the tables, the clock    *)
(* and the copies.                                                         *)
Taken(p) ==
  /\ p \in Packets /\ p.idx = clock.packets + 1 /\ p.ts = clock'.now
  /\ clock' \in Clock /\ clock'.packets = p.idx
  /\ clock'.now >= clock.now /\ (0 \notin Steps => clock'.now > clock.now)
  /\ view' = Stored(Ingest(view, p)) /\ talk' = talk
  /\ late' = IF p.flags \in talk.late THEN late \cup {p} ELSE late

(* Where it comes from.                                                    *)
Origin(p) ==
  \/ p.src = Client /\ p.flags = {"SYN"} /\ p.len = 0 /\ peer'.phase = "SynSent"
  \/ p.flags = {"SYN", "ACK"} /\ p.len = 0 /\ peer.phase # "Closed" /\ peer'.phase = "SynRcvd"
  \/ /\ p.src = Client /\ p.flags = {"ACK"} /\ peer.phase # "Closed"
     /\ p.len > 0 => peer.phase = "Open"
  \/ p.flags = {"ACK"} /\ p.len = 0 /\ peer.phase = "Open"
  \/ p.flags = {"RST"} /\ p.len = 0 /\ peer.phase # "Closed" /\ peer'.phase = "Closed"
  \/ p.src = Client /\ p.flags = {"FIN", "ACK"} /\ p.len = 0 /\ peer.phase = "Open"
  \/ /\ \E l \in late : p.src = l.src /\ p.flags = l.flags /\ p.len = l.len
     /\ peer' = peer

(* The other steps: a scan, and time passing.                              *)
Scanned == view' = ScanPendingTtl(view, clock.now) /\ UNCHANGED <<talk, peer, clock, late>>

Ticked ==
  /\ UNCHANGED <<talk, view, peer, late>>
  /\ clock' \in Clock /\ clock'.packets = clock.packets /\ clock'.now >= clock.now

(* The fields of the client.                                               *)
LEMMA PeerFields ==
  ASSUME NEW x \in Peer
  PROVE  /\ x.phase \in {"Closed", "SynSent", "SynRcvd", "Open"} /\ x.gen \in Nat /\ x.isn \in RawSeq
         /\ x.sent \in Nat /\ x.acked \in Nat /\ x.fin \in Nat
BY DEF Peer

(* Its numbers.                                                            *)
LEMMA RawAtType ==
  ASSUME peer \in Peer, NEW n \in Nat
  PROVE  RawAt(n) \in RawSeq
<1>1. peer.isn \in Nat
  BY PeerFields, ConstantTypes
<1>2. peer.isn + 1 + n \in Int
  BY <1>1
<1> QED
  BY <1>2, ModRange DEF RawAt

(* Capturing a packet is one such step.                                    *)
LEMMA CaptureTakes ==
  ASSUME Typed, NEW src \in Ends, NEW flags \in SUBSET Flag, NEW seq \in RawSeq, NEW ack \in RawSeq,
         NEW len \in Nat, Capture(src, flags, seq, ack, len)
  PROVE  \E p : Taken(p) /\ p.src = src /\ p.flags = flags /\ p.len = len
<1>1. clock.now \in Nat /\ clock.packets \in Nat
  BY DEF Typed, Clock
<1> DEFINE now(dt) == MaxOf(clock.now + dt, 1)
           packet(dt) == Packet(clock.packets + 1, now(dt), src, flags, seq, ack, len, Unknown)
<1>2. PICK dt \in Steps :
        /\ clock' = [now |-> now(dt), packets |-> clock.packets + 1]
        /\ view' = [Writeback(Ingest(view, packet(dt))) EXCEPT
                      !.recs = {}, !.archive = {}, !.conn.first = 0, !.conn.last = 0]
        /\ late' = IF flags \in talk.late THEN late \cup {packet(dt)} ELSE late
        /\ talk' = talk
  BY DEF Capture
<1> DEFINE n == now(dt)
           p == packet(dt)
<1>3. dt \in Nat
  BY ConversationAssumption
<1>4. n \in Nat /\ n >= clock.now /\ (dt # 0 => n > clock.now)
  BY <1>1, <1>3 DEF MaxOf
<1>5. p = [idx |-> clock.packets + 1, ts |-> n, src |-> src, flags |-> flags,
           seq |-> seq, ack |-> ack, len |-> len, kind |-> Unknown]
  BY DEF Packet
<1>6. view' = Stored(Ingest(view, p))
  BY <1>2 DEF Stored
<1>7. clock' = [now |-> n, packets |-> clock.packets + 1] /\ talk' = talk
      /\ late' = IF flags \in talk.late THEN late \cup {p} ELSE late
  BY <1>2
<1> HIDE DEF n, p
<1>8. p \in Packets
  BY <1>1, <1>4, <1>5, ConstantTypes DEF Packets
<1>9. /\ p.idx = clock.packets + 1 /\ p.ts = n /\ p.src = src /\ p.flags = flags /\ p.len = len
  BY <1>5
<1>10. clock' \in Clock /\ clock'.now = n /\ clock'.packets = clock.packets + 1
  BY <1>1, <1>4, <1>7 DEF Clock
<1>11. 0 \notin Steps => n > clock.now
  BY <1>4
<1>12. Taken(p)
  BY <1>4, <1>6, <1>7, <1>8, <1>9, <1>10, <1>11 DEF Taken
<1> QED
  BY <1>9, <1>12

(* What the assumptions say of the conversation.                           *)
LEMMA Conversation ==
  /\ Client \in Ends /\ Server \in Ends /\ InitialSeqs \subseteq RawSeq
  /\ \A t \in Talks : t.sent \in Nat /\ t.len \in Nat
  /\ {"SYN"} \in SUBSET Flag /\ {"SYN", "ACK"} \in SUBSET Flag /\ {"ACK"} \in SUBSET Flag
  /\ {"RST"} \in SUBSET Flag /\ {"FIN", "ACK"} \in SUBSET Flag
  /\ ServerSeq \in RawSeq /\ 0 \in RawSeq
BY ConversationAssumption, ConstantTypes DEF Flag, ServerSeq

(* Every step captures a packet of one of these origins, or scans, or      *)
(* passes time: the case split over the actions is made here, once, and    *)
(* the invariants only look at the packet.                                 *)
LEMMA NextTakes ==
  ASSUME Typed, Next
  PROVE  /\ peer' \in Peer
         /\ (\E p : Taken(p) /\ Origin(p)) \/ Scanned \/ Ticked
<1>1. peer \in Peer /\ talk \in Talks /\ late \in SUBSET Packets /\ clock \in Clock
  BY DEF Typed
<1>2. /\ peer.phase \in {"Closed", "SynSent", "SynRcvd", "Open"} /\ peer.gen \in Nat
      /\ peer.isn \in RawSeq /\ peer.sent \in Nat /\ peer.acked \in Nat /\ peer.fin \in Nat
  BY <1>1, PeerFields
<1>3. RawAt(0) \in RawSeq /\ RawAt(peer.sent) \in RawSeq
  BY <1>1, <1>2, RawAtType
<1>4. ASSUME NEW isn \in InitialSeqs, OpenGeneration(isn)
      PROVE  peer' \in Peer /\ \E p : Taken(p) /\ Origin(p)
  <2>1. isn \in RawSeq
    BY Conversation
  <2>2. peer' = [phase |-> "SynSent", gen |-> peer.gen + 1, isn |-> isn, sent |-> 0, acked |-> 0, fin |-> 0]
    BY <1>4 DEF OpenGeneration
  <2>3. Capture(Client, {"SYN"}, isn, 0, 0)
    BY <1>4 DEF OpenGeneration
  <2>4. \E p : Taken(p) /\ p.src = Client /\ p.flags = {"SYN"} /\ p.len = 0
    BY <2>1, <2>3, CaptureTakes, Conversation
  <2>5. peer' \in Peer /\ peer'.phase = "SynSent"
    BY <1>2, <2>1, <2>2 DEF Peer
  <2> QED
    BY <2>4, <2>5 DEF Origin
<1>5. ASSUME ResendSyn PROVE peer' \in Peer /\ \E p : Taken(p) /\ Origin(p)
  <2>1. \E p : Taken(p) /\ p.src = Client /\ p.flags = {"SYN"} /\ p.len = 0
    BY <1>2, <1>5, CaptureTakes, Conversation DEF ResendSyn
  <2>2. peer' \in Peer /\ peer'.phase = "SynSent"
    BY <1>1, <1>5 DEF ResendSyn, Peer
  <2> QED
    BY <2>1, <2>2 DEF Origin
<1>6. ASSUME AnswerSyn PROVE peer' \in Peer /\ \E p : Taken(p) /\ Origin(p)
  <2>1. \E p : Taken(p) /\ p.src = Server /\ p.flags = {"SYN", "ACK"} /\ p.len = 0
    BY <1>3, <1>6, CaptureTakes, Conversation DEF AnswerSyn
  <2>2. peer' \in Peer /\ peer'.phase = "SynRcvd" /\ peer.phase # "Closed"
    BY <1>1, <1>6 DEF AnswerSyn, Peer
  <2> QED
    BY <2>1, <2>2 DEF Origin
<1>7. ASSUME CompleteHandshake PROVE peer' \in Peer /\ \E p : Taken(p) /\ Origin(p)
  <2>1. \E p : Taken(p) /\ p.src = Client /\ p.flags = {"ACK"} /\ p.len = 0
    BY <1>3, <1>7, CaptureTakes, Conversation DEF CompleteHandshake
  <2>2. peer' \in Peer /\ peer.phase # "Closed"
    BY <1>1, <1>7 DEF CompleteHandshake, Peer
  <2> QED
    BY <2>1, <2>2 DEF Origin
<1>8. ASSUME NEW from \in 0 .. talk.sent, NEW len \in 1 .. talk.len, SendRequest(from, len)
      PROVE  peer' \in Peer /\ \E p : Taken(p) /\ Origin(p)
  <2>1. from \in Nat /\ len \in Nat /\ from + len \in Nat
    BY <1>1, Conversation
  <2>2. RawAt(from) \in RawSeq
    BY <1>1, <2>1, RawAtType
  <2>3. \E p : Taken(p) /\ p.src = Client /\ p.flags = {"ACK"} /\ p.len = len
    BY <2>1, <2>2, <1>8, CaptureTakes, Conversation DEF SendRequest
  <2>4. peer' \in Peer /\ peer.phase = "Open"
    BY <1>1, <1>8, <2>1 DEF SendRequest, Peer
  <2> QED
    BY <2>3, <2>4 DEF Origin
<1>9. ASSUME NEW from \in 0 .. talk.sent, NEW len \in 1 .. talk.len, Retransmit(from, len)
      PROVE  peer' \in Peer /\ \E p : Taken(p) /\ Origin(p)
  <2>1. from \in Nat /\ len \in Nat
    BY <1>1, Conversation
  <2>2. RawAt(from) \in RawSeq
    BY <1>1, <2>1, RawAtType
  <2>3. \E p : Taken(p) /\ p.src = Client /\ p.flags = {"ACK"} /\ p.len = len
    BY <2>1, <2>2, <1>9, CaptureTakes, Conversation DEF Retransmit
  <2>4. peer' \in Peer /\ peer.phase = "Open"
    BY <1>1, <1>9 DEF Retransmit
  <2> QED
    BY <2>3, <2>4 DEF Origin
<1>10. ASSUME NEW upto \in 0 .. talk.sent, Respond(upto)
       PROVE  peer' \in Peer /\ \E p : Taken(p) /\ Origin(p)
  <2>1. upto \in Nat
    BY <1>1, Conversation
  <2>2. RawAt(upto) \in RawSeq
    BY <1>1, <2>1, RawAtType
  <2>3. \E p : Taken(p) /\ p.src = Server /\ p.flags = {"ACK"} /\ p.len = 0
    BY <2>2, <1>10, CaptureTakes, Conversation DEF Respond
  <2>4. peer' \in Peer /\ peer.phase = "Open"
    BY <1>1, <1>10, <2>1 DEF Respond, Peer
  <2> QED
    BY <2>3, <2>4 DEF Origin
<1>11. ASSUME NEW src \in Ends, Reset(src) PROVE peer' \in Peer /\ \E p : Taken(p) /\ Origin(p)
  <2>1. \E p : Taken(p) /\ p.src = src /\ p.flags = {"RST"} /\ p.len = 0
    BY <1>3, <1>11, CaptureTakes, Conversation DEF Reset
  <2>2. peer' \in Peer /\ peer'.phase = "Closed" /\ peer.phase # "Closed"
    BY <1>1, <1>11 DEF Reset, Peer
  <2> QED
    BY <2>1, <2>2 DEF Origin
<1>12. ASSUME Finish PROVE peer' \in Peer /\ \E p : Taken(p) /\ Origin(p)
  <2>1. PICK p : Taken(p) /\ p.src = Client /\ p.flags = {"FIN", "ACK"} /\ p.len = 0
    BY <1>3, <1>12, CaptureTakes, Conversation DEF Finish
  <2>2. clock'.now \in Nat
    BY <2>1 DEF Taken, Clock
  <2>3. peer' \in Peer /\ peer.phase = "Open"
    BY <1>1, <1>12, <2>2 DEF Finish, Peer
  <2> QED
    BY <2>1, <2>3 DEF Origin
<1>13. ASSUME NEW l \in late, CaptureLate(l) PROVE peer' \in Peer /\ \E p : Taken(p) /\ Origin(p)
  <2>1. /\ l.src \in Ends /\ l.flags \in SUBSET Flag /\ l.seq \in RawSeq /\ l.ack \in RawSeq /\ l.len \in Nat
    BY <1>1, PacketFields
  <2>2. \E p : Taken(p) /\ p.src = l.src /\ p.flags = l.flags /\ p.len = l.len
    BY <2>1, <1>13, CaptureTakes DEF CaptureLate
  <2>3. peer' = peer
    BY <1>13 DEF CaptureLate
  <2> QED
    BY <1>1, <2>2, <2>3 DEF Origin
<1>14. ASSUME Tick PROVE peer' \in Peer /\ Ticked
  <2>1. clock.now \in Nat /\ clock.packets \in Nat
    BY <1>1 DEF Clock
  <2>2. clock' = [clock EXCEPT !.now = @ + 1] /\ UNCHANGED <<talk, view, peer, story, late>>
    BY <1>14 DEF Tick
  <2>3. clock' \in Clock /\ clock'.packets = clock.packets /\ clock'.now = clock.now + 1
    BY <1>1, <2>1, <2>2 DEF Clock
  <2> QED
    BY <1>1, <2>1, <2>2, <2>3 DEF Ticked
<1>15. ASSUME TtlScan PROVE peer' \in Peer /\ Scanned
  BY <1>1, <1>15 DEF TtlScan, Scanned
<1> QED
  BY <1>4, <1>5, <1>6, <1>7, <1>8, <1>9, <1>10, <1>11, <1>12, <1>13, <1>14, <1>15 DEF Next

-----------------------------------------------------------------------------
(* The invariant of the time-out table, with times and indices in the      *)
(* past.                                                                   *)
TtlState ==
  /\ Typed /\ TtlInv(view)
  /\ \A t \in view.ttl : t.ts <= clock.now /\ t.q <= clock.packets

(* The empty tables.                                                       *)
LEMMA EmptySound == Sound(EmptyView) /\ EmptyView.conn.client = NoOne /\ EmptyView.conn.c = IdleStream
<1> DEFINE c == FreshConn(NoOne, 0)
<1>1. c \in ConnState /\ c.client = NoOne /\ c.c = IdleStream
  <2>1. 0 \in 0 .. Len(MetaBinds)
    BY EngineAssumption
  <2> QED
    BY <2>1, ConstantTypes, BaselineType DEF FreshConn, ConnState, ConnStateKind
<1>2. EmptyView = [conn |-> c, live |-> {}, pend |-> {}, ttl |-> {}, rows |-> {}, opened |-> {},
                   recs |-> {}, audit |-> {}, meta |-> {}, archive |-> {}]
  BY DEF EmptyView
<1> HIDE DEF c
<1>3. EmptyView \in View /\ EmptyView.conn = c /\ EmptyView.live = {} /\ EmptyView.pend = {}
  BY <1>1, <1>2 DEF View
<1> QED
  BY <1>1, <1>3, FS_EmptySet DEF Sound

(* The types hold at the start.                                            *)
LEMMA InitTyped == Init => Typed
<1> SUFFICES ASSUME Init PROVE Typed
  OBVIOUS
<1>1. peer \in Peer
  BY ConstantTypes DEF Init, Peer
<1>2. clock \in Clock /\ late \in SUBSET Packets /\ talk \in Talks
  BY DEF Init, Clock
<1> QED
  BY <1>1, <1>2, EmptySound DEF Init, Typed

(* Every step keeps them.                                                  *)
LEMMA NextTyped == Typed /\ [Next]_vars => Typed'
<1> SUFFICES ASSUME Typed, [Next]_vars PROVE Typed'
  OBVIOUS
<1>1. CASE UNCHANGED vars
  BY <1>1 DEF vars, Typed
<1>2. CASE Next
  <2>1. peer' \in Peer /\ ((\E p : Taken(p) /\ Origin(p)) \/ Scanned \/ Ticked)
    BY <1>2, NextTakes
  <2>2. ASSUME NEW p, Taken(p) PROVE Typed'
    <3>1. p \in Packets /\ view' = Stored(Ingest(view, p)) /\ talk' = talk
      BY <2>2 DEF Taken
    <3>2. Sound(Ingest(view, p))
      BY <3>1, IngestTtl DEF Typed, TtlStage
    <3>3. Sound(view')
      BY <3>1, <3>2, StoredKeeps
    <3>4. clock' \in Clock /\ late' \in SUBSET Packets
      BY <2>2, <3>1 DEF Taken, Typed
    <3> QED
      BY <2>1, <3>1, <3>3, <3>4 DEF Typed
  <2>3. CASE Scanned
    <3>1. clock.now \in Nat /\ Sound(view)
      BY DEF Typed, Clock
    <3>2. Sound(view')
      BY <2>3, <3>1, ScanKeeps DEF Scanned, ScanFacts
    <3> QED
      BY <2>1, <2>3, <3>2 DEF Typed, Scanned
  <2>4. CASE Ticked
    BY <2>1, <2>4 DEF Typed, Ticked
  <2> QED
    BY <2>1, <2>2, <2>3, <2>4
<1> QED
  BY <1>1, <1>2

(* The tables always have their types, whatever the constants.             *)
THEOREM MatchTypes == Spec => []Typed
<1> QED
  BY InitTyped, NextTyped, PTL DEF Spec

(* The invariant of the time-out table holds at the start.                 *)
LEMMA InitTtl == Init => TtlState
<1> SUFFICES ASSUME Init PROVE TtlState
  OBVIOUS
<1>1. view.live = {} /\ view.pend = {} /\ view.ttl = {}
  BY DEF Init, EmptyView
<1> QED
  BY <1>1, InitTyped DEF TtlState, TtlInv

(* Every step keeps it: a packet that comes later than those before it     *)
(* finds no row of its own time.                                           *)
LEMMA NextTtl == ASSUME 0 \notin Steps PROVE TtlState /\ [Next]_vars => TtlState'
<1> SUFFICES ASSUME TtlState, [Next]_vars PROVE TtlState'
  OBVIOUS
<1>1. Typed /\ Typed' /\ Sound(view) /\ view \in View
  BY NextTyped DEF TtlState, Typed, Sound
<1>2. clock.now \in Nat /\ clock.packets \in Nat /\ clock'.now \in Nat /\ clock'.packets \in Nat
  BY <1>1 DEF Typed, Clock
<1>3. \A t \in view.ttl : t.ts \in Nat /\ t.q \in Nat
  BY <1>1, TtlFields
<1>4. CASE UNCHANGED vars
  BY <1>1, <1>4 DEF vars, TtlState, TtlInv
<1>5. CASE Next
  <2>1. (\E p : Taken(p) /\ Origin(p)) \/ Scanned \/ Ticked
    BY <1>1, <1>5, NextTakes
  <2>2. ASSUME NEW p, Taken(p) PROVE TtlState'
    <3> DEFINE w == Ingest(view, p)
    <3>1. p \in Packets /\ view' = Stored(w)
      BY <2>2 DEF Taken
    <3>2. p.idx = clock.packets + 1 /\ p.ts = clock'.now /\ clock'.packets = p.idx /\ clock'.now > clock.now
      BY <2>2 DEF Taken
    <3>3. TtlStage(view, p, w)
      BY <3>1, <1>1, IngestTtl
    <3> HIDE DEF w
    <3>4. FreshTime(view, p)
      BY <3>2, <1>2, <1>3 DEF TtlState, FreshTime
    <3>5. TtlInv(w) /\ Sound(w) /\ w.ttl \subseteq view.ttl \cup {[ts |-> p.ts, q |-> p.idx]}
      BY <3>3, <3>4 DEF TtlStage, TtlState
    <3>6. SameTables(w, view')
      BY <3>1, <3>5, StoredKeeps
    <3>7. TtlInv(view)'
      BY <3>5, <3>6 DEF TtlInv, SameTables
    <3>8. \A t \in view'.ttl : t.ts <= clock'.now /\ t.q <= clock'.packets
      <4>1. view'.ttl \subseteq view.ttl \cup {[ts |-> p.ts, q |-> p.idx]}
        BY <3>5, <3>6 DEF SameTables
      <4> QED
        BY <4>1, <3>2, <1>2, <1>3 DEF TtlState
    <3> QED
      BY <1>1, <3>7, <3>8 DEF TtlState
  <2>3. CASE Scanned
    <3>1. PICK gone, qs : ScanFacts(view, view', gone, qs)
      BY <2>3, <1>1, <1>2, ScanKeeps DEF Scanned
    <3>2. TtlInv(view') /\ view'.ttl \subseteq view.ttl
      BY <3>1, <1>1, ScanTtl DEF TtlState
    <3> QED
      BY <1>1, <2>3, <3>2 DEF Scanned, TtlState, TtlInv
  <2>4. CASE Ticked
    <3>1. view' = view /\ clock'.packets = clock.packets /\ clock'.now >= clock.now
      BY <2>4 DEF Ticked
    <3>2. \A t \in view'.ttl : t.ts <= clock'.now /\ t.q <= clock'.packets
      BY <3>1, <1>2, <1>3 DEF TtlState
    <3>3. TtlInv(view)'
      BY <3>1 DEF TtlState, TtlInv
    <3> QED
      BY <1>1, <3>2, <3>3 DEF TtlState
  <2> QED
    BY <2>1, <2>2, <2>3, <2>4
<1> QED
  BY <1>4, <1>5

(* A pending request is always on the list of the timeout scan, as long as *)
(* no two packets carry the same time. (With equal times NO_OVERWRITE      *)
(* drops the second row.)                                                  *)
THEOREM TtlTheorem == ASSUME 0 \notin Steps PROVE Spec => []TtlCoversLive
<1>1. TtlState => TtlCoversLive
  BY DEF TtlState, TtlInv, TtlCoversLive
<1>2. TtlState /\ [Next]_vars => TtlState'
  BY NextTtl
<1> QED
  BY <1>1, <1>2, InitTtl, PTL DEF Spec

-----------------------------------------------------------------------------
(* The capture starts before the connection does, and no copy of a packet  *)
(* comes that could stand for a handshake's answer. A stream that has no   *)
(* baseline takes it from whatever comes, and when that has payload the    *)
(* engine opens a request twice.                                           *)
HandshakeCaptured ==
  \A t \in Talks : ~t.midway /\ {"ACK"} \notin t.late /\ {"SYN", "ACK"} \notin t.late

(* Indices are in the past.                                                *)
Recent ==
  /\ \A q \in view.opened : q <= clock.packets
  /\ \A r \in view.rows : r.by <= clock.packets

(* An established connection has the client's baseline.                    *)
HeadKnown == peer.phase = "Open" => view.conn.c.active /\ view.conn.client # NoOne

(* The first packet comes from the client.                                 *)
ClientKnown ==
  /\ view.conn.client \in {NoOne, Client}
  /\ view.conn.client = NoOne => peer.phase = "Closed" /\ late = {} /\ view.pend = {}

(* Copies carry no payload.                                                *)
LateKnown ==
  \A l \in late : l.len = 0 /\ ("SYN" \in l.flags => l.src = Client /\ "RST" \notin l.flags)

(* The inductive invariant of the specification: the tables agree, and     *)
(* what the packets to come can be.                                        *)
MatchState ==
  Typed /\ Agree(view) /\ Recent /\ HeadKnown /\ ClientKnown /\ LateKnown

(* A packet of this conversation is one the handler's lemma covers.        *)
LEMMA OriginPlausible ==
  ASSUME HandshakeCaptured, MatchState, NEW p, Taken(p), Origin(p)
  PROVE  /\ view.conn.client = NoOne => p.src = Client /\ p.len = 0
         /\ p.len > 0 => view.conn.c.active /\ "SYN" \notin p.flags
         /\ peer'.phase = "Open" =>
              (peer.phase = "Open" /\ "SYN" \notin p.flags) \/ (p.src = Client /\ "RST" \notin p.flags)
         /\ p.flags \in talk.late =>
              p.len = 0 /\ ("SYN" \in p.flags => p.src = Client /\ "RST" \notin p.flags)
<1>1. talk \in Talks /\ {"ACK"} \notin talk.late /\ {"SYN", "ACK"} \notin talk.late
  BY DEF HandshakeCaptured, MatchState, Typed
<1>2. peer.phase = "Open" => view.conn.c.active /\ view.conn.client # NoOne
  BY DEF MatchState, HeadKnown
<1>3. view.conn.client = NoOne => peer.phase = "Closed" /\ late = {}
  BY DEF MatchState, ClientKnown
<1>4. CASE p.src = Client /\ p.flags = {"SYN"} /\ p.len = 0 /\ peer'.phase = "SynSent"
  BY <1>4
<1>5. CASE p.flags = {"SYN", "ACK"} /\ p.len = 0 /\ peer.phase # "Closed" /\ peer'.phase = "SynRcvd"
  BY <1>1, <1>3, <1>5
<1>6. CASE /\ p.src = Client /\ p.flags = {"ACK"} /\ peer.phase # "Closed"
           /\ p.len > 0 => peer.phase = "Open"
  BY <1>1, <1>2, <1>3, <1>6
<1>7. CASE p.flags = {"ACK"} /\ p.len = 0 /\ peer.phase = "Open"
  BY <1>1, <1>2, <1>7
<1>8. CASE p.flags = {"RST"} /\ p.len = 0 /\ peer.phase # "Closed" /\ peer'.phase = "Closed"
  BY <1>3, <1>8
<1>9. CASE p.src = Client /\ p.flags = {"FIN", "ACK"} /\ p.len = 0 /\ peer.phase = "Open"
  BY <1>2, <1>9
<1>10. CASE /\ \E l \in late : p.src = l.src /\ p.flags = l.flags /\ p.len = l.len
            /\ peer' = peer
  BY <1>3, <1>10 DEF MatchState, LateKnown
<1> QED
  BY <1>4, <1>5, <1>6, <1>7, <1>8, <1>9, <1>10 DEF Origin

(* The invariant holds at the start.                                       *)
LEMMA InitMatch == ASSUME HandshakeCaptured PROVE Init => MatchState
<1> SUFFICES ASSUME Init PROVE MatchState
  OBVIOUS
<1>1. Typed
  BY InitTyped
<1>2. /\ view.live = {} /\ view.pend = {} /\ view.rows = {} /\ view.opened = {}
      /\ view.conn.client = NoOne /\ late = {}
  BY EmptySound DEF Init, EmptyView
<1>3. Agree(view)
  BY <1>1, <1>2 DEF Typed, Agree, PendingInv, Reached, VerdictInv, PairInv, Settled
<1>4. peer.phase = "Closed"
  <2>1. ~talk.midway
    BY <1>1 DEF HandshakeCaptured, Typed
  <2> QED
    BY <2>1 DEF Init
<1> QED
  BY <1>1, <1>2, <1>3, <1>4 DEF MatchState, Recent, HeadKnown, ClientKnown, LateKnown

(* Every packet keeps it.                                                  *)
LEMMA PacketKeepsMatch ==
  ASSUME HandshakeCaptured, MatchState, Typed', NEW p, Taken(p), Origin(p)
  PROVE  MatchState'
<1> DEFINE w == Ingest(view, p)
<1>1. p \in Packets /\ view' = Stored(w) /\ p.idx = clock.packets + 1 /\ clock'.packets = p.idx
  BY DEF Taken
<1>2. Agree(view) /\ clock.packets \in Nat /\ view \in View
  BY DEF MatchState, Typed, Clock, Sound
<1>3. p.idx \notin view.opened /\ \A r \in view.rows : r.by # p.idx
  BY <1>1, <1>2 DEF MatchState, Recent
<1>4. /\ view.conn.client = NoOne => p.src = Client /\ p.len = 0
      /\ p.len > 0 => view.conn.c.active /\ "SYN" \notin p.flags
      /\ peer'.phase = "Open" =>
              (peer.phase = "Open" /\ "SYN" \notin p.flags) \/ (p.src = Client /\ "RST" \notin p.flags)
      /\ p.flags \in talk.late =>
           p.len = 0 /\ ("SYN" \in p.flags => p.src = Client /\ "RST" \notin p.flags)
  BY OriginPlausible
<1>5. view.conn.client \in {NoOne, Client} /\ (view.conn.client = NoOne => view.pend = {})
  BY DEF MatchState, ClientKnown
<1>6. IngestResult(view, p, w)
  BY <1>1, <1>2, <1>3, <1>4, <1>5, IngestAgrees
<1> HIDE DEF w
<1>7. Agree(w) /\ Grown(view, p, w) /\ Sound(w)
  BY <1>6 DEF IngestResult, Agree
<1>8. SameTables(w, view') /\ SameHead(w.conn, view'.conn) /\ Sound(view')
  BY <1>1, <1>7, StoredKeeps
<1>9. Agree(view')
  <2>1. Reached(view')
    BY <1>7, <1>8 DEF Agree, PendingInv, Reached, SameTables, SameHead
  <2> QED
    BY <2>1, <1>7, <1>8, SameAgrees
<1>10. Recent'
  <2>1. \A q \in view'.opened : q \in view.opened \/ q = p.idx
    BY <1>7, <1>8 DEF Grown, SameTables
  <2>2. \A r \in view'.rows : r \in view.rows \/ r.by = p.idx
    BY <1>7, <1>8 DEF Grown, SameTables
  <2>3. \A q \in view.opened : q \in Nat /\ q <= clock.packets
    BY <1>2, ViewFields DEF MatchState, Recent
  <2>4. \A r \in view.rows : r.by \in Nat /\ r.by <= clock.packets
    BY <1>2, ViewFields DEF MatchState, Recent, TermRow
  <2> QED
    BY <2>1, <2>2, <2>3, <2>4, <1>1, <1>2 DEF Recent
<1>11. view'.conn.client = Client /\ Client # NoOne
  <2>1. view'.conn.client = IF view.conn.client = NoOne THEN p.src ELSE view.conn.client
    BY <1>6, <1>8 DEF IngestResult, SameHead
  <2>2. Client # NoOne
    BY Conversation, ConstantTypes
  <2> QED
    BY <2>1, <2>2, <1>4, <1>5
<1>12. HeadKnown'
  <2>1. w.conn.client = Client /\ view'.conn.c = w.conn.c
    BY <1>8, <1>11 DEF SameHead
  <2>2. peer.phase = "Open" => view.conn.c.active /\ view.conn.client # NoOne
    BY DEF MatchState, HeadKnown
  <2>3. peer'.phase = "Open" => w.conn.c.active
    BY <2>1, <2>2, <1>4, <1>6 DEF IngestResult
  <2> QED
    BY <2>1, <2>3, <1>11 DEF HeadKnown
<1>13. ClientKnown'
  BY <1>11 DEF ClientKnown
<1>14. LateKnown'
  <2>1. late' = IF p.flags \in talk.late THEN late \cup {p} ELSE late
    BY DEF Taken
  <2> QED
    BY <2>1, <1>4 DEF MatchState, LateKnown
<1> QED
  BY <1>9, <1>10, <1>12, <1>13, <1>14 DEF MatchState

(* So does every step.                                                     *)
LEMMA NextMatch == ASSUME HandshakeCaptured PROVE MatchState /\ [Next]_vars => MatchState'
<1> SUFFICES ASSUME MatchState, [Next]_vars PROVE MatchState'
  OBVIOUS
<1>1. Typed /\ Typed' /\ Agree(view) /\ Sound(view)
  BY NextTyped DEF MatchState, Agree
<1>2. CASE UNCHANGED vars
  BY <1>1, <1>2 DEF vars, MatchState, Recent, HeadKnown, ClientKnown, LateKnown
<1>3. CASE Next
  <2>1. (\E p : Taken(p) /\ Origin(p)) \/ Scanned \/ Ticked
    BY <1>1, <1>3, NextTakes
  <2>2. CASE \E p : Taken(p) /\ Origin(p)
    BY <2>2, <1>1, PacketKeepsMatch
  <2>3. CASE Scanned
    <3>1. clock.now \in Nat /\ clock.packets \in Nat
      BY <1>1 DEF Typed, Clock
    <3>2. PICK gone, qs : ScanFacts(view, view', gone, qs)
      BY <2>3, <3>1, <1>1, ScanKeeps DEF Scanned
    <3>3. /\ Agree(view') /\ view'.opened = view.opened /\ view'.pend \subseteq view.pend
          /\ \A r \in view'.rows : r \in view.rows \/ r.by = 0
      BY <3>2, <1>1, ScanAgrees
    <3>4. view'.conn.client = view.conn.client /\ view'.conn.c = view.conn.c
      BY <3>2 DEF ScanFacts, SameHead
    <3>5. UNCHANGED <<talk, peer, clock, late>>
      BY <2>3 DEF Scanned
    <3>6. Recent'
      BY <3>1, <3>3, <3>5 DEF MatchState, Recent
    <3>7. HeadKnown' /\ ClientKnown' /\ LateKnown'
      BY <3>3, <3>4, <3>5 DEF MatchState, HeadKnown, ClientKnown, LateKnown
    <3> QED
      BY <1>1, <3>3, <3>6, <3>7 DEF MatchState
  <2>4. CASE Ticked
    BY <1>1, <2>4 DEF Ticked, MatchState, Recent, HeadKnown, ClientKnown, LateKnown
  <2> QED
    BY <2>1, <2>2, <2>3, <2>4
<1> QED
  BY <1>2, <1>3

(* The invariant implies the property.                                     *)
LEMMA MatchAgree == MatchState => TablesAgree
<1> SUFFICES ASSUME MatchState PROVE TablesAgree
  OBVIOUS
<1>1. PendingInv(view) /\ VerdictInv(view) /\ PairInv(view) /\ Sound(view)
  BY DEF MatchState, Agree
<1>2. NoRequestVanishes
  BY <1>1 DEF VerdictInv, NoRequestVanishes
<1>3. PendingIsReachable
  <2>1. \A h \in view.pend : h.inc = view.conn.inc /\ view.conn.consumed < h.end
    BY <1>1 DEF PendingInv, Reached
  <2>2. view.conn.consumed \in Nat /\ \A h \in view.pend : h.end \in Nat
    BY <1>1, ViewFields, ConnFields, PendFields DEF Sound
  <2> QED
    BY <1>1, <2>1, <2>2 DEF PendingInv, PendingIsReachable
<1>4. OnePairPerRequest
  <2> SUFFICES ASSUME NEW q \in view.opened, NEW r \in LedBy(q)
               PROVE  /\ LedBy(q) = {r}
                      /\ \E own \in view.rows : own.q = q /\ own.by = r.by
    BY DEF OnePairPerRequest
  <2>1. r \in view.rows /\ r.q # q /\ q \in r.also
    BY DEF LedBy
  <2>2. PICK own \in view.rows : own.q = q /\ own.by = r.by
    BY <2>1, <1>1 DEF PairInv
  <2>3. ASSUME NEW s \in LedBy(q) PROVE s = r
    <3>1. s \in view.rows /\ s.q # q /\ q \in s.also
      BY DEF LedBy
    <3>2. PICK twin \in view.rows : twin.q = q /\ twin.by = s.by
      BY <3>1, <1>1 DEF PairInv
    <3>3. twin = own
      BY <2>2, <3>2, <1>1 DEF VerdictInv
    <3>4. r.also # {r.q} /\ s.also # {s.q}
      BY <2>1, <3>1
    <3> QED
      BY <2>1, <2>2, <3>1, <3>2, <3>3, <3>4, <1>1 DEF PairInv
  <2> QED
    BY <2>2, <2>3
<1> QED
  BY <1>2, <1>3, <1>4 DEF TablesAgree

(* What the tables say of a request is one story, in every run of the      *)
(* engine over a conversation whose handshake is captured: every request   *)
(* that was opened is live or has exactly one terminal row, is found by    *)
(* the bytes that answer it while it is live, and is paired once.          *)
THEOREM TablesTheorem == ASSUME HandshakeCaptured PROVE Spec => []TablesAgree
<1>1. MatchState /\ [Next]_vars => MatchState'
  BY NextMatch
<1>2. Init => MatchState
  BY InitMatch
<1> QED
  BY <1>1, <1>2, MatchAgree, PTL DEF Spec
==============================================================================
