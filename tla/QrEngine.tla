------------------------------ MODULE QrEngine ------------------------------
(***************************************************************************)
(* The matching engine of sovVault for one connection (QrMatcher in        *)
(* src/src/qr.rs, scan_pending_ttl in src/src/anomaly.rs), as operators on *)
(* the tables it reads and writes.  A request Q is a client packet with    *)
(* new payload; it is named by the index of that packet.  Q opens as a row *)
(* of the live database and ends as one terminal row of the epoch          *)
(* database.                                                               *)
(*                                                                         *)
(* A view v holds the tables one transaction pair sees:                    *)
(*   conn    CONN_STATE          live                                      *)
(*   live    QR_PAIR             live, the keys of the rows, all PENDING   *)
(*   pend    QR_PENDING          live, key [inc, end]                      *)
(*   ttl     PENDING_TTL         live, key ts                              *)
(*   rows    QR_PAIR             epoch, key q                              *)
(*   opened  CONN_QR and the other secondary indexes     epoch, key q      *)
(*   recs    RECORD_TS           epoch, key [ts, idx]                      *)
(*   audit   the anomaly events, per request, of the transaction           *)
(*   meta    the protocol fingerprints collected in the transaction        *)
(*   archive what the transaction archives of the connection               *)
(* Counters, flags and timestamps that no code branches on are left out,   *)
(* and so is the key by which a request is found.                          *)
(***************************************************************************)
EXTENDS SeqStream, FiniteSets, Sequences

CONSTANTS
  Ends,         \* the two endpoints of the connection
  NoOne,        \* not an endpoint: the connection is unknown
  IncMod,       \* the range of incarnation numbers, 2^16 in the code
  AckTol,       \* QrParams.ack_tolerance
  AckLeadCap,   \* ACK_LEAD_CAP
  QrTimeout,    \* qr_timeout_secs
  FinTimeout,   \* fin_short_timeout_secs
  ProtocolKind, \* the kinds of payload that are told apart
  Unknown,      \* the kind of a payload that is not recognised
  Port,         \* the port of each endpoint
  MetaBinds     \* the rules of the configuration: for a port, the kind of its
                \* payloads, as a set that is empty when the rule names none

ASSUME EngineAssumption ==
  /\ NoOne \notin Ends
  /\ IncMod \in Nat \ {0}
  /\ {AckTol, AckLeadCap, QrTimeout, FinTimeout} \subseteq Nat
  /\ Unknown \in ProtocolKind
  /\ Port \in [Ends -> Nat]
  /\ MetaBinds \in Seq([port : Nat, fingerprint : SUBSET ProtocolKind])

(* A captured packet: where it lies in the log, when and by whom it was    *)
(* sent, its TCP header, and what bind_and_extract takes its payload for.  *)
Flag == {"SYN", "ACK", "RST", "FIN"}
Packet(idx, ts, src, flags, seq, ack, len, kind) ==
  [idx |-> idx, ts |-> ts, src |-> src, flags |-> flags,
   seq |-> seq, ack |-> ack, len |-> len, kind |-> kind]

Packets ==
  [idx : Nat, ts : Nat, src : Ends, flags : SUBSET Flag,
   seq : RawSeq, ack : RawSeq, len : Nat, kind : ProtocolKind]

(* ConnStateKind; Closed, Timeout and Quarantined are never assigned.      *)
ConnStateKind == {"HalfOpen", "SynSent", "SynRcvd", "Established", "Reset"}

ConnState ==
  [client : Ends \cup {NoOne}, state : ConnStateKind, inc : 0 .. IncMod - 1,
   c : Stream, s : Stream, consumed : Nat, fin : Nat, syn : Nat,
   bind : 0 .. Len(MetaBinds), hint : ProtocolKind, open : Nat, first : Nat, last : Nat]

(* ConnRt::fresh: the first packet's sender is taken for the client.       *)
FreshConn(client, ts) ==
  [client |-> client, state |-> "HalfOpen", inc |-> 0,
   c |-> IdleStream, s |-> IdleStream, consumed |-> 0, fin |-> 0, syn |-> 0,
   bind |-> 0, hint |-> Unknown, open |-> 0, first |-> ts, last |-> ts]

EmptyView ==
  [conn |-> FreshConn(NoOne, 0), live |-> {}, pend |-> {}, ttl |-> {},
   rows |-> {}, opened |-> {}, recs |-> {}, audit |-> {}, meta |-> {},
   archive |-> {}]

Status == {"Matched", "Unmatched", "RstAbort", "Timeout"}

(* A terminal row: by is the packet that settled it, also the requests     *)
(* aggregated into it (q_idx).                                             *)
Row(q, status, by, also) ==
  [q |-> q, status |-> status, by |-> by, also |-> also]

(* The rows of the requests that p ends, each for itself.                  *)
EndedRows(hits, status, p) == {Row(h.q, status, p.idx, {h.q}) : h \in hits}

Settled(v) == {r.q : r \in v.rows}
Terminal(v, q) == q \in Settled(v)

-----------------------------------------------------------------------------
(* Mutant: the pending rows stay.                                          *)
SettleKeepsPending(v, hits, rows) ==
  LET qs == {h.q : h \in hits}
  IN  [v EXCEPT !.rows = @ \cup {r \in rows : r.q \in v.live /\ ~Terminal(v, r.q)},
                !.live = @ \ qs,
                !.ttl = {t \in @ : t.ts \notin {h.ts : h \in hits}}]

(* Mutant: the TTL rows stay.                                              *)
SettleKeepsTtl(v, hits, rows) ==
  LET qs == {h.q : h \in hits}
  IN  [v EXCEPT !.rows = @ \cup {r \in rows : r.q \in v.live /\ ~Terminal(v, r.q)},
                !.live = @ \ qs,
                !.pend = @ \ hits]

(* Mutant: the epoch is not asked whether the request has ended.           *)
SettleUnchecked(v, hits, rows) ==
  LET qs == {h.q : h \in hits}
  IN  [v EXCEPT !.rows = @ \cup {r \in rows : r.q \in v.live},
                !.live = @ \ qs,
                !.pend = @ \ hits,
                !.ttl = {t \in @ : t.ts \notin {h.ts : h \in hits}}]

(* migrate_terminal for every request of hits, and the clean-up that       *)
(* follows it at each call: a request that already has a terminal row      *)
(* keeps it, one that has no live row gets none; the pending rows of hits  *)
(* and the TTL rows at their times go in any case.  rows are the terminal   *)
(* rows of hits.                                                           *)
Settle(v, hits, rows) ==
  LET qs == {h.q : h \in hits}
  IN  [v EXCEPT !.rows = @ \cup {r \in rows : r.q \in v.live /\ ~Terminal(v, r.q)},
                !.live = @ \ qs,
                !.pend = @ \ hits,
                !.ttl = {t \in @ : t.ts \notin {h.ts : h \in hits}}]

(* scan_pending_upto                                                       *)
PendingUpto(v, limit) ==
  {h \in v.pend : h.inc = v.conn.inc /\ h.end <= limit}

AllPending(v) == {h \in v.pend : h.inc = v.conn.inc}

Audited(v, hits, status) ==
  [v EXCEPT !.audit = @ \cup {[q |-> h.q, status |-> status] : h \in hits}]

(* MetaRegistry::resolve: the first rule for the port a sender talks to.   *)
Resolve(src) ==
  LET named(n) == \E dst \in Ends \ {src} : MetaBinds[n].port = Port[dst]
  IN  {n \in 1 .. Len(MetaBinds) : named(n) /\ ~\E m \in 1 .. n - 1 : named(m)}

(* bind_and_extract: what the rule names, and else what the payload is     *)
(* taken for.                                                              *)
HintOf(p) ==
  LET named == UNION {MetaBinds[n].fingerprint : n \in Resolve(p.src)}
  IN  IF named = {} THEN p.kind ELSE CHOOSE k \in named : TRUE

Fingerprinted(v, p) ==
  IF HintOf(p) = Unknown THEN v.meta ELSE v.meta \cup {[q |-> p.idx, hint |-> HintOf(p)]}

(* Mutant: the connection does not remember the rule.                      *)
BindUnbound(v, p) ==
  IF v.conn.bind > 0 THEN v
  ELSE [v EXCEPT !.conn.hint = HintOf(p), !.meta = Fingerprinted(v, p)]

(* The first request binds the connection to its port's rule, if there is  *)
(* one (0 stands for the code's -1), and leaves a fingerprint; without a   *)
(* rule the next request finds the connection unbound again.               *)
Bind(v, p) ==
  IF v.conn.bind > 0 THEN v
  ELSE [v EXCEPT !.conn.bind = IF Resolve(p.src) = {} THEN 0 ELSE CHOOSE n \in Resolve(p.src) : TRUE,
                 !.conn.hint = HintOf(p),
                 !.meta = Fingerprinted(v, p)]

(* Mutant: the TTL table holds one request per connection, the last one.   *)
OpenQLastTtl(v, p, end) ==
  [Bind(v, p) EXCEPT
     !.live = @ \cup {p.idx},
     !.pend = @ \cup {[inc |-> v.conn.inc, end |-> end, q |-> p.idx, ts |-> p.ts]},
     !.ttl = {[ts |-> p.ts, q |-> p.idx]},
     !.opened = @ \cup {p.idx}]

(* open_q.  The rows are put with NO_OVERWRITE: a pending row at the same  *)
(* end and a TTL row at the same instant stay as they are.                 *)
OpenQ(v, p, end) ==
  [Bind(v, p) EXCEPT
     !.live = @ \cup {p.idx},
     !.pend = IF \E h \in @ : h.inc = v.conn.inc /\ h.end = end THEN @
              ELSE @ \cup {[inc |-> v.conn.inc, end |-> end, q |-> p.idx, ts |-> p.ts]},
     !.ttl = IF \E t \in @ : t.ts = p.ts THEN @
             ELSE @ \cup {[ts |-> p.ts, q |-> p.idx]},
     !.opened = @ \cup {p.idx}]

MaxOf(a, b) == IF a >= b THEN a ELSE b

(* Mutant: every row takes the others.                                     *)
AggregateAll(hits, q) == {h.q : h \in hits}

(* consume_r: the pending requests up to the acknowledged number are       *)
(* matched, and the lowest one takes the others into its row.              *)
Aggregate(hits, q) ==
  LET first == CHOOSE h \in hits : \A g \in hits : h.end <= g.end
  IN  IF q = first.q THEN {h.q : h \in hits} ELSE {q}

ConsumeR(v, p, ack) ==
  LET hits == PendingUpto(v, ack + AckTol)
      settled == Settle(v, hits, {Row(h.q, "Matched", p.idx, Aggregate(hits, h.q)) : h \in hits})
  IN  [settled EXCEPT !.conn.consumed = MaxOf(@, ack)]

(* rst_cascade, and the state its caller sets.                             *)
RstCascade(v, p) ==
  LET hits == AllPending(v)
      settled == Settle(v, hits, EndedRows(hits, "RstAbort", p))
  IN  [Audited(settled, hits, "RstAbort") EXCEPT !.conn.state = "Reset"]

(* flip_epoch: the pending requests of the incarnation end unmatched, and  *)
(* the connection starts over from the SYN at hand.                        *)
Rebirth(conn, p, dir) ==
  [conn EXCEPT !.state = "HalfOpen",
               !.inc = (@ + 1) % IncMod,
               !.syn = p.idx,
               !.consumed = 0,
               !.c = IF dir = "C2S" THEN Baseline(p.seq) ELSE IdleStream,
               !.s = IF dir = "S2C" THEN Baseline(p.seq) ELSE IdleStream]

(* Mutant: the incarnation moves on before its requests are looked up.     *)
FlipEpochFirst(v, p, dir) ==
  LET reborn == [v EXCEPT !.conn = Rebirth(@, p, dir)]
      hits == AllPending(reborn)
      settled == Settle(reborn, hits, EndedRows(hits, "Unmatched", p))
  IN  Audited(settled, hits, "Unmatched")

FlipEpoch(v, p, dir) ==
  LET hits == AllPending(v)
      settled == Settle(v, hits, EndedRows(hits, "Unmatched", p))
  IN  [Audited(settled, hits, "Unmatched") EXCEPT !.conn = Rebirth(@, p, dir)]

-----------------------------------------------------------------------------
(* ingest.  A SYN starts a new incarnation when it is no retransmission as *)
(* far as the engine can tell.                                             *)
Has(p, flag) == flag \in p.flags

StreamOf(conn, dir) == IF dir = "C2S" THEN conn.c ELSE conn.s

(* Mutant: only a number ahead of the head counts as a new one.            *)
EpochForwardOnly(conn, p, dir) ==
  /\ StreamOf(conn, dir).active
  /\ Has(p, "SYN")
  /\ conn.state \notin {"SynSent", "SynRcvd"}
  /\ Diff(StreamOf(conn, dir), p.seq) > 0 \/ conn.state = "Reset"
  /\ p.idx # conn.syn

EpochTriggered(conn, p, dir) ==
  /\ StreamOf(conn, dir).active
  /\ Has(p, "SYN")
  /\ conn.state \notin {"SynSent", "SynRcvd"}
  /\ Diff(StreamOf(conn, dir), p.seq) # 0 \/ conn.state = "Reset"
  /\ p.idx # conn.syn

NextState(conn, p, dir) ==
  CASE Has(p, "SYN") /\ dir = "C2S" -> "SynSent"
    [] Has(p, "SYN") /\ dir = "S2C" ->
         IF conn.state = "SynSent" THEN "SynRcvd" ELSE conn.state
    [] ~Has(p, "SYN") /\ Has(p, "ACK") /\ dir = "C2S" /\ conn.state = "SynRcvd" ->
         "Established"
    [] OTHER -> conn.state

Advanced(conn, p, dir, stream) ==
  [conn EXCEPT !.c = IF dir = "C2S" THEN stream ELSE @,
               !.s = IF dir = "S2C" THEN stream ELSE @,
               !.state = NextState(conn, p, dir),
               !.syn = IF Has(p, "SYN") /\ dir = "C2S" THEN p.idx ELSE @,
               !.fin = IF Has(p, "FIN") THEN p.ts ELSE @,
               !.last = p.ts]

(* Mutant: the start of the new bytes is compared, not their end.          *)
RequestByStart(v, p, fed) ==
  LET end == fed.start + fed.new
  IN  IF fed.new > 0 /\ fed.start > v.conn.consumed THEN OpenQ(v, p, end) ELSE v

(* A client packet opens a request when it brings bytes that no response   *)
(* has acknowledged yet.                                                   *)
Request(v, p, fed) ==
  LET end == fed.start + fed.new
  IN  IF fed.new > 0 /\ end > v.conn.consumed THEN OpenQ(v, p, end) ELSE v

(* A server packet consumes what it acknowledges, unless that is old or    *)
(* unreasonably far ahead of what the client sent.                         *)
Response(v, p) ==
  LET ack == AbsOf(v.conn.c, p.ack)
  IN  IF ack > v.conn.consumed /\ ack <= v.conn.c.abs + AckLeadCap
      THEN ConsumeR(v, p, ack)
      ELSE v

Match(v, p, dir) ==
  LET fed == FeedPacket(StreamOf(v.conn, dir), p.seq, p.len)
      advanced == [v EXCEPT !.conn = Advanced(@, p, dir, fed.stream)]
  IN  IF dir = "C2S" THEN Request(advanced, p, fed) ELSE Response(advanced, p)

Located(v, p) ==
  IF v.conn.client = NoOne THEN [v EXCEPT !.conn = FreshConn(p.src, p.ts)] ELSE v

Indexed(v, p) == [v EXCEPT !.recs = @ \cup {[ts |-> p.ts, idx |-> p.idx]}]

Ingest(v, p) ==
  LET located == Located(Indexed(v, p), p)
      dir == IF located.conn.client = p.src THEN "C2S" ELSE "S2C"
      current == IF EpochTriggered(located.conn, p, dir)
                 THEN FlipEpoch(located, p, dir)
                 ELSE located
  IN  IF Has(p, "RST") THEN RstCascade(current, p) ELSE Match(current, p, dir)

(* writeback_conns, at the end of a batch: the open requests are counted   *)
(* anew, which overwrites what the handlers above did to the count, and a  *)
(* connection that was reset goes to the archive.                          *)
Writeback(v) ==
  [v EXCEPT
     !.conn.open = Cardinality(v.pend),
     !.archive = IF v.conn.state = "Reset"
                 THEN {[first |-> v.conn.first, last |-> v.conn.last]} ELSE {}]

-----------------------------------------------------------------------------
(* scan_pending_ttl.  A FIN seen after the request shortens its wait.      *)
ShortTimeout ==
  IF FinTimeout > 0 /\ FinTimeout < QrTimeout THEN FinTimeout ELSE QrTimeout

(* Mutant: any FIN shortens the wait.                                      *)
DeadlineAnyFin(v, t) ==
  IF v.conn.fin > 0 /\ v.conn.fin + ShortTimeout < t.ts + QrTimeout
  THEN v.conn.fin + ShortTimeout
  ELSE t.ts + QrTimeout

Deadline(v, t) ==
  IF v.conn.fin > 0 /\ t.ts <= v.conn.fin /\ v.conn.fin + ShortTimeout < t.ts + QrTimeout
  THEN v.conn.fin + ShortTimeout
  ELSE t.ts + QrTimeout

Expired(v, now) ==
  {t \in v.ttl : t.ts + ShortTimeout <= now /\ Deadline(v, t) <= now}

(* cleanup_pending: the first pending row of a request goes, in key order. *)
Before(g, h) == g.inc < h.inc \/ (g.inc = h.inc /\ g.end < h.end)

FirstPending(v, h) == ~\E g \in v.pend : g.q = h.q /\ Before(g, h)

(* Each expired TTL row goes with the pending row of its request, and the  *)
(* request times out unless it has ended otherwise.                        *)
ScanPendingTtl(v, now) ==
  LET expired == IF QrTimeout = 0 THEN {} ELSE Expired(v, now)
      qs == {t.q : t \in expired}
      due == (qs \cap v.live) \ Settled(v)
  IN  [v EXCEPT !.rows = @ \cup {Row(q, "Timeout", 0, {q}) : q \in due},
                !.live = @ \ qs,
                !.pend = {h \in @ : ~(h.q \in qs /\ FirstPending(v, h))},
                !.ttl = @ \ expired,
                !.conn.open = MaxOf(@ - Cardinality(due), 0),
                !.audit = @ \cup {[q |-> q, status |-> "Timeout"] : q \in due}]
=============================================================================
