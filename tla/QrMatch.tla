------------------------------ MODULE QrMatch ------------------------------
(***************************************************************************)
(* The matching engine fed with a TCP conversation as a tap captures it.   *)
(* A client opens generations of one connection, sends requests, sends     *)
(* them again; a server acknowledges them; either end closes or resets.    *)
(* Packets may be captured late: talk.late says of which packets a copy    *)
(* lingers in the network.  The story of every request, which only the     *)
(* ends know, is kept beside the engine's tables to be compared with them. *)
(*                                                                         *)
(* Each packet is a batch of its own here, committed at once; batches,     *)
(* crashes and epochs are the matter of CommitProtocol, and so are the     *)
(* tables and the times the engine never reads, which are not kept here.   *)
(***************************************************************************)
EXTENDS QrEngine

CONSTANTS
  Client, Server,
  InitialSeqs,      \* the initial sequence numbers of the client
  MaxGen,           \* bound: generations of the connection
  MaxPackets,       \* bound: packets captured
  Steps,            \* how much time may pass between two packets
  Talks             \* the conversations, one of which a behaviour is

ASSUME ConversationAssumption ==
  /\ Ends = {Client, Server}
  /\ InitialSeqs \subseteq RawSeq
  /\ {MaxGen, MaxPackets} \subseteq Nat
  /\ Steps \subseteq Nat
  /\ Talks \subseteq
       [midway: BOOLEAN,             \* the capture begins in an open connection
        partial: BOOLEAN,            \* the server may acknowledge less than was sent
        late: SUBSET (SUBSET Flag),  \* the packets of which late copies are captured
        len: Nat,                    \* longest payload
        sent: Nat,                   \* bound: bytes of a generation
        packets: 0 .. MaxPackets,    \* bound: packets captured
        time: Nat]                   \* bound: the clock

VARIABLES
  talk,    \* never changes
  view,    \* the engine's tables as committed
  peer,    \* the two ends: generation, initial number, bytes sent and
           \* acknowledged, the time of its FIN
  story,   \* what became of each request, as the ends know it
  clock,   \* the time, and the number of packets captured
  late     \* packets of which a copy lingers

vars == <<talk, view, peer, story, clock, late>>

Fate == {"Waiting", "Answered", "Aborted", "Superseded"}

Init ==
  /\ talk \in Talks
  /\ view = EmptyView
  /\ peer = IF talk.midway
            THEN [phase |-> "Open", gen |-> 1, isn |-> 0, sent |-> 0, acked |-> 0, fin |-> 0]
            ELSE [phase |-> "Closed", gen |-> 0, isn |-> 0, sent |-> 0, acked |-> 0, fin |-> 0]
  /\ story = {}
  /\ clock = [now |-> 0, packets |-> 0]
  /\ late = {}

(* The raw number of the generation's n-th byte.                           *)
RawAt(n) == (peer.isn + 1 + n) % SeqSpace

(* The server's bytes are not numbered one by one: all its packets carry   *)
(* the number after its SYN and no payload, which the engine only counts.  *)
ServerSeq == 1

Capture(src, flags, seq, ack, len) ==
  \E dt \in Steps :
    LET now == MaxOf(clock.now + dt, 1)
        p == Packet(clock.packets + 1, now, src, flags, seq, ack, len, Unknown)
    IN  /\ clock.packets < talk.packets
        /\ now + QrTimeout <= talk.time    \* the clock can still reach its deadline
        /\ clock' = [now |-> now, packets |-> clock.packets + 1]
        /\ view' = [Writeback(Ingest(view, p)) EXCEPT
                      !.recs = {}, !.archive = {}, !.conn.first = 0, !.conn.last = 0]
        /\ late' = IF flags \in talk.late THEN late \cup {p} ELSE late
        /\ UNCHANGED talk

(* What becomes of those of the requests of some that still wait.          *)
Tell(some, fate) ==
  (story \ some) \cup
    {IF r.fate = "Waiting" THEN [r EXCEPT !.fate = fate] ELSE r : r \in some}

-----------------------------------------------------------------------------
(* A new generation, after the old one was closed or was forgotten by a    *)
(* client that restarted.  Its number is not the one the old one reached,  *)
(* by which the engine tells a retransmitted SYN.                          *)
OpenGeneration(isn) ==
  /\ peer.phase \in {"Closed", "Open"}
  /\ peer.gen < MaxGen
  /\ peer.gen > 0 => isn # RawAt(peer.sent)
  /\ peer' = [phase |-> "SynSent", gen |-> peer.gen + 1, isn |-> isn,
              sent |-> 0, acked |-> 0, fin |-> 0]
  /\ story' = Tell(story, "Superseded")
  /\ Capture(Client, {"SYN"}, isn, 0, 0)

(* The answer was lost, or is late: the server will answer anew.           *)
ResendSyn ==
  /\ peer.phase \in {"SynSent", "SynRcvd"}
  /\ peer' = [peer EXCEPT !.phase = "SynSent"]
  /\ Capture(Client, {"SYN"}, peer.isn, 0, 0)
  /\ UNCHANGED story

AnswerSyn ==
  /\ peer.phase \in {"SynSent", "SynRcvd"}
  /\ peer' = [peer EXCEPT !.phase = "SynRcvd"]
  /\ Capture(Server, {"SYN", "ACK"}, ServerSeq, RawAt(0), 0)
  /\ UNCHANGED story

CompleteHandshake ==
  /\ peer.phase = "SynRcvd"
  /\ peer' = [peer EXCEPT !.phase = "Open"]
  /\ Capture(Client, {"ACK"}, RawAt(0), 0, 0)
  /\ UNCHANGED story

(* A request, which may begin with bytes sent before and not acknowledged. *)
SendRequest(from, len) ==
  /\ peer.phase = "Open"
  /\ from >= peer.acked
  /\ from <= peer.sent
  /\ from + len > peer.sent
  /\ from + len <= talk.sent
  /\ peer' = [peer EXCEPT !.sent = from + len]
  /\ story' = story \cup {[q |-> clock.packets + 1, gen |-> peer.gen,
                           end |-> from + len, fate |-> "Waiting"]}
  /\ Capture(Client, {"ACK"}, RawAt(from), 0, len)

(* Bytes that were not acknowledged are sent again, cut anywhere.          *)
Retransmit(from, len) ==
  /\ peer.phase = "Open"
  /\ from >= peer.acked
  /\ from + len <= peer.sent
  /\ Capture(Client, {"ACK"}, RawAt(from), 0, len)
  /\ UNCHANGED <<peer, story>>

Respond(upto) ==
  /\ peer.phase = "Open"
  /\ upto \in peer.acked .. peer.sent
  /\ ~talk.partial => upto = peer.sent
  /\ peer' = [peer EXCEPT !.acked = upto]
  /\ story' = Tell({r \in story : r.end <= upto}, "Answered")
  /\ Capture(Server, {"ACK"}, ServerSeq, RawAt(upto), 0)

Reset(src) ==
  /\ peer.phase # "Closed"
  /\ peer' = [peer EXCEPT !.phase = "Closed"]
  /\ story' = Tell(story, "Aborted")
  /\ Capture(src, {"RST"}, RawAt(peer.sent), 0, 0)

(* The client says that it will send no more; the server may still answer. *)
Finish ==
  /\ peer.phase = "Open"
  /\ Capture(Client, {"FIN", "ACK"}, RawAt(peer.sent), 0, 0)
  /\ peer' = [peer EXCEPT !.fin = clock'.now]
  /\ UNCHANGED story

(* A copy of an earlier packet is captured.                                *)
CaptureLate(p) ==
  /\ Capture(p.src, p.flags, p.seq, p.ack, p.len)
  /\ UNCHANGED <<peer, story>>

Tick ==
  /\ clock.now < talk.time
  /\ clock' = [clock EXCEPT !.now = @ + 1]
  /\ UNCHANGED <<talk, view, peer, story, late>>

TtlScan ==
  /\ view' = ScanPendingTtl(view, clock.now)
  /\ UNCHANGED <<talk, peer, story, clock, late>>

Next ==
  \/ \E isn \in InitialSeqs : OpenGeneration(isn)
  \/ ResendSyn
  \/ AnswerSyn
  \/ CompleteHandshake
  \/ \E from \in 0 .. talk.sent, len \in 1 .. talk.len :
       SendRequest(from, len) \/ Retransmit(from, len)
  \/ \E upto \in 0 .. talk.sent : Respond(upto)
  \/ \E src \in Ends : Reset(src)
  \/ Finish
  \/ \E p \in late : CaptureLate(p)
  \/ Tick
  \/ TtlScan

Spec == Init /\ [][Next]_vars

(* The service ticks: the clock moves and the scan runs again and again.   *)
FairSpec == Spec /\ WF_vars(Tick) /\ WF_vars(TtlScan)

-----------------------------------------------------------------------------
(* The tables agree on every request that the engine has opened, whatever  *)
(* is sent again, reset or born again: it is pending or has exactly one    *)
(* terminal row.  After a late SYN, which the engine takes for a new       *)
(* generation's, bytes sent again may be a request once more (open_q,      *)
(* migrate_terminal).                                                      *)
NoRequestVanishes ==
  /\ view.live \cap Settled(view) = {}
  /\ view.live \cup Settled(view) = view.opened
  /\ \A r, s \in view.rows : r.q = s.q => r = s

(* Whatever may end it reaches it: a response, a reset and a new           *)
(* generation find it under the connection's incarnation, and no           *)
(* acknowledgement up to it has been consumed.  What has ended leaves no   *)
(* such row behind to be matched again (consume_r, flip_epoch).            *)
PendingIsReachable ==
  /\ {h.q : h \in view.pend} = view.live
  /\ \A h \in view.pend : h.inc = view.conn.inc /\ h.end > view.conn.consumed

(* The requests that one acknowledgement settles form one pair, and none   *)
(* is counted in two pairs led by others (q_idx_list).                     *)
LedBy(q) == {r \in view.rows : r.q # q /\ q \in r.also}

OnePairPerRequest ==
  \A q \in view.opened : \A r \in LedBy(q) :
    /\ LedBy(q) = {r}
    /\ \E own \in view.rows : own.q = q /\ own.by = r.by

(* These three together: what the tables say of a request is one story.    *)
TablesAgree == NoRequestVanishes /\ PendingIsReachable /\ OnePairPerRequest

(* When responses acknowledge all that was sent and no reset comes late,   *)
(* the verdict on a request is what happened to it: a request reported as  *)
(* matched was acknowledged, one reported as aborted was reset, one        *)
(* reported as unmatched belonged to a generation that another followed.   *)
VerdictOf(r) ==
  CASE r.status = "Matched" -> {"Answered"}
    [] r.status = "RstAbort" -> {"Aborted"}
    [] r.status = "Unmatched" -> {"Superseded"}
    [] OTHER -> Fate

VerdictIsTrue ==
  ~talk.partial /\ talk.late = {} =>
    \A r \in view.rows, t \in story : r.q = t.q => t.fate \in VerdictOf(r)

(* The engine opens exactly the requests that the client sends for the     *)
(* first time, and one that was acknowledged, reset or superseded is not   *)
(* reported as pending any more, however the numbers wrapped in between.   *)
(* A late SYN has the engine wait for a handshake when the next generation *)
(* begins, which excuses both.  A late RST excuses the first: the SYN-ACK  *)
(* it passes is taken for one of another epoch, the client's stream loses  *)
(* its baseline, and the acknowledgement is read as an absolute number,    *)
(* which abs_of accepts below ACK_LEAD_CAP and which then hides the        *)
(* requests under it.                                                      *)
AnsweredIsSettled ==
  /\ {{"SYN"}, {"RST"}} \cap talk.late = {} => {r.q : r \in story} = view.opened
  /\ {"SYN"} \notin talk.late =>
       \A t \in story : t.fate # "Waiting" => t.q \notin view.live

(* A pending request is always on the list of the timeout scan.            *)
TtlCoversLive == view.live = {t.q : t \in view.ttl}

(* A request only times out when it has waited for the whole timeout, or   *)
(* for the short one after a FIN of its own generation.  A twin that the   *)
(* engine opens for bytes it has seen before (feed_packet, first packet)   *)
(* outlives its generation and may find that one's FIN.                    *)
OpenedAt(q) == (CHOOSE t \in view.ttl : t.q = q).ts

Patience ==
  [][\A r \in view'.rows \ view.rows : r.status = "Timeout" /\ (\E t \in story : t.q = r.q) =>
       \/ OpenedAt(r.q) + QrTimeout <= clock.now
       \/ /\ peer.fin >= OpenedAt(r.q)
          /\ peer.fin + FinTimeout <= clock.now]_vars

(* No request is pending forever.                                          *)
EveryRequestSettles ==
  \A q \in 1 .. MaxPackets : q \in view.live ~> q \notin view.live

-----------------------------------------------------------------------------
(* A statement of the documents that a run refutes: acknowledgements are   *)
(* cumulative (doc/08_sovVault_Design_and_Implementation.md:223), so a     *)
(* response settles the requests up to its number and no others.           *)
OnlyAcknowledgedIsMatched ==
  \A r \in view.rows, t \in story :
    r.q = t.q /\ r.status = "Matched" => t.fate = "Answered"
=============================================================================
