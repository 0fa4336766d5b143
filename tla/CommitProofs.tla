---------------------------- MODULE CommitProofs ----------------------------
(* Theorems about CommitProtocol, for every log, batch size and plan.      *)
EXTENDS CommitProtocol, SumProofs, FiniteSetTheorems, SequenceTheorems, TLAPS

(***************************************************************************)
(* The engine and the record index: of all that a packet, the end of a     *)
(* batch or a scan does to a view, only the packet's own row of RECORD_TS  *)
(* concerns the index.                                                     *)
(***************************************************************************)
HasRecs(v) == "recs" \in DOMAIN v

KeepsRecs(v, w) == HasRecs(w) /\ w.recs = v.recs

LEMMA SettleKeeps ==
  ASSUME NEW v, HasRecs(v), NEW hits, NEW rows
  PROVE  KeepsRecs(v, Settle(v, hits, rows))
  BY DEF HasRecs, KeepsRecs, Settle

LEMMA AuditedKeeps ==
  ASSUME NEW v, HasRecs(v), NEW hits, NEW status
  PROVE  KeepsRecs(v, Audited(v, hits, status))
  BY DEF HasRecs, KeepsRecs, Audited

LEMMA OpenQKeeps ==
  ASSUME NEW v, HasRecs(v), NEW p, NEW end
  PROVE  KeepsRecs(v, OpenQ(v, p, end))
<1>1. KeepsRecs(v, Bind(v, p))
  BY DEF HasRecs, KeepsRecs, Bind
<1> QED
  BY <1>1 DEF HasRecs, KeepsRecs, OpenQ

LEMMA WritebackKeeps ==
  ASSUME NEW v, HasRecs(v)
  PROVE  KeepsRecs(v, Writeback(v))
  BY DEF HasRecs, KeepsRecs, Writeback

LEMMA ScanKeeps ==
  ASSUME NEW v, HasRecs(v), NEW now
  PROVE  KeepsRecs(v, ScanPendingTtl(v, now))
  BY DEF HasRecs, KeepsRecs, ScanPendingTtl

(* A clean-up with its audit events, whatever then becomes of the          *)
(* connection.                                                             *)
LEMMA CascadeKeeps ==
  ASSUME NEW v, HasRecs(v), NEW p, NEW dir
  PROVE  KeepsRecs(v, RstCascade(v, p)) /\ KeepsRecs(v, FlipEpoch(v, p, dir))
<1>1. \A hits, rows, status :
        KeepsRecs(v, Audited(Settle(v, hits, rows), hits, status))
  <2> SUFFICES ASSUME NEW hits, NEW rows, NEW status
               PROVE  KeepsRecs(v, Audited(Settle(v, hits, rows), hits, status))
    OBVIOUS
  <2>1. KeepsRecs(v, Settle(v, hits, rows))
    BY SettleKeeps
  <2> QED
    BY <2>1, AuditedKeeps DEF KeepsRecs
<1>2. KeepsRecs(v, RstCascade(v, p))
  BY <1>1 DEF HasRecs, KeepsRecs, RstCascade
<1>3. KeepsRecs(v, FlipEpoch(v, p, dir))
  BY <1>1 DEF HasRecs, KeepsRecs, FlipEpoch
<1> QED
  BY <1>2, <1>3

LEMMA MatchKeeps ==
  ASSUME NEW v, HasRecs(v), NEW p, NEW dir
  PROVE  KeepsRecs(v, Match(v, p, dir))
<1> DEFINE fed == FeedPacket(StreamOf(v.conn, dir), p.seq, p.len)
           advanced == [v EXCEPT !.conn = Advanced(@, p, dir, fed.stream)]
<1>1. KeepsRecs(v, advanced)
  <2> HIDE DEF fed
  <2> QED
    BY DEF HasRecs, KeepsRecs
<1> HIDE DEF fed, advanced
<1>2. KeepsRecs(v, Request(advanced, p, fed))
  BY <1>1, OpenQKeeps DEF KeepsRecs, Request
<1>3. \A ack : KeepsRecs(v, ConsumeR(advanced, p, ack))
  <2> SUFFICES ASSUME NEW ack PROVE KeepsRecs(v, ConsumeR(advanced, p, ack))
    OBVIOUS
  <2>1. \A hits, rows : KeepsRecs(v, Settle(advanced, hits, rows))
    BY <1>1, SettleKeeps DEF KeepsRecs
  <2> QED
    BY <2>1 DEF HasRecs, KeepsRecs, ConsumeR
<1>4. KeepsRecs(v, Response(advanced, p))
  BY <1>1, <1>3 DEF Response
<1> QED
  BY <1>2, <1>4 DEF Match, fed, advanced

(* ingest adds the row of its packet and no other (QrMatcher::ingest).     *)
LEMMA IngestIndexes ==
  ASSUME NEW v, HasRecs(v), NEW p
  PROVE  /\ HasRecs(Ingest(v, p))
         /\ Ingest(v, p).recs = v.recs \cup {[ts |-> p.ts, idx |-> p.idx]}
<1> DEFINE located == Located(Indexed(v, p), p)
           dir == IF located.conn.client = p.src THEN "C2S" ELSE "S2C"
           current == IF EpochTriggered(located.conn, p, dir)
                      THEN FlipEpoch(located, p, dir) ELSE located
           HasRow(w) == HasRecs(w) /\ w.recs = v.recs \cup {[ts |-> p.ts, idx |-> p.idx]}
<1>1. HasRow(located)
  BY DEF HasRecs, Located, Indexed
<1> HIDE DEF located, dir
<1>2. HasRow(current)
  BY <1>1, CascadeKeeps DEF KeepsRecs
<1> HIDE DEF current
<1>3. HasRow(IF Has(p, "RST") THEN RstCascade(current, p) ELSE Match(current, p, dir))
  BY <1>2, CascadeKeeps, MatchKeeps DEF KeepsRecs
<1> QED
  BY <1>3 DEF Ingest, located, dir, current

-----------------------------------------------------------------------------
(***************************************************************************)
(* The invariant.  Shape are the types that matter.  Covered says where    *)
(* the index rows of the records are: those behind the watermark in an     *)
(* epoch, and those the batches so far have brought in an epoch or in the  *)
(* open transaction, which holds all that its epoch has.                   *)
(***************************************************************************)
RecsOf(list) == UNION {list[n].recs : n \in 1 .. Len(list)}

RowAt(hot, n) == [ts |-> Log[hot[n]].ts, idx |-> n]

Matching == txn.stage \in {"Open", "Staged"}

Upto == IF txn.stage = "Open" THEN pipe.matched ELSE pipe.taken

Known == RecsOf(epochs) \cup IF Matching THEN txn.view.recs ELSE {}

(* The commit of neither database fails; those behind them may.            *)
DatabasesCommit == plan.failAt \cap {"Open", "Staged"} = {}

IsSequence(list) == list \in Seq({list[n] : n \in 1 .. Len(list)})

PipeShape ==
  /\ {"hot", "source", "taken", "matched"} \subseteq DOMAIN pipe
  /\ pipe.hot \in Seq(1 .. Len(Log)) /\ pipe.source \in Nat \ {0}
  /\ {pipe.taken, pipe.matched} \subseteq Nat
  /\ pipe.taken <= Len(pipe.hot)
  /\ txn.stage = "Open" => pipe.matched < pipe.taken

LedgerShape == "mark" \in DOMAIN ledger /\ ledger.mark \in Nat /\ ledger.mark <= Upto

EpochShape == IsSequence(epochs) /\ epochs # <<>>

TxnShape ==
  /\ {"stage", "view"} \subseteq DOMAIN txn
  /\ HasRecs(txn.view)
  /\ Matching => Last(epochs).recs \subseteq txn.view.recs

Shape == PipeShape /\ LedgerShape /\ EpochShape /\ TxnShape /\ "failAt" \in DOMAIN plan

Covered ==
  /\ \A n \in 1 .. ledger.mark : RowAt(pipe.hot, n) \in RecsOf(epochs)
  /\ \A n \in 1 .. Upto : RowAt(pipe.hot, n) \in Known

Inv == Shape /\ (DatabasesCommit => Covered)

-----------------------------------------------------------------------------
LEMMA PacketRow ==
  ASSUME PipeShape, NEW n \in 1 .. Len(pipe.hot)
  PROVE  /\ PacketAt(n).idx = n
         /\ PacketAt(n).ts = Log[pipe.hot[n]].ts
<1>1. pipe.hot[n] \in 1 .. Len(Log)
  BY DEF PipeShape
<1>2. Log[pipe.hot[n]] \in Packets
  BY <1>1, ProtocolAssumption
<1> QED
  BY <1>2 DEF PacketAt, Packets

LEMMA SequenceIntro ==
  ASSUME NEW S, NEW list \in Seq(S)
  PROVE  IsSequence(list)
<1> DEFINE T == {list[n] : n \in 1 .. Len(list)}
<1>1. list \in [1 .. Len(list) -> S] /\ Len(list) \in Nat
  BY LenProperties
<1>2. list \in [1 .. Len(list) -> T]
  BY <1>1
<1>3. list \in Seq(T)
  BY <1>1, <1>2, SeqDef
<1> QED
  BY <1>3 DEF IsSequence

(* Committing an epoch whose transaction holds all that it had, and        *)
(* beginning a new one, loses no row.                                      *)
LEMMA EpochCommitted ==
  ASSUME NEW list, IsSequence(list), list # <<>>, NEW epoch,
         Last(list).recs \subseteq epoch.recs
  PROVE  LET new == [list EXCEPT ![Len(list)] = epoch]
         IN  /\ IsSequence(new) /\ new # <<>>
             /\ RecsOf(list) \cup epoch.recs \subseteq RecsOf(new)
<1> DEFINE S == {list[n] : n \in 1 .. Len(list)}
           new == [list EXCEPT ![Len(list)] = epoch]
<1>1. list \in Seq(S)
  BY DEF IsSequence
<1>2. Len(list) \in Nat \ {0}
  BY <1>1, EmptySeq
<1>3. list \in Seq(S \cup {epoch})
  BY <1>1, SeqMonotonic
<1> HIDE DEF S
<1>4. /\ new \in Seq(S \cup {epoch}) /\ Len(new) = Len(list)
      /\ \A n \in 1 .. Len(list) : new[n] = IF n = Len(list) THEN epoch ELSE list[n]
  BY <1>2, <1>3, ExceptSeq
<1> HIDE DEF new
<1>5. IsSequence(new) /\ new # <<>>
  BY <1>2, <1>4, SequenceIntro, EmptySeq
<1>6. \A n \in 1 .. Len(list) : list[n].recs \subseteq new[n].recs
  BY <1>4 DEF Last
<1>7. epoch.recs = new[Len(list)].recs
  BY <1>2, <1>4
<1>8. RecsOf(list) \cup epoch.recs \subseteq RecsOf(new)
  BY <1>2, <1>4, <1>6, <1>7 DEF RecsOf
<1> QED
  BY <1>5, <1>8 DEF new

LEMMA EpochRotated ==
  ASSUME NEW list, IsSequence(list), NEW epoch
  PROVE  /\ IsSequence(Append(list, epoch)) /\ Append(list, epoch) # <<>>
         /\ RecsOf(list) \subseteq RecsOf(Append(list, epoch))
<1> DEFINE S == {list[n] : n \in 1 .. Len(list)}
           new == Append(list, epoch)
<1>1. list \in Seq(S \cup {epoch}) /\ Len(list) \in Nat
  BY SeqMonotonic DEF IsSequence
<1> HIDE DEF S
<1>2. /\ new \in Seq(S \cup {epoch}) /\ Len(new) = Len(list) + 1
      /\ \A n \in 1 .. Len(list) : new[n] = list[n]
  BY <1>1
<1> HIDE DEF new
<1>3. IsSequence(new) /\ new # <<>>
  BY <1>1, <1>2, SequenceIntro, EmptySeq
<1>4. RecsOf(list) \subseteq RecsOf(new)
  BY <1>1, <1>2 DEF RecsOf
<1> QED
  BY <1>3, <1>4 DEF new

(* The next step of the ledger leaves databases and rows alone.            *)
LEMMA LedgerStepShape ==
  ASSUME TxnShape
  PROVE  /\ {"stage", "view"} \subseteq DOMAIN NextLedgerStep
         /\ HasRecs(NextLedgerStep.view)
         /\ NextLedgerStep.stage \notin {"Open", "Staged"}
<1>1. CASE NextLedgerStep = Idle
  BY <1>1 DEF Idle, Transaction, EmptyView, HasRecs
<1>2. CASE NextLedgerStep \in {[txn EXCEPT !.stage = "AuditDone"], [txn EXCEPT !.stage = "MetaDone"]}
  BY <1>2 DEF TxnShape
<1> QED
  BY <1>1, <1>2 DEF NextLedgerStep
-----------------------------------------------------------------------------
LEMMA InvInit == Init => Inv
<1> SUFFICES ASSUME Init PROVE Inv
  OBVIOUS
<1>1. PipeShape /\ LedgerShape
  BY DEF Init, PipeShape, LedgerShape, Upto, Idle, Transaction
<1>2. EpochShape
  <2>1. <<EmptyEpoch>> \in Seq({EmptyEpoch}) /\ <<EmptyEpoch>> # <<>>
    OBVIOUS
  <2> QED
    BY <2>1, SequenceIntro DEF Init, EpochShape
<1>3. TxnShape /\ ~Matching
  BY DEF Init, TxnShape, Idle, Transaction, EmptyView, HasRecs, Matching
<1>4. "failAt" \in DOMAIN plan
  BY ProtocolAssumption DEF Init
<1>5. Covered
  BY DEF Init, Covered, Upto, Idle, Transaction
<1> QED
  BY <1>1, <1>2, <1>3, <1>4, <1>5 DEF Inv, Shape

LEMMA PushInv ==
  ASSUME Inv, Push
  PROVE  Inv'
<1> USE DEF Inv, Shape
<1>1. /\ pipe'.hot = Append(pipe.hot, pipe.source) /\ pipe'.source = pipe.source + 1
      /\ pipe'.taken = pipe.taken /\ pipe'.matched = pipe.matched
      /\ DOMAIN pipe' = DOMAIN pipe
      /\ pipe.source \in 1 .. Len(Log)
  BY ProtocolAssumption DEF Push, PipeShape
<1>2. /\ PipeShape'
      /\ \A n \in 1 .. Len(pipe.hot) : RowAt(pipe'.hot, n) = RowAt(pipe.hot, n)
  <2>1. /\ pipe'.hot \in Seq(1 .. Len(Log)) /\ Len(pipe'.hot) = Len(pipe.hot) + 1
        /\ \A n \in 1 .. Len(pipe.hot) : pipe'.hot[n] = pipe.hot[n]
    BY <1>1 DEF PipeShape
  <2> QED
    BY <1>1, <2>1 DEF PipeShape, RowAt, Push
<1>3. txn' = txn /\ ledger' = ledger /\ epochs' = epochs /\ plan' = plan /\ txn.stage = "Idle"
  BY DEF Push
<1>4. Upto' = Upto /\ Known' = Known /\ Upto <= Len(pipe.hot) /\ Upto \in Nat /\ Len(pipe.hot) \in Nat
  BY <1>1, <1>3 DEF Upto, Known, Matching, PipeShape
<1>5. LedgerShape' /\ EpochShape' /\ TxnShape' /\ (DatabasesCommit' <=> DatabasesCommit)
  BY <1>3, <1>4 DEF LedgerShape, EpochShape, TxnShape, Matching, DatabasesCommit
<1>6. Covered => Covered'
  BY <1>2, <1>3, <1>4 DEF Covered, LedgerShape
<1> QED
  BY <1>2, <1>3, <1>5, <1>6

LEMMA FlushInv ==
  ASSUME Inv, Flush
  PROVE  Inv'
<1> USE DEF Inv, Shape
<1>1. /\ pipe'.hot = pipe.hot /\ pipe'.taken = Len(pipe.hot) /\ pipe'.matched = pipe.taken
      /\ DOMAIN pipe' = DOMAIN pipe /\ pipe'.source = pipe.source
      /\ pipe.taken < Len(pipe.hot)
  BY DEF Flush, PipeShape, Appended
<1>2. txn' = Transaction("Open", "Batch", Begun) /\ txn.stage = "Idle"
      /\ UNCHANGED <<ledger, epochs, plan>>
  BY DEF Flush
<1>3. /\ txn'.stage = "Open" /\ txn'.view.recs = Last(epochs).recs
      /\ {"stage", "view"} \subseteq DOMAIN txn' /\ HasRecs(txn'.view)
  BY <1>2 DEF Transaction, Begun, HasRecs
<1>4. PipeShape' /\ TxnShape' /\ Matching'
  BY <1>1, <1>2, <1>3 DEF PipeShape, TxnShape, Matching
<1>5. Upto' = Upto /\ RecsOf(epochs) \subseteq Known' /\ Known = RecsOf(epochs)
  BY <1>1, <1>2, <1>3 DEF Upto, Known, Matching
<1>6. LedgerShape' /\ EpochShape' /\ (DatabasesCommit' <=> DatabasesCommit)
  BY <1>2, <1>5 DEF LedgerShape, EpochShape, DatabasesCommit
<1>7. Covered => Covered'
  BY <1>1, <1>2, <1>5 DEF Covered
<1> QED
  BY <1>2, <1>4, <1>6, <1>7

LEMMA IngestInv ==
  ASSUME Inv, IngestNext
  PROVE  Inv'
<1> USE DEF Inv, Shape
<1> DEFINE n == pipe.matched + 1
           view == Ingest(txn.view, PacketAt(n))
<1>1. /\ txn.stage = "Open" /\ UNCHANGED <<ledger, epochs, plan>>
      /\ pipe' = [pipe EXCEPT !.matched = n]
  BY DEF IngestNext
<1>2. /\ pipe'.hot = pipe.hot /\ pipe'.taken = pipe.taken /\ pipe'.matched = n
      /\ DOMAIN pipe' = DOMAIN pipe /\ pipe'.source = pipe.source
      /\ n \in 1 .. pipe.taken /\ pipe.taken \in Nat /\ n \in 1 .. Len(pipe.hot)
      /\ Upto = n - 1
  BY SMTT(40), <1>1 DEF PipeShape, Upto
<1>3. txn' = IF n = pipe.taken THEN Transaction("Staged", "Batch", Writeback(view))
             ELSE Transaction("Open", "Batch", view)
  BY <1>2 DEF IngestNext
<1>4. HasRecs(view) /\ view.recs = txn.view.recs \cup {RowAt(pipe.hot, n)}
  <2>1. HasRecs(txn.view) /\ PipeShape
    BY DEF TxnShape
  <2>2. PacketAt(n).idx = n /\ PacketAt(n).ts = Log[pipe.hot[n]].ts
    BY <1>2, <2>1, PacketRow
  <2>3. /\ HasRecs(view)
        /\ view.recs = txn.view.recs \cup {[ts |-> PacketAt(n).ts, idx |-> PacketAt(n).idx]}
    BY <2>1, IngestIndexes
  <2> QED
    BY <2>2, <2>3 DEF RowAt
<1> HIDE DEF view
<1>5. KeepsRecs(view, Writeback(view))
  BY <1>4, WritebackKeeps
<1>6. /\ txn'.stage = IF n = pipe.taken THEN "Staged" ELSE "Open"
      /\ txn'.view.recs = txn.view.recs \cup {RowAt(pipe.hot, n)}
      /\ {"stage", "view"} \subseteq DOMAIN txn' /\ HasRecs(txn'.view)
  BY <1>3, <1>4, <1>5 DEF Transaction, KeepsRecs
<1>7. PipeShape' /\ TxnShape' /\ Matching /\ Matching'
  <2>1. Matching /\ Matching'
    BY <1>1, <1>6 DEF Matching
  <2>2. TxnShape'
    BY <1>1, <1>6, <2>1 DEF TxnShape
  <2>3. PipeShape'
    BY <1>2, <1>6 DEF PipeShape
  <2> QED
    BY <2>1, <2>2, <2>3
<1>8. Upto' = n
  BY <1>2, <1>6 DEF Upto
<1>9. Known' = Known \cup {RowAt(pipe.hot, n)}
  BY <1>1, <1>6, <1>7 DEF Known
<1>10. LedgerShape' /\ EpochShape' /\ (DatabasesCommit' <=> DatabasesCommit)
  BY <1>1, <1>2, <1>8 DEF LedgerShape, EpochShape, DatabasesCommit
<1>11. Covered => Covered'
  BY <1>1, <1>2, <1>8, <1>9 DEF Covered
<1> QED
  BY <1>1, <1>7, <1>10, <1>11
LEMMA ScanInv ==
  ASSUME Inv, NEW now, Scan(now)
  PROVE  Inv'
<1> USE DEF Inv, Shape
<1>1. /\ txn' = Transaction("Staged", "Scan", ScanPendingTtl(Begun, now))
      /\ txn.stage = "Idle" /\ UNCHANGED <<ledger, epochs, pipe, plan>>
  BY DEF Scan
<1>2. KeepsRecs(Begun, ScanPendingTtl(Begun, now)) /\ Begun.recs = Last(epochs).recs
  <2>1. HasRecs(Begun) /\ Begun.recs = Last(epochs).recs
    BY DEF Begun, HasRecs
  <2> QED
    BY <2>1, ScanKeeps
<1>3. /\ txn'.stage = "Staged" /\ txn'.view.recs = Last(epochs).recs
      /\ {"stage", "view"} \subseteq DOMAIN txn' /\ HasRecs(txn'.view)
  BY <1>1, <1>2 DEF Transaction, KeepsRecs
<1>4. /\ PipeShape' /\ EpochShape' /\ TxnShape' /\ (DatabasesCommit' <=> DatabasesCommit)
      /\ Matching' /\ ~Matching /\ Upto' = Upto
  BY <1>1, <1>3 DEF PipeShape, EpochShape, TxnShape, DatabasesCommit, Matching, Upto
<1>5. LedgerShape' /\ Known \subseteq Known'
  BY <1>1, <1>4 DEF LedgerShape, Known
<1>6. Covered => Covered'
  BY <1>1, <1>4, <1>5 DEF Covered
<1> QED
  BY <1>1, <1>4, <1>5, <1>6

LEMMA CommitEpochInv ==
  ASSUME Inv, CommitEpoch
  PROVE  Inv'
<1> USE DEF Inv, Shape
<1> DEFINE epoch == EpochOf(txn.view)
<1>1. /\ epochs' = [epochs EXCEPT ![Len(epochs)] = epoch] /\ txn.stage = "Staged"
      /\ UNCHANGED <<ledger, pipe, plan>>
  BY DEF CommitEpoch
<1>2. epoch.recs = txn.view.recs /\ Last(epochs).recs \subseteq txn.view.recs /\ Matching
  BY <1>1 DEF EpochOf, TxnShape, Matching
<1> HIDE DEF epoch
<1>3. EpochShape' /\ RecsOf(epochs) \cup txn.view.recs \subseteq RecsOf(epochs')
  BY <1>1, <1>2, EpochCommitted DEF EpochShape
<1>4. txn'.stage = "EpochDone" /\ TxnShape' /\ ~Matching'
  <2>1. txn'.stage = "EpochDone" /\ txn'.view = txn.view /\ DOMAIN txn' = DOMAIN txn
    BY DEF CommitEpoch, TxnShape
  <2> QED
    BY <2>1 DEF TxnShape, Matching
<1>5. /\ PipeShape' /\ LedgerShape' /\ (DatabasesCommit' <=> DatabasesCommit) /\ Upto' = Upto
  BY <1>1, <1>4 DEF PipeShape, LedgerShape, DatabasesCommit, Upto
<1>6. Known \subseteq RecsOf(epochs') /\ Known' = RecsOf(epochs')
  BY <1>2, <1>3, <1>4 DEF Known
<1>7. Covered => Covered'
  BY <1>1, <1>3, <1>5, <1>6 DEF Covered
<1> QED
  BY <1>1, <1>3, <1>4, <1>5, <1>7
(* Behind the commit of the databases all that the batches took is in an   *)
(* epoch, so that the watermark may go anywhere up to it.                  *)
LEMMA BehindDatabases ==
  ASSUME Inv, UNCHANGED <<pipe, epochs>>, DatabasesCommit => ~Matching,
         {"stage", "view"} \subseteq DOMAIN txn', HasRecs(txn'.view),
         txn'.stage \notin {"Open", "Staged"},
         "mark" \in DOMAIN ledger', ledger'.mark \in Nat, ledger'.mark <= pipe.taken,
         "failAt" \in DOMAIN plan', plan'.failAt = plan.failAt
  PROVE  Inv'
<1> USE DEF Inv, Shape
<1>1. ~Matching' /\ Upto' = pipe.taken
  BY DEF Matching, Upto
<1>2. PipeShape' /\ LedgerShape' /\ EpochShape' /\ TxnShape'
  BY <1>1 DEF PipeShape, LedgerShape, EpochShape, TxnShape
<1>3. DatabasesCommit' <=> DatabasesCommit
  BY DEF DatabasesCommit
<1>4. ASSUME ~Matching, Covered PROVE Covered'
  <2>1. Upto = pipe.taken /\ Known = RecsOf(epochs) /\ Known' = RecsOf(epochs)
    BY <1>1, <1>4 DEF Matching, Upto, Known
  <2> QED
    BY <1>1, <1>4, <2>1 DEF Covered, PipeShape
<1> QED
  BY <1>2, <1>3, <1>4

LEMMA CommitLiveInv ==
  ASSUME Inv, CommitLive
  PROVE  Inv'
<1> USE DEF Inv, Shape
<1>1. /\ txn'.stage \in {"MarkDone", "LiveDone"} /\ txn'.view = txn.view
      /\ DOMAIN txn' = DOMAIN txn /\ txn.stage = "EpochDone"
      /\ UNCHANGED <<epochs, ledger, pipe, plan>>
  BY DEF CommitLive, TxnShape
<1>2. ~Matching /\ ledger.mark <= pipe.taken
  BY <1>1 DEF Matching, LedgerShape, Upto
<1> QED
  BY <1>1, <1>2, BehindDatabases DEF TxnShape, LedgerShape

LEMMA AdvanceWatermarkInv ==
  ASSUME Inv, AdvanceWatermark
  PROVE  Inv'
<1> USE DEF Inv, Shape
<1>1. /\ txn'.stage = "MarkDone" /\ txn'.view = txn.view
      /\ DOMAIN txn' = DOMAIN txn /\ txn.stage = "LiveDone"
      /\ UNCHANGED <<epochs, pipe, plan>>
  BY DEF AdvanceWatermark, TxnShape
<1>2. ~Matching /\ ledger.mark <= pipe.taken
  BY <1>1 DEF Matching, LedgerShape, Upto
<1>3. "mark" \in DOMAIN ledger' /\ ledger'.mark = pipe.taken
  BY <1>2 DEF AdvanceWatermark, LedgerShape, PipeShape, MaxOf
<1> QED
  BY <1>1, <1>2, <1>3, BehindDatabases DEF TxnShape, PipeShape

(* The best-effort steps, done or skipped, move neither rows nor mark.     *)
LEMMA LedgerStepInv ==
  ASSUME Inv, DatabasesCommit => ~Matching, UNCHANGED <<epochs, pipe>>,
         "mark" \in DOMAIN ledger', ledger'.mark = ledger.mark,
         "failAt" \in DOMAIN plan', plan'.failAt = plan.failAt,
         txn' = NextLedgerStep \/ txn' = Idle
  PROVE  Inv'
<1> USE DEF Inv, Shape
<1>1. /\ {"stage", "view"} \subseteq DOMAIN txn' /\ HasRecs(txn'.view)
      /\ txn'.stage \notin {"Open", "Staged"}
  <2>1. CASE txn' = NextLedgerStep
    BY <2>1, LedgerStepShape
  <2>2. CASE txn' = Idle
    BY <2>2 DEF Idle, Transaction, EmptyView, HasRecs
  <2> QED
    BY <2>1, <2>2
<1>2. ledger.mark \in Nat /\ ledger.mark <= pipe.taken
  BY DEF LedgerShape, PipeShape, Upto
<1> QED
  BY <1>1, <1>2, BehindDatabases

LEMMA RotateInv ==
  ASSUME Inv, RotateEpoch
  PROVE  Inv'
<1> USE DEF Inv, Shape
<1>1. /\ epochs' = Append(epochs, EmptyEpoch) /\ txn.stage = "Idle"
      /\ UNCHANGED <<ledger, pipe, txn, plan>>
  BY DEF RotateEpoch
<1>2. EpochShape' /\ RecsOf(epochs) \subseteq RecsOf(epochs')
  BY <1>1, EpochRotated DEF EpochShape
<1>3. ~Matching /\ ~Matching' /\ Upto' = Upto
  BY <1>1 DEF Matching, Upto
<1>4. PipeShape' /\ LedgerShape' /\ TxnShape' /\ (DatabasesCommit' <=> DatabasesCommit)
  BY <1>1, <1>3 DEF PipeShape, LedgerShape, TxnShape, DatabasesCommit
<1>5. Known \subseteq Known'
  BY <1>2, <1>3 DEF Known
<1>6. Covered => Covered'
  BY <1>1, <1>2, <1>3, <1>5 DEF Covered
<1> QED
  BY <1>1, <1>2, <1>4, <1>6

LEMMA CrashInv ==
  ASSUME Inv, Crash
  PROVE  Inv'
<1> USE DEF Inv, Shape
<1> DEFINE mark == ledger.mark
<1>1. /\ mark \in Nat /\ mark <= pipe.taken /\ pipe.taken <= Len(pipe.hot)
      /\ Len(pipe.hot) \in Nat
  BY DEF LedgerShape, PipeShape, Upto
<1>2. /\ pipe'.hot = SubSeq(pipe.hot, 1, mark) /\ pipe'.taken = mark /\ pipe'.matched = mark
      /\ pipe'.source = IF plan.resend THEN 1 ELSE mark + 1
      /\ DOMAIN pipe' = {"hot", "source", "taken", "matched"}
      /\ txn' = Idle /\ UNCHANGED <<epochs, ledger>>
  BY DEF Crash
<1>3. /\ pipe'.hot \in Seq(1 .. Len(Log)) /\ Len(pipe'.hot) = mark
      /\ \A n \in 1 .. mark : pipe'.hot[n] = pipe.hot[n]
  <2> HIDE DEF mark
  <2> QED
    BY <1>1, <1>2 DEF PipeShape
<1>4. /\ txn'.stage = "Idle" /\ {"stage", "view"} \subseteq DOMAIN txn' /\ HasRecs(txn'.view)
  BY <1>2 DEF Idle, Transaction, EmptyView, HasRecs
<1>5. ~Matching' /\ Upto' = mark /\ Known' = RecsOf(epochs)
  BY <1>2, <1>4 DEF Matching, Upto, Known
<1>6. "failAt" \in DOMAIN plan' /\ plan'.failAt = plan.failAt
  BY DEF Crash
<1>7. PipeShape' /\ LedgerShape' /\ EpochShape' /\ TxnShape' /\ (DatabasesCommit' <=> DatabasesCommit)
  BY <1>1, <1>2, <1>3, <1>4, <1>5, <1>6
     DEF PipeShape, LedgerShape, EpochShape, TxnShape, DatabasesCommit
<1>8. Covered => Covered'
  BY <1>2, <1>3, <1>5 DEF Covered, RowAt
<1> QED
  BY <1>6, <1>7, <1>8

LEMMA FailInv ==
  ASSUME Inv, Fail
  PROVE  Inv'
<1> USE DEF Inv, Shape
<1>1. /\ txn.stage \in plan.failAt /\ UNCHANGED <<epochs, ledger, pipe>>
      /\ "failAt" \in DOMAIN plan' /\ plan'.failAt = plan.failAt
      /\ txn' = NextLedgerStep \/ txn' = Idle
  BY DEF Fail
<1>2. DatabasesCommit => ~Matching
  BY <1>1 DEF DatabasesCommit, Matching
<1> QED
  BY <1>1, <1>2, LedgerStepInv DEF LedgerShape

LEMMA InvNext ==
  ASSUME Inv, [Next]_vars
  PROVE  Inv'
<1>1. CASE Push
  BY <1>1, PushInv
<1>2. CASE Flush
  BY <1>2, FlushInv
<1>3. CASE IngestNext
  BY <1>3, IngestInv
<1>4. CASE CommitEpoch
  BY <1>4, CommitEpochInv
<1>5. CASE CommitLive
  BY <1>5, CommitLiveInv
<1>6. CASE AdvanceWatermark
  BY <1>6, AdvanceWatermarkInv
<1>7. CASE InsertAnomalies \/ UpsertMeta \/ UpsertArchive
  <2>1. /\ txn.stage \in BestEffort /\ txn' = NextLedgerStep /\ UNCHANGED <<epochs, pipe, plan>>
        /\ "mark" \in DOMAIN ledger' /\ ledger'.mark = ledger.mark
    BY <1>7 DEF Inv, Shape, LedgerShape, InsertAnomalies, UpsertMeta, UpsertArchive, BestEffort
  <2>2. ~Matching
    BY <2>1 DEF Matching, BestEffort
  <2> QED
    BY <2>1, <2>2, LedgerStepInv DEF Inv, Shape
<1>8. CASE \E now \in plan.scans : Scan(now)
  BY <1>8, ScanInv
<1>9. CASE RotateEpoch
  BY <1>9, RotateInv
<1>10. CASE Fail
  BY <1>10, FailInv
<1>11. CASE Crash
  BY <1>11, CrashInv
<1>12. CASE OpenRegistry \/ Build \/ UNCHANGED vars
  <2>1. UNCHANGED <<epochs, ledger, pipe, txn, plan>>
    BY <1>12 DEF OpenRegistry, Build, SnapshotLive, SnapshotEpoch, ListEpochs, vars
  <2> QED
    BY <2>1 DEF Inv, Shape, PipeShape, LedgerShape, EpochShape, TxnShape, Covered,
                Matching, Upto, Known, DatabasesCommit
<1> QED
  BY <1>1, <1>2, <1>3, <1>4, <1>5, <1>6, <1>7, <1>8, <1>9, <1>10, <1>11, <1>12
     DEF Next, IngestThread, CommitStep

(* Whatever the moment of a crash, and whichever of the steps behind the   *)
(* two databases fails, no record behind the watermark is missing from the *)
(* index, as long as the commits of the databases themselves do not fail;  *)
(* that they may, and what comes of it, is a finding of its own            *)
(* (commit_batch).                                                         *)
THEOREM MarkedTheorem == Spec => [](DatabasesCommit => MarkedIsIndexed)
<1>1. Inv => (DatabasesCommit => MarkedIsIndexed)
  <2> SUFFICES ASSUME Inv, DatabasesCommit, NEW n \in 1 .. ledger.mark
               PROVE  [ts |-> PacketAt(n).ts, idx |-> n] \in AllRecs
    BY DEF MarkedIsIndexed
  <2>1. n \in 1 .. Len(pipe.hot) /\ PipeShape
    BY DEF Inv, Shape, LedgerShape, PipeShape, Upto
  <2>2. RowAt(pipe.hot, n) \in RecsOf(epochs)
    BY DEF Inv, Covered
  <2> QED
    BY <2>1, <2>2, PacketRow DEF RowAt, RecsOf, AllRecs
<1> QED
  BY <1>1, InvInit, InvNext, PTL DEF Spec

-----------------------------------------------------------------------------
(***************************************************************************)
(* What the engine does to the verdicts. Whatever the views are, a packet, *)
(* a reset, an epoch's flip or a scan only adds rows, takes a request out  *)
(* of the live ones only with its verdict, gives no request two, and hears *)
(* of each that is not a match.                                            *)
(***************************************************************************)
(* The tables this is about.                                               *)
HasTables(v) == {"conn", "live", "pend", "ttl", "rows", "opened", "audit"} \subseteq DOMAIN v

(* One row for each request.                                               *)
OneEach(rows) == \A r, s \in rows : r.q = s.q => r = s

(* The tables v become w, and the requests in new are the only ones        *)
(* opened: no row is lost, no request leaves the live ones without a       *)
(* verdict, and a request that has its verdict gets no other.              *)
Migrates(v, w, new) ==
  /\ HasTables(w)
  /\ v.rows \subseteq w.rows
  /\ w.live \subseteq v.live \cup new
  /\ \A q \in v.live : q \in w.live \/ Terminal(w, q)
  /\ \A r \in w.rows \ v.rows : r.q \in v.live /\ ~Terminal(v, r.q) /\ r.status \in Status
  /\ \A q \in w.live \ new : Terminal(w, q) => Terminal(v, q)
  /\ OneEach(v.rows) => OneEach(w.rows)

(* Each new verdict that is not a match has its event.                     *)
Heard(v, w) ==
  /\ v.audit \subseteq w.audit
  /\ \A r \in w.rows \ v.rows :
       r.status # "Matched" => [q |-> r.q, status |-> r.status] \in w.audit

(* Both: what every operation of the engine does to the views it is given. *)
Follows(v, w, new) == Migrates(v, w, new) /\ Heard(v, w)

(* One operation after another.                                            *)
LEMMA FollowsThen ==
  ASSUME NEW u, NEW v, NEW w, NEW new, Follows(u, v, {}), Follows(v, w, new)
  PROVE  Follows(u, w, new)
<1>1. Migrates(u, v, {}) /\ Heard(u, v) /\ Migrates(v, w, new) /\ Heard(v, w)
  BY DEF Follows
<1>2. \A q : Terminal(u, q) => Terminal(v, q)
  BY <1>1 DEF Migrates, Terminal, Settled
<1>3. \A q : Terminal(v, q) => Terminal(w, q)
  BY <1>1 DEF Migrates, Terminal, Settled
<1> HIDE DEF Terminal
<1>4. Migrates(u, w, new)
  <2>1. HasTables(w) /\ u.rows \subseteq w.rows /\ v.live \subseteq u.live /\ w.live \subseteq u.live \cup new
    BY <1>1 DEF Migrates
  <2>2. \A q \in u.live : q \in w.live \/ Terminal(w, q)
    BY <1>1, <1>3 DEF Migrates
  <2>3. \A r \in w.rows \ u.rows : r.q \in u.live /\ ~Terminal(u, r.q) /\ r.status \in Status
    BY <1>1, <1>2, <2>1 DEF Migrates
  <2>4. \A q \in w.live \ new : Terminal(w, q) => Terminal(u, q)
    BY <1>1 DEF Migrates
  <2>5. OneEach(u.rows) => OneEach(w.rows)
    BY <1>1 DEF Migrates
  <2> QED
    BY <2>1, <2>2, <2>3, <2>4, <2>5 DEF Migrates
<1>5. Heard(u, w)
  <2>1. u.audit \subseteq w.audit
    BY <1>1 DEF Heard
  <2>2. ASSUME NEW r \in w.rows \ u.rows, r.status # "Matched"
        PROVE  [q |-> r.q, status |-> r.status] \in w.audit
    <3>1. CASE r \in v.rows
      BY <3>1, <2>2, <1>1 DEF Heard
    <3>2. CASE r \notin v.rows
      BY <3>2, <2>2, <1>1 DEF Heard
    <3> QED
      BY <3>1, <3>2
  <2> QED
    BY <2>1, <2>2 DEF Heard
<1> QED
  BY <1>4, <1>5 DEF Follows

(* Only the other tables and the connection change.                        *)
Keeps(v, w) ==
  /\ HasTables(w) /\ w.live = v.live /\ w.rows = v.rows /\ v.audit \subseteq w.audit

(* Such a step follows.                                                    *)
LEMMA KeepsFollows ==
  ASSUME NEW v, NEW w, Keeps(v, w)
  PROVE  Follows(v, w, {})
BY DEF Keeps, Follows, Migrates, Heard, Terminal, Settled

(* And a step that follows may be followed by one that changes only these. *)
LEMMA FollowsKeeps ==
  ASSUME NEW u, NEW v, NEW w, NEW new, Follows(u, v, new), Keeps(v, w)
  PROVE  Follows(u, w, new)
BY DEF Keeps, Follows, Migrates, Heard, Terminal, Settled

(* The rows settle is given for the requests that were hit: one each, all  *)
(* of one status.                                                          *)
Verdicts(hits, rows, status) ==
  /\ OneEach(rows)
  /\ \A r \in rows : r.status = status
  /\ \A h \in hits : \E r \in rows : r.q = h.q
  /\ \A r \in rows : \E h \in hits : r.q = h.q

(* Settle writes a row only where there is none, and takes the request out *)
(* of the live ones whether it wrote the row or found it.                  *)
LEMMA SettleMigrates ==
  ASSUME NEW v, HasTables(v), NEW hits, NEW rows, NEW status \in Status, Verdicts(hits, rows, status)
  PROVE  LET w == Settle(v, hits, rows)
         IN  /\ Migrates(v, w, {}) /\ w.audit = v.audit /\ w.conn = v.conn
             /\ \A r \in w.rows \ v.rows : r \in rows
<1> DEFINE w == Settle(v, hits, rows)
           qs == {h.q : h \in hits}
           added == {r \in rows : r.q \in v.live /\ ~Terminal(v, r.q)}
<1>1. /\ HasTables(w) /\ w.audit = v.audit /\ w.conn = v.conn
      /\ w.rows = v.rows \cup added /\ w.live = v.live \ qs
  BY DEF Settle, HasTables
<1>2. \A q \in v.live : q \in qs => Terminal(w, q)
  <2> SUFFICES ASSUME NEW q \in v.live, q \in qs, ~Terminal(v, q) PROVE Terminal(w, q)
    BY <1>1 DEF Terminal, Settled
  <2>1. PICK r \in rows : r.q = q
    BY DEF Verdicts
  <2>2. r \in added
    BY <2>1
  <2> QED
    BY <1>1, <2>1, <2>2 DEF Terminal, Settled
<1>3. \A r \in w.rows \ v.rows : r \in rows /\ r.q \in v.live /\ ~Terminal(v, r.q) /\ r.status \in Status
  BY <1>1 DEF Verdicts
<1>6. \A q \in w.live : Terminal(w, q) => Terminal(v, q)
  <2> SUFFICES ASSUME NEW q \in w.live, Terminal(w, q), ~Terminal(v, q) PROVE FALSE
    OBVIOUS
  <2>1. PICK r \in rows : r.q = q
    BY <1>1 DEF Terminal, Settled
  <2>2. q \in qs
    BY <2>1 DEF Verdicts
  <2> QED
    BY <1>1, <2>2
<1>4. OneEach(v.rows) => OneEach(w.rows)
  BY <1>1 DEF OneEach, Verdicts, Terminal, Settled
<1> HIDE DEF w, added, qs
<1>5. Migrates(v, w, {})
  BY <1>1, <1>2, <1>3, <1>4, <1>6 DEF Migrates
<1> QED
  BY <1>1, <1>3, <1>5 DEF w

(* The fields of a row that are looked at here.                            *)
LEMMA RowIs ==
  ASSUME NEW q, NEW status, NEW by, NEW also
  PROVE  Row(q, status, by, also).q = q /\ Row(q, status, by, also).status = status
BY DEF Row

(* The rows of a reset or of an epoch's end are such rows.                 *)
LEMMA EndedAreVerdicts ==
  ASSUME NEW hits, NEW status, NEW p
  PROVE  /\ Verdicts(hits, EndedRows(hits, status, p), status)
         /\ \A r \in EndedRows(hits, status, p) : \E h \in hits : r.q = h.q
<1> DEFINE F == [q \in {h.q : h \in hits} |-> Row(q, status, p.idx, {q})]
           rows == EndedRows(hits, status, p)
<1>1. \A h \in hits : F[h.q] = Row(h.q, status, p.idx, {h.q})
  OBVIOUS
<1>2. \A r \in rows : \E h \in hits : r = Row(h.q, status, p.idx, {h.q})
  BY DEF EndedRows
<1>3. \A h \in hits : Row(h.q, status, p.idx, {h.q}) \in rows
  BY DEF EndedRows
<1> HIDE DEF F, rows
<1>4. ASSUME NEW r \in rows
      PROVE  \E h \in hits : r.q = h.q /\ r.status = status /\ r = F[h.q]
  <2>1. PICK h \in hits : r = Row(h.q, status, p.idx, {h.q})
    BY <1>2
  <2>2. r.q = h.q /\ r.status = status
    BY <2>1, RowIs
  <2> QED
    BY <1>1, <2>1, <2>2
<1>5. ASSUME NEW h \in hits PROVE \E r \in rows : r.q = h.q
  <2>1. (Row(h.q, status, p.idx, {h.q})).q = h.q
    BY RowIs
  <2> QED
    BY <1>3, <2>1
<1>6. Verdicts(hits, rows, status)
  BY <1>4, <1>5 DEF Verdicts, OneEach
<1> QED
  BY <1>4, <1>6 DEF rows

(* So are the rows of an acknowledgement.                                  *)
LEMMA MatchedAreVerdicts ==
  ASSUME NEW hits, NEW p
  PROVE  Verdicts(hits, {Row(h.q, "Matched", p.idx, Aggregate(hits, h.q)) : h \in hits}, "Matched")
<1> DEFINE F == [q \in {h.q : h \in hits} |-> Row(q, "Matched", p.idx, Aggregate(hits, q))]
           rows == {Row(h.q, "Matched", p.idx, Aggregate(hits, h.q)) : h \in hits}
<1>1. \A h \in hits : F[h.q] = Row(h.q, "Matched", p.idx, Aggregate(hits, h.q))
  OBVIOUS
<1>2. \A r \in rows : \E h \in hits : r = Row(h.q, "Matched", p.idx, Aggregate(hits, h.q))
  BY DEF EndedRows
<1>3. \A h \in hits : Row(h.q, "Matched", p.idx, Aggregate(hits, h.q)) \in rows
  BY DEF EndedRows
<1> HIDE DEF F, rows
<1>4. ASSUME NEW r \in rows
      PROVE  \E h \in hits : r.q = h.q /\ r.status = "Matched" /\ r = F[h.q]
  <2>1. PICK h \in hits : r = Row(h.q, "Matched", p.idx, Aggregate(hits, h.q))
    BY <1>2
  <2>2. r.q = h.q /\ r.status = "Matched"
    BY <2>1, RowIs
  <2> QED
    BY <1>1, <2>1, <2>2
<1>5. ASSUME NEW h \in hits PROVE \E r \in rows : r.q = h.q
  <2>1. (Row(h.q, "Matched", p.idx, Aggregate(hits, h.q))).q = h.q
    BY RowIs
  <2> QED
    BY <1>3, <2>1
<1>6. Verdicts(hits, rows, "Matched")
  BY <1>4, <1>5 DEF Verdicts, OneEach
<1> QED
  BY <1>4, <1>6 DEF rows

(* consume_r: all its verdicts are matches.                                *)
LEMMA ConsumeFollows ==
  ASSUME NEW v, HasTables(v), NEW p, NEW ack
  PROVE  Follows(v, ConsumeR(v, p, ack), {})
<1> DEFINE hits == PendingUpto(v, ack + AckTol)
           rows == {Row(h.q, "Matched", p.idx, Aggregate(hits, h.q)) : h \in hits}
           u == Settle(v, hits, rows)
<1>1. Verdicts(hits, rows, "Matched")
  BY MatchedAreVerdicts
<1> HIDE DEF hits, rows
<1>2. /\ Migrates(v, u, {}) /\ u.audit = v.audit
      /\ \A r \in u.rows \ v.rows : r \in rows
  BY <1>1, SettleMigrates DEF Status
<1>3. Follows(v, u, {})
  BY <1>1, <1>2 DEF Follows, Heard, Verdicts
<1> HIDE DEF u
<1>4. Keeps(u, [u EXCEPT !.conn.consumed = MaxOf(@, ack)])
  BY <1>2 DEF Keeps, Migrates, HasTables
<1>6. Follows(v, [u EXCEPT !.conn.consumed = MaxOf(@, ack)], {})
  BY <1>3, <1>4, FollowsKeeps
<1> QED
  BY <1>6 DEF ConsumeR, hits, rows, u

(* A reset and an epoch's flip write the event of each request they end.   *)
LEMMA CascadeFollows ==
  ASSUME NEW v, HasTables(v), NEW p, NEW dir
  PROVE  Follows(v, RstCascade(v, p), {}) /\ Follows(v, FlipEpoch(v, p, dir), {})
<1>1. ASSUME NEW status \in Status, NEW hits
      PROVE  Follows(v, Audited(Settle(v, hits, EndedRows(hits, status, p)), hits, status), {})
  <2> DEFINE rows == EndedRows(hits, status, p)
             u == Settle(v, hits, rows)
             w == Audited(u, hits, status)
  <2>1. Verdicts(hits, rows, status) /\ \A r \in rows : \E h \in hits : r.q = h.q
    BY EndedAreVerdicts
  <2> HIDE DEF rows
  <2>2. /\ Migrates(v, u, {}) /\ u.audit = v.audit /\ \A r \in u.rows \ v.rows : r \in rows
    BY <2>1, SettleMigrates
  <2> HIDE DEF u
  <2>3. /\ HasTables(w) /\ w.rows = u.rows /\ w.live = u.live
        /\ w.audit = v.audit \cup {[q |-> h.q, status |-> status] : h \in hits}
    BY <2>2 DEF Audited, Migrates, HasTables
  <2> HIDE DEF w
  <2>4. Migrates(v, w, {})
    BY <2>2, <2>3 DEF Migrates, Terminal, Settled
  <2>5. Heard(v, w)
    <3>1. ASSUME NEW r \in w.rows \ v.rows PROVE [q |-> r.q, status |-> r.status] \in w.audit
      <4>1. r \in rows /\ r.status = status
        BY <2>1, <2>2, <2>3 DEF Verdicts
      <4>2. PICK h \in hits : r.q = h.q
        BY <2>1, <4>1
      <4> QED
        BY <4>1, <4>2, <2>3
    <3> QED
      BY <3>1, <2>3 DEF Heard
  <2> QED
    BY <2>4, <2>5 DEF Follows, w, u, rows
<1>2. ASSUME NEW u, Follows(v, u, {}), NEW c PROVE Follows(v, [u EXCEPT !.conn = c], {})
  <2>1. Keeps(u, [u EXCEPT !.conn = c])
    BY <1>2 DEF Follows, Migrates, Keeps, HasTables
  <2> QED
    BY <1>2, <2>1, FollowsKeeps
<1>3. Follows(v, RstCascade(v, p), {})
  <2> DEFINE hits == AllPending(v)
             u == Audited(Settle(v, hits, EndedRows(hits, "RstAbort", p)), hits, "RstAbort")
  <2>1. Follows(v, u, {})
    BY <1>1 DEF Status
  <2>2. RstCascade(v, p) = [u EXCEPT !.conn = [u.conn EXCEPT !.state = "Reset"]]
    BY DEF RstCascade
  <2> HIDE DEF u
  <2> QED
    BY <2>1, <2>2, <1>2
<1>4. Follows(v, FlipEpoch(v, p, dir), {})
  <2> DEFINE hits == AllPending(v)
             u == Audited(Settle(v, hits, EndedRows(hits, "Unmatched", p)), hits, "Unmatched")
  <2>1. Follows(v, u, {})
    BY <1>1 DEF Status
  <2>2. FlipEpoch(v, p, dir) = [u EXCEPT !.conn = Rebirth(u.conn, p, dir)]
    BY DEF FlipEpoch
  <2> HIDE DEF u
  <2> QED
    BY <2>1, <2>2, <1>2
<1> QED
  BY <1>3, <1>4

(* open_q adds the packet's own index to the live ones and nothing else.   *)
LEMMA OpenQFollows ==
  ASSUME NEW v, HasTables(v), NEW p, NEW end
  PROVE  Follows(v, OpenQ(v, p, end), {p.idx})
<1>1. Keeps(v, Bind(v, p))
  BY DEF HasTables, Keeps, Bind
<1>2. LET w == OpenQ(v, p, end)
      IN  HasTables(w) /\ w.live = v.live \cup {p.idx} /\ w.rows = v.rows /\ v.audit \subseteq w.audit
  BY <1>1 DEF HasTables, Keeps, OpenQ
<1> DEFINE w == OpenQ(v, p, end)
<1>3. HasTables(w) /\ w.live = v.live \cup {p.idx} /\ w.rows = v.rows /\ v.audit \subseteq w.audit
  BY <1>2
<1> HIDE DEF HasTables, w
<1>4. Follows(v, w, {p.idx})
  BY <1>3 DEF Follows, Migrates, Heard, Terminal, Settled
<1> QED
  BY <1>4 DEF w

(* A packet that is matched opens at most its own request.                 *)
LEMMA MatchFollows ==
  ASSUME NEW v, HasTables(v), NEW p, NEW dir
  PROVE  Follows(v, Match(v, p, dir), {p.idx})
<1> DEFINE fed == FeedPacket(StreamOf(v.conn, dir), p.seq, p.len)
           advanced == [v EXCEPT !.conn = Advanced(v.conn, p, dir, fed.stream)]
<1>1. HasTables(advanced) /\ Follows(v, advanced, {})
  <2> HIDE DEF fed
  <2>1. Keeps(v, advanced)
    BY DEF HasTables, Keeps
  <2> QED
    BY <2>1, KeepsFollows DEF Keeps
<1>2. Match(v, p, dir) = IF dir = "C2S" THEN Request(advanced, p, fed) ELSE Response(advanced, p)
  BY DEF Match
<1> HIDE DEF fed, advanced
<1>3. Follows(advanced, advanced, {})
  BY <1>1, KeepsFollows DEF Keeps
<1>4. Follows(advanced, Request(advanced, p, fed), {p.idx}) \/ Follows(advanced, Request(advanced, p, fed), {})
  BY <1>1, <1>3, OpenQFollows DEF Request
<1>5. Follows(advanced, Response(advanced, p), {})
  BY <1>1, <1>3, ConsumeFollows DEF Response
<1>6. Follows(v, Match(v, p, dir), {p.idx}) \/ Follows(v, Match(v, p, dir), {})
  BY <1>1, <1>2, <1>4, <1>5, FollowsThen
<1> QED
  BY <1>6 DEF Follows, Migrates

(* So does a packet, with what it does before it is matched.               *)
LEMMA IngestFollows ==
  ASSUME NEW v, HasTables(v), HasRecs(v), NEW p
  PROVE  Follows(v, Ingest(v, p), {p.idx})
<1> DEFINE located == Located(Indexed(v, p), p)
           dir == IF located.conn.client = p.src THEN "C2S" ELSE "S2C"
           current == IF EpochTriggered(located.conn, p, dir)
                      THEN FlipEpoch(located, p, dir) ELSE located
           w == IF Has(p, "RST") THEN RstCascade(current, p) ELSE Match(current, p, dir)
<1>1. Ingest(v, p) = w
  BY DEF Ingest
<1>2. Keeps(v, located)
  BY DEF HasTables, Keeps, Located, Indexed
<1> HIDE DEF located, dir
<1>3. HasTables(located) /\ Follows(v, located, {})
  BY <1>2, KeepsFollows DEF Keeps
<1>4. Follows(v, current, {})
  <2>1. Follows(located, FlipEpoch(located, p, dir), {})
    BY <1>3, CascadeFollows
  <2>2. Follows(v, FlipEpoch(located, p, dir), {})
    BY <1>3, <2>1, FollowsThen
  <2> QED
    BY <1>3, <2>2
<1> HIDE DEF current
<1>5. HasTables(current)
  BY <1>4 DEF Follows, Migrates
<1>6. Follows(current, RstCascade(current, p), {}) /\ Follows(current, Match(current, p, dir), {p.idx})
  BY <1>5, CascadeFollows, MatchFollows
<1>7. Follows(v, RstCascade(current, p), {}) /\ Follows(v, Match(current, p, dir), {p.idx})
  BY <1>4, <1>6, FollowsThen
<1> QED
  BY <1>1, <1>7 DEF Follows, Migrates

(* The end of a batch touches the connection only.                         *)
LEMMA WritebackKeepsRows ==
  ASSUME NEW v, HasTables(v)
  PROVE  Keeps(v, Writeback(v))
BY DEF HasTables, Keeps, Writeback

(* The time-out scan writes a row and an event for each request that is    *)
(* due, and takes those with a row already out of the live ones.           *)
LEMMA ScanFollows ==
  ASSUME NEW v, HasTables(v), NEW now
  PROVE  Follows(v, ScanPendingTtl(v, now), {})
<1> DEFINE expired == IF QrTimeout = 0 THEN {} ELSE Expired(v, now)
           qs == {t.q : t \in expired}
           due == (qs \cap v.live) \ Settled(v)
           rows == {Row(q, "Timeout", 0, {q}) : q \in due}
           w == ScanPendingTtl(v, now)
<1> HIDE DEF expired, qs
<1>1. /\ HasTables(w) /\ w.rows = v.rows \cup rows /\ w.live = v.live \ qs
      /\ w.audit = v.audit \cup {[q |-> q, status |-> "Timeout"] : q \in due}
  BY DEF ScanPendingTtl, HasTables, expired, qs
<1> HIDE DEF w
<1>2. \A q \in v.live : q \in w.live \/ Terminal(w, q)
  <2> SUFFICES ASSUME NEW q \in v.live, q \in qs, ~Terminal(v, q) PROVE Terminal(w, q)
    BY <1>1 DEF Terminal, Settled
  <2>1. q \in due
    BY DEF Terminal
  <2> QED
    <3>1. Row(q, "Timeout", 0, {q}) \in rows
      BY <2>1
    <3>2. Row(q, "Timeout", 0, {q}).q = q
      BY RowIs
    <3> HIDE DEF rows
    <3> QED
      BY <1>1, <3>1, <3>2 DEF Terminal, Settled
<1>3. \A r \in rows : r.q \in due /\ r.status = "Timeout"
  BY DEF Row
<1>4. OneEach(rows)
  BY DEF OneEach, Row
<1> HIDE DEF rows
<1>5. \A r \in w.rows \ v.rows : r.q \in v.live /\ ~Terminal(v, r.q) /\ r.status \in Status
  BY <1>1, <1>3 DEF Terminal, Status
<1>9. \A q \in w.live : Terminal(w, q) => Terminal(v, q)
  BY <1>1, <1>3 DEF Terminal, Settled
<1>6. OneEach(v.rows) => OneEach(w.rows)
  BY <1>1, <1>3, <1>4 DEF OneEach, Terminal, Settled
<1>7. Migrates(v, w, {})
  BY <1>1, <1>2, <1>5, <1>6, <1>9 DEF Migrates
<1>8. Heard(v, w)
  BY <1>1, <1>3 DEF Heard
<1> QED
  BY <1>7, <1>8 DEF Follows, w

-----------------------------------------------------------------------------
(***************************************************************************)
(* Looking a request up: the oldest epoch that has a row of it decides,    *)
(* and only the newest epoch is ever written, so what was found stays      *)
(* found.                                                                  *)
(***************************************************************************)
(* The epoch has a row of the request.                                     *)
Rowed(epoch, q) == \E r \in epoch.rows : r.q = q

(* Every epoch has its tables, with one row for each request.              *)
Tabled(list) ==
  \A n \in 1 .. Len(list) :
    /\ {"rows", "opened", "recs"} \subseteq DOMAIN list[n]
    /\ OneEach(list[n].rows) /\ \A r \in list[n].rows : r.status \in Status

(* What a step does to the epochs: rows are added to the newest one only,  *)
(* and a new epoch begins empty.                                           *)
Grows(list, new) ==
  /\ Len(list) \in Nat /\ Len(new) \in Nat /\ Len(list) <= Len(new)
  /\ \A n \in 1 .. Len(list) : /\ list[n].rows \subseteq new[n].rows
                               /\ n < Len(list) => new[n].rows = list[n].rows
  /\ \A n \in 1 .. Len(new) : n > Len(list) => new[n].rows = {}

(* What the lookup finds: a pending request, nothing, or the oldest row.   *)
LEMMA StatusOf ==
  ASSUME NEW pending, NEW list, Len(list) \in Nat, Tabled(list), NEW q
  PROVE  /\ q \in pending => StatusBy(pending, list, q) = "Pending"
         /\ q \notin pending /\ (\A n \in 1 .. Len(list) : ~Rowed(list[n], q)) =>
              StatusBy(pending, list, q) = "None"
         /\ \A m \in 1 .. Len(list) : \A r \in list[m].rows :
              q \notin pending /\ r.q = q /\ (\A n \in 1 .. m - 1 : ~Rowed(list[n], q)) =>
                StatusBy(pending, list, q) = r.status /\ r.status \in Status
<1> DEFINE having == {n \in 1 .. Len(list) : \E r \in list[n].rows : r.q = q}
<1>1. StatusBy(pending, list, q) =
        IF q \in pending THEN "Pending"
        ELSE IF having = {} THEN "None"
        ELSE (CHOOSE r \in list[Min(having)].rows : r.q = q).status
  BY DEF StatusBy
<1>2. q \notin pending /\ (\A n \in 1 .. Len(list) : ~Rowed(list[n], q)) =>
        StatusBy(pending, list, q) = "None"
  BY <1>1 DEF Rowed
<1>3. ASSUME NEW m \in 1 .. Len(list), NEW r \in list[m].rows, q \notin pending, r.q = q,
             \A n \in 1 .. m - 1 : ~Rowed(list[n], q)
      PROVE  StatusBy(pending, list, q) = r.status /\ r.status \in Status
  <2>1. m \in having
    BY <1>3
  <2>2. \A n \in having : m <= n
    BY <1>3 DEF Rowed
  <2>3. having \subseteq Nat
    OBVIOUS
  <2> HIDE DEF having
  <2>4. \A x \in having : (\A y \in having : x <= y) => x = m
    BY <2>1, <2>2, <2>3
  <2>5. Min(having) = m
    BY <2>1, <2>2, <2>4 DEF Min
  <2>6. \A s \in list[m].rows : s.q = q => s = r
    BY <1>3 DEF Tabled, OneEach
  <2>7. (CHOOSE s \in list[m].rows : s.q = q) = r
    BY <1>3, <2>6
  <2>8. having # {}
    BY <2>1
  <2>9. r.status \in Status
    BY <1>3 DEF Tabled
  <2> QED
    BY <1>1, <1>3, <2>5, <2>7, <2>8, <2>9
<1> QED
  BY <1>1, <1>2, <1>3

(* Where some epoch has a row of the request, one of them is the oldest.   *)
LEMMA OldestRow ==
  ASSUME NEW list, Len(list) \in Nat, NEW q, NEW k \in 1 .. Len(list), Rowed(list[k], q)
  PROVE  \E m \in 1 .. Len(list) : \E r \in list[m].rows :
           r.q = q /\ \A n \in 1 .. m - 1 : ~Rowed(list[n], q)
<1> DEFINE having == {n \in 1 .. Len(list) : Rowed(list[n], q)}
<1>1. having \in SUBSET Nat /\ having # {}
  OBVIOUS
<1> HIDE DEF having
<1>2. PICK m \in having : \A n \in having : m <= n
  BY <1>1, LeastNatural
<1>3. m \in 1 .. Len(list) /\ Rowed(list[m], q)
  BY DEF having
<1>4. \A n \in 1 .. m - 1 : ~Rowed(list[n], q)
  BY <1>2, <1>3 DEF having
<1> QED
  BY <1>3, <1>4 DEF Rowed

(* A verdict a lookup has found it finds ever after.                       *)
LEMMA VerdictStays ==
  ASSUME NEW list, NEW new, Tabled(list), Tabled(new), Grows(list, new), NEW pending, NEW later, NEW q,
         q \notin pending, q \notin later, NEW k \in 1 .. Len(list), Rowed(list[k], q)
  PROVE  StatusBy(later, new, q) = StatusBy(pending, list, q)
<1>1. Len(list) \in Nat /\ Len(new) \in Nat /\ Len(list) <= Len(new)
  BY DEF Grows
<1>2. PICK m \in 1 .. Len(list) : \E r \in list[m].rows :
           r.q = q /\ \A n \in 1 .. m - 1 : ~Rowed(list[n], q)
  BY <1>1, OldestRow
<1>3. PICK r \in list[m].rows : r.q = q /\ \A n \in 1 .. m - 1 : ~Rowed(list[n], q)
  BY <1>2
<1>4. StatusBy(pending, list, q) = r.status
  BY <1>1, <1>3, StatusOf
<1>5. r \in new[m].rows /\ m \in 1 .. Len(new)
  BY <1>1 DEF Grows
<1>6. ASSUME NEW n \in 1 .. m - 1 PROVE ~Rowed(new[n], q)
  <2>1. n \in 1 .. Len(list) /\ n < Len(list)
    BY <1>1
  <2> QED
    BY <1>3, <2>1 DEF Grows, Rowed
<1>7. StatusBy(later, new, q) = r.status
  BY <1>1, <1>3, <1>5, <1>6, StatusOf
<1> QED
  BY <1>4, <1>7

(* And all that a lookup may find.                                         *)
LEMMA StatusTyped ==
  ASSUME NEW list, Len(list) \in Nat, Tabled(list), NEW pending, NEW q
  PROVE  /\ StatusBy(pending, list, q) \in {"None", "Pending"} \cup Status
         /\ StatusBy(pending, list, q) = "Pending" <=> q \in pending
         /\ StatusBy(pending, list, q) \in Status =>
              \E m \in 1 .. Len(list) : \E r \in list[m].rows :
                 r.q = q /\ r.status = StatusBy(pending, list, q)
         /\ StatusBy(pending, list, q) = "None" =>
              \A n \in 1 .. Len(list) : ~Rowed(list[n], q)
<1>1. CASE q \in pending
  BY <1>1, StatusOf DEF Status
<1>2. CASE q \notin pending /\ \A n \in 1 .. Len(list) : ~Rowed(list[n], q)
  BY ZenonT(60), <1>2, StatusOf DEF Status
<1>3. CASE q \notin pending /\ \E n \in 1 .. Len(list) : Rowed(list[n], q)
  <2>1. PICK m \in 1 .. Len(list) : \E r \in list[m].rows :
           r.q = q /\ \A n \in 1 .. m - 1 : ~Rowed(list[n], q)
    BY <1>3, OldestRow
  <2>2. PICK r \in list[m].rows : r.q = q /\ \A n \in 1 .. m - 1 : ~Rowed(list[n], q)
    BY <2>1
  <2>3. StatusBy(pending, list, q) = r.status /\ r.status \in Status
    <3>1. q \notin pending
      BY <1>3
    <3> QED
      BY <2>2, <3>1, StatusOf
  <2>4. r.status \notin {"None", "Pending"}
    BY <2>3 DEF Status
  <2> QED
    BY <1>3, <2>2, <2>3, <2>4
<1> QED
  BY <1>1, <1>2, <1>3

(* The newest epoch replaced.                                              *)
LEMMA ListCommitted ==
  ASSUME NEW list, IsSequence(list), list # <<>>, NEW epoch
  PROVE  LET new == [list EXCEPT ![Len(list)] = epoch]
         IN  /\ Len(list) \in Nat \ {0} /\ Len(new) = Len(list)
             /\ \A n \in 1 .. Len(list) : new[n] = IF n = Len(list) THEN epoch ELSE list[n]
<1>1. list \in Seq({list[n] : n \in 1 .. Len(list)})
  BY DEF IsSequence
<1> QED
  BY <1>1, EmptySeq, ExceptSeq

(* An epoch added.                                                         *)
LEMMA ListRotated ==
  ASSUME NEW list, IsSequence(list), NEW epoch
  PROVE  LET new == Append(list, epoch)
         IN  /\ Len(list) \in Nat /\ Len(new) = Len(list) + 1
             /\ \A n \in 1 .. Len(list) : new[n] = list[n]
             /\ new[Len(list) + 1] = epoch
<1>1. list \in Seq({list[n] : n \in 1 .. Len(list)} \cup {epoch})
  BY SeqMonotonic DEF IsSequence
<1> HIDE DEF IsSequence
<1> QED
  BY <1>1

-----------------------------------------------------------------------------
(***************************************************************************)
(* The protocol. The transaction under way is a continuation of what is    *)
(* committed, though a replay may begin from an epoch whose live rows were *)
(* not committed with it.                                                  *)
(***************************************************************************)
(* The transaction has yet to commit the live database.                    *)
Working == txn.stage \in {"Open", "Staged", "EpochDone"}

(* The fields the steps read.                                              *)
Fields ==
  /\ {"live"} \subseteq DOMAIN live
  /\ {"mark", "audit"} \subseteq DOMAIN ledger
  /\ {"resend", "failAt", "crashAt"} \subseteq DOMAIN plan

(* What the transaction has made of the tables: it goes on from the rows   *)
(* of the newest epoch; a request that is live in the committed database   *)
(* is live or has its verdict; and one it made live is beyond the          *)
(* watermark. The last two are what a replay leaves true, when the live    *)
(* database is behind the epoch.                                           *)
Ongoing ==
  LET v == txn.view
  IN  /\ HasTables(v)
      /\ Last(epochs).rows \subseteq v.rows
      /\ txn.stage = "EpochDone" => v.rows = Last(epochs).rows
      /\ OneEach(v.rows) /\ \A r \in v.rows : r.status \in Status
      /\ \A q \in live.live : q \in v.live \/ Terminal(v, q)
      /\ \A q \in v.live : q \in live.live \/ q > ledger.mark

(* The part of the invariant that is about verdicts.                       *)
Story == Fields /\ Tabled(epochs) /\ (Working => Ongoing)

(* With what holds of indexes and records, it is inductive.                *)
Facts == Inv /\ Story

(* The epochs are a sequence that is never empty.                          *)
LEMMA EpochsAre ==
  ASSUME Inv
  PROVE  /\ IsSequence(epochs) /\ epochs # <<>> /\ Len(epochs) \in Nat \ {0}
         /\ Last(epochs) = epochs[Len(epochs)]
<1>1. IsSequence(epochs) /\ epochs # <<>>
  BY DEF Inv, Shape, EpochShape
<1>2. epochs \in Seq({epochs[n] : n \in 1 .. Len(epochs)})
  BY <1>1 DEF IsSequence
<1> QED
  BY <1>1, <1>2, EmptySeq DEF Last

(* It holds at the start.                                                  *)
LEMMA StoryInit == Init => Story
<1> SUFFICES ASSUME Init PROVE Story
  OBVIOUS
<1>1. Fields
  BY ProtocolAssumption DEF Init, Fields, LiveOf
<1>2. Len(epochs) = 1 /\ epochs[1] = EmptyEpoch
  BY DEF Init
<1>3. Tabled(epochs)
  BY <1>2 DEF Tabled, OneEach, EmptyEpoch
<1>4. ~Working
  BY DEF Init, Working, Idle, Transaction
<1> QED
  BY <1>1, <1>3, <1>4 DEF Story

(* A transaction begins with what is committed.                            *)
LEMMA BegunTables ==
  ASSUME Facts
  PROVE  /\ HasTables(Begun) /\ HasRecs(Begun)
         /\ Begun.rows = Last(epochs).rows /\ Begun.live = live.live /\ Begun.audit = {}
         /\ OneEach(Begun.rows) /\ \A r \in Begun.rows : r.status \in Status
<1>1. /\ HasTables(Begun) /\ HasRecs(Begun)
      /\ Begun.rows = Last(epochs).rows /\ Begun.live = live.live /\ Begun.audit = {}
  BY DEF Begun, HasTables, HasRecs
<1>2. OneEach(Last(epochs).rows) /\ \A r \in Last(epochs).rows : r.status \in Status
  BY EpochsAre DEF Facts, Story, Tabled
<1> QED
  BY <1>1, <1>2

(* A transaction that begins or goes on keeps it, if its tables follow.    *)
LEMMA ViewMoves ==
  ASSUME Facts, NEW v, HasTables(v), Last(epochs).rows \subseteq v.rows,
         OneEach(v.rows), \A r \in v.rows : r.status \in Status,
         \A q \in live.live : q \in v.live \/ Terminal(v, q),
         \A q \in v.live : q \in live.live \/ q > ledger.mark,
         NEW w, NEW new, \A q \in new : q > ledger.mark, Follows(v, w, new),
         txn'.view = w, txn'.stage \in {"Open", "Staged"},
         UNCHANGED <<live, epochs, ledger, plan>>
  PROVE  Story'
<1>1. Migrates(v, w, new)
  BY DEF Follows
<1>2. \A q : Terminal(v, q) => Terminal(w, q)
  BY <1>1 DEF Migrates, Terminal, Settled
<1>3. HasTables(w) /\ Last(epochs).rows \subseteq w.rows /\ OneEach(w.rows)
  BY <1>1 DEF Migrates
<1>4. \A r \in w.rows : r.status \in Status
  BY <1>1 DEF Migrates
<1> HIDE DEF Terminal
<1>5. \A q \in live.live : q \in w.live \/ Terminal(w, q)
  BY <1>1, <1>2 DEF Migrates
<1>6. \A q \in w.live : q \in live.live \/ q > ledger.mark
  BY <1>1 DEF Migrates
<1>7. Ongoing'
  BY <1>3, <1>4, <1>5, <1>6 DEF Ongoing
<1> QED
  BY <1>7 DEF Story, Facts, Fields

(* A batch is taken.                                                       *)
LEMMA FlushStory == ASSUME Facts, Flush PROVE Story'
<1>1. txn' = Transaction("Open", "Batch", Begun) /\ UNCHANGED <<live, epochs, ledger, plan>>
  BY DEF Flush
<1>2. txn'.view = Begun /\ txn'.stage = "Open"
  BY <1>1 DEF Transaction
<1>3. Follows(Begun, Begun, {})
  BY BegunTables, KeepsFollows DEF Keeps
<1> QED
  BY <1>1, <1>2, <1>3, BegunTables, ViewMoves

(* A scan for requests that ran out of time.                               *)
LEMMA ScanStory == ASSUME Facts, NEW now, Scan(now) PROVE Story'
<1>1. /\ txn' = Transaction("Staged", "Scan", ScanPendingTtl(Begun, now))
      /\ UNCHANGED <<live, epochs, ledger, plan>>
  BY DEF Scan
<1>2. txn'.view = ScanPendingTtl(Begun, now) /\ txn'.stage = "Staged"
  BY <1>1 DEF Transaction
<1>3. Follows(Begun, ScanPendingTtl(Begun, now), {})
  BY BegunTables, ScanFollows
<1> QED
  BY <1>1, <1>2, <1>3, BegunTables, ViewMoves

(* The packet a step matches lies behind the watermark and has its own     *)
(* index.                                                                  *)
LEMMA NextPacket ==
  ASSUME Facts, IngestNext
  PROVE  LET n == pipe.matched + 1
             p == PacketAt(n)
             w == Ingest(txn.view, p)
         IN  /\ p.idx = n /\ n > ledger.mark
             /\ HasTables(txn.view) /\ HasRecs(txn.view)
             /\ Working /\ Ongoing /\ txn.stage = "Open"
             /\ txn'.stage \in {"Open", "Staged"}
             /\ txn'.view = w \/ txn'.view = Writeback(w)
             /\ UNCHANGED <<live, epochs, ledger, plan>>
<1> DEFINE n == pipe.matched + 1
           w == Ingest(txn.view, PacketAt(n))
<1>1. /\ txn.stage = "Open" /\ UNCHANGED <<live, epochs, ledger, plan>>
      /\ pipe' = [pipe EXCEPT !.matched = n]
  BY DEF IngestNext
<1>2. PipeShape /\ LedgerShape /\ TxnShape /\ Upto = pipe.matched
  BY <1>1 DEF Facts, Inv, Shape, Upto
<1>3. /\ pipe'.matched = n /\ pipe.matched \in Nat /\ ledger.mark \in Nat
      /\ n \in 1 .. Len(pipe.hot) /\ n > ledger.mark
  BY <1>1, <1>2 DEF PipeShape, LedgerShape
<1>4. PacketAt(n).idx = n
  BY <1>2, <1>3, PacketRow
<1>5. txn' = IF n = pipe.taken THEN Transaction("Staged", "Batch", Writeback(w))
             ELSE Transaction("Open", "Batch", w)
  BY <1>3 DEF IngestNext
<1> HIDE DEF w
<1>6. txn'.stage \in {"Open", "Staged"} /\ (txn'.view = w \/ txn'.view = Writeback(w))
  BY <1>5 DEF Transaction
<1>7. Working /\ Ongoing
  BY <1>1 DEF Facts, Story, Working
<1>8. HasTables(txn.view) /\ HasRecs(txn.view)
  BY <1>2, <1>7 DEF Ongoing, TxnShape
<1> QED
  BY <1>1, <1>3, <1>4, <1>6, <1>7, <1>8 DEF w

(* And what the step does to the tables follows.                           *)
LEMMA NextFollows ==
  ASSUME Facts, IngestNext
  PROVE  Follows(txn.view, txn'.view, {pipe.matched + 1})
<1> DEFINE n == pipe.matched + 1
           w == Ingest(txn.view, PacketAt(n))
<1>1. /\ PacketAt(n).idx = n /\ n > ledger.mark /\ HasTables(txn.view) /\ HasRecs(txn.view)
      /\ txn'.view = w \/ txn'.view = Writeback(w)
  BY NextPacket
<1>2. Follows(txn.view, w, {n})
  BY <1>1, IngestFollows
<1>3. HasTables(w)
  BY <1>2 DEF Follows, Migrates
<1> HIDE DEF w
<1>4. Follows(txn.view, Writeback(w), {n})
  BY <1>2, <1>3, WritebackKeepsRows, FollowsKeeps
<1> QED
  BY <1>1, <1>2, <1>4

(* So it keeps the invariant.                                              *)
LEMMA IngestStory == ASSUME Facts, IngestNext PROVE Story'
<1>1. /\ Ongoing /\ txn'.stage \in {"Open", "Staged"} /\ UNCHANGED <<live, epochs, ledger, plan>>
  BY NextPacket
<1>2. Follows(txn.view, txn'.view, {pipe.matched + 1}) /\ pipe.matched + 1 > ledger.mark
  BY NextFollows, NextPacket
<1> DEFINE v == txn.view
           w == txn'.view
<1>3. /\ HasTables(v) /\ Last(epochs).rows \subseteq v.rows
      /\ OneEach(v.rows) /\ (\A r \in v.rows : r.status \in Status)
      /\ (\A q \in live.live : q \in v.live \/ Terminal(v, q))
      /\ (\A q \in v.live : q \in live.live \/ q > ledger.mark)
  BY <1>1 DEF Ongoing
<1>4. txn'.view = w
  OBVIOUS
<1> HIDE DEF v, w
<1> QED
  BY <1>1, <1>2, <1>3, <1>4, ViewMoves DEF v, w

(* The commit of the epoch database only adds rows to the newest epoch.    *)
LEMMA CommitEpochStory ==
  ASSUME Facts, CommitEpoch
  PROVE  /\ Story' /\ Grows(epochs, epochs') /\ Len(epochs') = Len(epochs)
         /\ UNCHANGED <<live, ledger, plan>>
<1> DEFINE k == Len(epochs)
           epoch == EpochOf(txn.view)
<1>1. /\ epochs' = [epochs EXCEPT ![k] = epoch] /\ txn.stage = "Staged"
      /\ UNCHANGED <<live, ledger, pipe, plan>> /\ txn' = [txn EXCEPT !.stage = "EpochDone"]
  BY DEF CommitEpoch
<1>2. Ongoing /\ TxnShape /\ Tabled(epochs) /\ Fields
  BY <1>1 DEF Facts, Inv, Shape, Story, Working
<1>3. txn'.stage = "EpochDone" /\ txn'.view = txn.view
  BY <1>1, <1>2 DEF TxnShape
<1>4. /\ {"rows", "opened", "recs"} \subseteq DOMAIN epoch /\ epoch.rows = txn.view.rows
  BY DEF EpochOf
<1>5. /\ IsSequence(epochs) /\ epochs # <<>> /\ k \in Nat \ {0} /\ Last(epochs) = epochs[k]
  BY EpochsAre DEF Facts
<1> HIDE DEF epoch
<1>6. /\ Len(epochs') = k /\ \A n \in 1 .. k : epochs'[n] = IF n = k THEN epoch ELSE epochs[n]
  BY <1>1, <1>5, ListCommitted
<1> HIDE DEF k
<1>7. Last(epochs') = epoch
  BY <1>5, <1>6 DEF Last
<1>8. OneEach(epoch.rows) /\ (\A r \in epoch.rows : r.status \in Status) /\ epochs[k].rows \subseteq epoch.rows
  BY <1>2, <1>4, <1>5 DEF Ongoing
<1>9. Tabled(epochs')
  BY <1>2, <1>4, <1>6, <1>8 DEF Tabled, k
<1>10. Grows(epochs, epochs')
  BY <1>5, <1>6, <1>8 DEF Grows, k
<1>11. Ongoing'
  BY <1>1, <1>2, <1>3, <1>4, <1>7 DEF Ongoing
<1> QED
  BY <1>1, <1>2, <1>6, <1>9, <1>10, <1>11 DEF Story, Fields, k

(* A new epoch begins empty, when no transaction is open.                  *)
LEMMA RotateStory ==
  ASSUME Facts, RotateEpoch
  PROVE  Story' /\ Grows(epochs, epochs') /\ UNCHANGED <<live, ledger, plan>>
<1>1. /\ epochs' = Append(epochs, EmptyEpoch) /\ txn.stage = "Idle"
      /\ UNCHANGED <<live, ledger, pipe, txn, plan>>
  BY DEF RotateEpoch
<1>2. /\ Len(epochs) \in Nat /\ Len(epochs') = Len(epochs) + 1
      /\ \A n \in 1 .. Len(epochs) : epochs'[n] = epochs[n]
      /\ epochs'[Len(epochs) + 1] = EmptyEpoch
  BY <1>1, EpochsAre, ListRotated DEF Facts
<1>3. \A n \in 1 .. Len(epochs') : n \in 1 .. Len(epochs) \/ n = Len(epochs) + 1
  BY <1>2
<1>4. Tabled(epochs')
  <2>1. Tabled(epochs)
    BY DEF Facts, Story
  <2>2. ASSUME NEW n \in 1 .. Len(epochs')
        PROVE  /\ {"rows", "opened", "recs"} \subseteq DOMAIN epochs'[n]
               /\ OneEach(epochs'[n].rows) /\ \A r \in epochs'[n].rows : r.status \in Status
    <3>1. CASE n \in 1 .. Len(epochs)
      BY <3>1, <2>1, <1>2 DEF Tabled
    <3>2. CASE n = Len(epochs) + 1
      BY <3>2, <1>2 DEF EmptyEpoch, OneEach
    <3> QED
      BY <3>1, <3>2, <1>3
  <2> QED
    BY <2>2 DEF Tabled
<1>5. Grows(epochs, epochs')
  <2>1. EmptyEpoch.rows = {}
    BY DEF EmptyEpoch
  <2> QED
    BY <1>2, <1>3, <2>1 DEF Grows
<1>6. ~Working'
  BY <1>1 DEF Working
<1> QED
  BY <1>1, <1>4, <1>5, <1>6 DEF Facts, Story, Fields

(* The commit of the live database comes when the rows are in the epoch.   *)
LEMMA CommitLiveStory ==
  ASSUME Facts, CommitLive
  PROVE  /\ Story' /\ UNCHANGED <<epochs, ledger, plan>>
         /\ live'.live = txn.view.live /\ Ongoing /\ txn.view.rows = Last(epochs).rows
<1>1. /\ txn.stage = "EpochDone" /\ live' = LiveOf(txn.view)
      /\ UNCHANGED <<epochs, ledger, plan>> /\ txn'.stage \in {"MarkDone", "LiveDone"}
  BY DEF CommitLive, Facts, Inv, Shape, TxnShape
<1>2. Ongoing
  BY <1>1 DEF Facts, Story, Working
<1>3. live'.live = txn.view.live /\ "live" \in DOMAIN live'
  BY <1>1 DEF LiveOf
<1>4. ~Working'
  BY <1>1 DEF Working
<1> QED
  BY <1>1, <1>2, <1>3, <1>4 DEF Facts, Story, Fields, Ongoing

(* All other steps: the source, the watermark and the ledger, failures,    *)
(* crashes and the session.                                                *)
Otherwise == Push \/ AdvanceWatermark \/ InsertAnomalies \/ UpsertMeta \/ UpsertArchive \/ Fail \/ Crash
             \/ OpenRegistry \/ Build

(* The ledger's steps lead to one another or to rest.                      *)
LEMMA LedgerStepRests ==
  ASSUME Facts
  PROVE  NextLedgerStep.stage \notin {"Open", "Staged", "EpochDone", "LiveDone", "MarkDone"}
<1>1. {"stage", "view"} \subseteq DOMAIN txn
  BY DEF Facts, Inv, Shape, TxnShape
<1>2. CASE NextLedgerStep = Idle
  BY <1>2 DEF Idle, Transaction
<1>3. CASE NextLedgerStep \in {[txn EXCEPT !.stage = "AuditDone"], [txn EXCEPT !.stage = "MetaDone"]}
  BY <1>1, <1>3
<1> QED
  BY <1>2, <1>3 DEF NextLedgerStep

(* None of these touches the databases, and the watermark is moved by its  *)
(* own step only.                                                          *)
LEMMA OtherStory ==
  ASSUME Facts, Otherwise
  PROVE  /\ Story' /\ UNCHANGED <<live, epochs>>
         /\ plan'.resend = plan.resend /\ plan'.failAt = plan.failAt /\ plan'.crashAt = plan.crashAt
         /\ ledger'.mark # ledger.mark => AdvanceWatermark
<1>1. UNCHANGED <<live, epochs>>
  BY DEF Otherwise, Push, AdvanceWatermark, InsertAnomalies, UpsertMeta, UpsertArchive, Fail, Crash,
         OpenRegistry, Build, SnapshotLive, SnapshotEpoch, ListEpochs
<1>2. Fields /\ Tabled(epochs)
  BY DEF Facts, Story
<1>3. /\ plan'.resend = plan.resend /\ plan'.failAt = plan.failAt /\ plan'.crashAt = plan.crashAt
      /\ {"resend", "failAt", "crashAt"} \subseteq DOMAIN plan'
  <2>1. CASE Fail
    BY <2>1, <1>2 DEF Fail, Fields
  <2>2. CASE Crash
    BY <2>2, <1>2 DEF Crash, Fields
  <2>3. CASE plan' = plan
    BY <2>3, <1>2 DEF Fields
  <2> QED
    BY <2>1, <2>2, <2>3 DEF Otherwise, Push, AdvanceWatermark, InsertAnomalies, UpsertMeta, UpsertArchive,
           OpenRegistry, Build, SnapshotLive, SnapshotEpoch, ListEpochs
<1>4. /\ {"mark", "audit"} \subseteq DOMAIN ledger'
      /\ ledger'.mark # ledger.mark => AdvanceWatermark
  <2>1. CASE AdvanceWatermark \/ InsertAnomalies \/ UpsertMeta \/ UpsertArchive
    BY <2>1, <1>2 DEF Fields, AdvanceWatermark, InsertAnomalies, UpsertMeta, UpsertArchive
  <2>2. CASE ledger' = ledger
    BY <2>2, <1>2 DEF Fields
  <2> QED
    BY <2>1, <2>2 DEF Otherwise, Push, Fail, Crash, OpenRegistry, Build, SnapshotLive, SnapshotEpoch, ListEpochs
<1>5. CASE txn' = txn /\ ledger' = ledger
  BY <1>1, <1>2, <1>3, <1>4, <1>5 DEF Story, Facts, Fields, Working, Ongoing
<1>6. CASE ~Working'
  BY <1>1, <1>2, <1>3, <1>4, <1>6 DEF Story, Fields
<1>7. ~Working' \/ (txn' = txn /\ ledger' = ledger)
  <2>1. CASE Push \/ OpenRegistry \/ Build
    BY <2>1 DEF Push, OpenRegistry, Build, SnapshotLive, SnapshotEpoch, ListEpochs
  <2>2. CASE AdvanceWatermark
    BY <2>2 DEF AdvanceWatermark, Working, Facts, Inv, Shape, TxnShape
  <2>3. CASE txn' = NextLedgerStep \/ txn' = Idle
    BY <2>3, LedgerStepRests DEF Working, Idle, Transaction
  <2> QED
    BY <2>1, <2>2, <2>3 DEF Otherwise, InsertAnomalies, UpsertMeta, UpsertArchive, Fail, Crash
<1> QED
  BY <1>1, <1>3, <1>4, <1>5, <1>6, <1>7

(* Every step keeps the part about verdicts.                               *)
LEMMA StoryNext == ASSUME Facts, [Next]_vars PROVE Story'
<1>1. CASE Flush
  BY <1>1, FlushStory
<1>2. CASE IngestNext
  BY <1>2, IngestStory
<1>3. CASE CommitEpoch
  BY <1>3, CommitEpochStory
<1>4. CASE CommitLive
  BY <1>4, CommitLiveStory
<1>5. CASE \E now \in plan.scans : Scan(now)
  BY <1>5, ScanStory
<1>6. CASE RotateEpoch
  BY <1>6, RotateStory
<1>7. CASE Otherwise
  BY <1>7, OtherStory
<1>8. CASE UNCHANGED vars
  BY <1>8 DEF vars, Facts, Story, Fields, Working, Ongoing
<1> QED
  BY <1>1, <1>2, <1>3, <1>4, <1>5, <1>6, <1>7, <1>8 DEF Next, IngestThread, CommitStep, Otherwise

-----------------------------------------------------------------------------
(***************************************************************************)
(* The refinement of QrLifecycle: what a lookup reports of a request       *)
(* behind the watermark is only opened or concluded, and never taken back. *)
(***************************************************************************)
(* What QrLifecycle is told of a request: the value substituted for its    *)
(* status.                                                                 *)
Reported(q) == IF q <= ledger.mark /\ ~plan.resend THEN Lookup(q) ELSE "None"

(* What QrLifecycle allows it to do.                                       *)
LifeStep(q) ==
  \/ Reported(q)' = Reported(q)
  \/ Reported(q) = "None" /\ Reported(q)' = "Pending"
  \/ Reported(q) \in {"None", "Pending"} /\ Reported(q)' \in Status

(* The watermark and the epochs are typed.                                 *)
LEMMA MarkType ==
  ASSUME Facts
  PROVE  ledger.mark \in Nat /\ Len(epochs) \in Nat /\ Tabled(epochs)
BY EpochsAre DEF Facts, Inv, Shape, LedgerShape, Story

(* The invariant is inductive.                                             *)
LEMMA FactsNext == ASSUME Facts, [Next]_vars PROVE Facts'
BY StoryNext, InvNext DEF Facts

(* A lookup finds nothing, a pending request or a verdict.                 *)
LEMMA LookupTyped ==
  ASSUME Facts, NEW q
  PROVE  Lookup(q) \in {"None", "Pending"} \cup Status
BY MarkType, StatusTyped DEF Lookup

(* When the epochs grow beside the same live database, a pending request   *)
(* stays so, a verdict stays, and one of which nothing was known may have  *)
(* its verdict.                                                            *)
LEMMA GrowthStep ==
  ASSUME Facts, Facts', Grows(epochs, epochs'), UNCHANGED <<live, ledger, plan>>, NEW q
  PROVE  LifeStep(q)
<1>1. /\ Len(epochs) \in Nat /\ Tabled(epochs) /\ Len(epochs') \in Nat /\ Tabled(epochs')
      /\ live'.live = live.live
  BY MarkType DEF Grows, Facts, Story
<1>2. CASE ~(q <= ledger.mark /\ ~plan.resend)
  BY <1>2 DEF LifeStep, Reported
<1>3. CASE q \in live.live
  <2>1. Lookup(q) = "Pending" /\ Lookup(q)' = "Pending"
    BY <1>1, <1>3, StatusOf DEF Lookup
  <2> QED
    BY <2>1 DEF LifeStep, Reported
<1>4. CASE q \notin live.live /\ \E k \in 1 .. Len(epochs) : Rowed(epochs[k], q)
  <2>1. Lookup(q)' = Lookup(q)
    BY <1>1, <1>4, VerdictStays DEF Lookup
  <2> QED
    BY <2>1 DEF LifeStep, Reported
<1>5. CASE q \notin live.live /\ ~\E k \in 1 .. Len(epochs) : Rowed(epochs[k], q)
  <2>1. Lookup(q) = "None"
    BY <1>1, <1>5, StatusOf DEF Lookup
  <2>2. Lookup(q)' \in {"None"} \cup Status
    BY <1>1, <1>5, StatusTyped DEF Lookup
  <2> QED
    BY <2>1, <2>2 DEF LifeStep, Reported
<1> QED
  BY <1>2, <1>3, <1>4, <1>5

(* When the live database is committed a request that leaves it has its    *)
(* row, and one that enters it is beyond the watermark: none behind it is  *)
(* opened again.                                                           *)
LEMMA CommitLiveStep ==
  ASSUME Facts, Facts', CommitLive, NEW q \in Nat
  PROVE  LifeStep(q)
<1>1. /\ UNCHANGED <<epochs, ledger, plan>>
      /\ live'.live = txn.view.live /\ Ongoing /\ txn.view.rows = Last(epochs).rows
  BY CommitLiveStory
<1>2. /\ Len(epochs) \in Nat /\ Tabled(epochs) /\ ledger.mark \in Nat
      /\ Len(epochs) # 0 /\ Last(epochs) = epochs[Len(epochs)]
  BY MarkType, EpochsAre DEF Facts
<1>3. CASE ~(q <= ledger.mark /\ ~plan.resend)
  BY <1>1, <1>3 DEF LifeStep, Reported
<1>4. CASE q \in live.live /\ q \in live'.live
  <2>1. Lookup(q) = "Pending" /\ Lookup(q)' = "Pending"
    BY <1>1, <1>2, <1>4, StatusOf DEF Lookup
  <2> QED
    BY <1>1, <2>1 DEF LifeStep, Reported
<1>5. CASE q \in live.live /\ q \notin live'.live
  <2>1. Terminal(txn.view, q)
    BY <1>1, <1>5 DEF Ongoing
  <2>2. Rowed(epochs[Len(epochs)], q)
    BY <1>1, <1>2, <2>1 DEF Terminal, Settled, Rowed
  <2>3. Lookup(q) = "Pending"
    BY <1>2, <1>5, StatusOf DEF Lookup
  <2>4. Lookup(q)' \in Status
    BY <1>1, <1>2, <1>5, <2>2, StatusTyped DEF Lookup
  <2> QED
    BY <1>1, <2>3, <2>4 DEF LifeStep, Reported
<1>6. CASE q \notin live.live /\ q <= ledger.mark
  <2>1. \A x \in txn.view.live : x \in live.live \/ x > ledger.mark
    BY <1>1 DEF Ongoing
  <2>2. q \notin live'.live
    <3> SUFFICES ASSUME q \in live'.live PROVE FALSE
      OBVIOUS
    <3>1. q > ledger.mark
      BY <1>1, <1>6, <2>1
    <3> QED
      BY <3>1, <1>6, <1>2
  <2>3. CASE \E k \in 1 .. Len(epochs) : Rowed(epochs[k], q)
    <3>1. Grows(epochs, epochs)
      BY <1>2 DEF Grows
    <3>2. Lookup(q)' = Lookup(q)
      BY <1>1, <1>2, <1>6, <2>2, <2>3, <3>1, VerdictStays DEF Lookup
    <3> QED
      BY <1>1, <3>2 DEF LifeStep, Reported
  <2>4. CASE ~\E k \in 1 .. Len(epochs) : Rowed(epochs[k], q)
    <3>1. Lookup(q)' = "None" /\ Lookup(q) = "None"
      BY <1>1, <1>2, <1>6, <2>2, <2>4, StatusOf DEF Lookup
    <3> QED
      BY <1>1, <3>1 DEF LifeStep, Reported
  <2> QED
    BY <2>3, <2>4
<1> QED
  BY <1>3, <1>4, <1>5, <1>6

(* When the watermark moves, a request it passes is reported for the first *)
(* time.                                                                   *)
LEMMA OtherStep ==
  ASSUME Facts, Facts', Otherwise, NEW q \in Nat
  PROVE  LifeStep(q)
<1>1. /\ UNCHANGED <<live, epochs>> /\ plan'.resend = plan.resend
      /\ ledger'.mark # ledger.mark => AdvanceWatermark
  BY OtherStory
<1>2. Lookup(q)' = Lookup(q)
  BY <1>1 DEF Lookup
<1>3. Lookup(q) \in {"None", "Pending"} \cup Status
  BY LookupTyped
<1>4. ledger.mark \in Nat /\ ledger'.mark \in Nat /\ ledger'.mark >= ledger.mark
  <2>1. ledger.mark \in Nat /\ pipe.taken \in Nat /\ "mark" \in DOMAIN ledger
    BY DEF Facts, Inv, Shape, LedgerShape, PipeShape
  <2>2. AdvanceWatermark => ledger'.mark = MaxOf(ledger.mark, pipe.taken)
    BY <2>1 DEF AdvanceWatermark
  <2> QED
    BY <1>1, <2>1, <2>2 DEF MaxOf
<1>5. CASE q <= ledger.mark
  BY <1>1, <1>2, <1>4, <1>5 DEF LifeStep, Reported
<1>6. CASE ~(q <= ledger.mark)
  BY <1>1, <1>2, <1>3, <1>6 DEF LifeStep, Reported
<1> QED
  BY <1>5, <1>6

(* A step that touches none of this reports the same.                      *)
LEMMA RestStep ==
  ASSUME Facts, UNCHANGED <<live, epochs, ledger, plan>>, NEW q
  PROVE  LifeStep(q)
BY DEF LifeStep, Reported, Lookup

(* Every step is one of the life cycle, or repeats it.                     *)
LEMMA LifeNext ==
  ASSUME Facts, [Next]_vars, NEW q \in Nat
  PROVE  LifeStep(q)
<1>0. Facts'
  BY FactsNext
<1>1. CASE Flush \/ IngestNext \/ (\E now \in plan.scans : Scan(now)) \/ UNCHANGED vars
  BY <1>1, RestStep DEF Flush, IngestNext, Scan, vars
<1>2. CASE CommitEpoch
  BY <1>0, <1>2, CommitEpochStory, GrowthStep
<1>3. CASE RotateEpoch
  BY <1>0, <1>3, RotateStory, GrowthStep
<1>4. CASE CommitLive
  BY <1>0, <1>4, CommitLiveStep
<1>5. CASE Otherwise
  BY <1>0, <1>5, OtherStep
<1> QED
  BY <1>1, <1>2, <1>3, <1>4, <1>5 DEF Next, IngestThread, CommitStep, Otherwise

(* The invariant holds at the start.                                       *)
LEMMA FactsInit == Init => Facts
BY InvInit, StoryInit DEF Facts

(* The protocol implements QrLifecycle: whatever crashes, replays, failed  *)
(* commits, scans and rotations come, a request that is reported is first  *)
(* pending and then has one verdict, or has it at once, and no verdict is  *)
(* taken back or changed (qr_by_idx over the databases QrMatcher::commit   *)
(* writes).                                                                *)
THEOREM LifecycleTheorem == Spec => LifecycleSpec
<1>1. Init => Lifecycle!Init
  <2> SUFFICES ASSUME Init, NEW q \in 1 .. Len(Log) PROVE Reported(q) = "None"
    BY DEF Lifecycle!Init, Reported
  <2>1. ledger.mark = 0
    BY DEF Init
  <2> QED
    BY <2>1 DEF Reported
<1>2. Facts /\ [Next]_vars => [Lifecycle!Next]_[q \in 1 .. Len(Log) |->
                 IF q <= ledger.mark /\ ~plan.resend THEN Lookup(q) ELSE "None"]
  <2> SUFFICES ASSUME Facts, [Next]_vars PROVE Lifecycle!Next
    OBVIOUS
  <2>1. \A q \in 1 .. Len(Log) : LifeStep(q)
    BY LifeNext, ProtocolAssumption
  <2> QED
    BY <2>1 DEF Lifecycle!Next, Lifecycle!Opens, Lifecycle!Concludes, LifeStep, Reported
<1>3. Facts /\ [Next]_vars => Facts'
  BY FactsNext
<1> QED
  BY <1>1, <1>2, <1>3, FactsInit, PTL DEF Spec, LifecycleSpec, Lifecycle!Spec

-----------------------------------------------------------------------------
(***************************************************************************)
(* A query session takes its two snapshots at two moments, the epoch's     *)
(* behind the live database's, and lists the epochs behind both.           *)
(***************************************************************************)
(* Every step lets the epochs grow.                                        *)
LEMMA EpochsGrow ==
  ASSUME Facts, [Next]_vars
  PROVE  Grows(epochs, epochs')
<1>1. CASE epochs' = epochs
  BY <1>1, MarkType DEF Grows
<1>2. CASE CommitEpoch
  BY <1>2, CommitEpochStory
<1>3. CASE RotateEpoch
  BY <1>3, RotateStory
<1>4. CASE Otherwise \/ CommitLive
  BY <1>1, <1>4, OtherStory, CommitLiveStory
<1>5. CASE Flush \/ IngestNext \/ (\E now \in plan.scans : Scan(now)) \/ UNCHANGED vars
  BY <1>1, <1>5 DEF Flush, IngestNext, Scan, vars
<1> QED
  BY <1>2, <1>3, <1>4, <1>5 DEF Next, IngestThread, CommitStep, Otherwise

(* The session has its snapshot of the live database, or that of its       *)
(* current epoch too.                                                      *)
Opened == session.phase \in {"Live", "Current", "Built"}
Snapped == session.phase \in {"Current", "Built"}

(* Some epoch of the list has a row of the request.                        *)
Present(list, q) == \E n \in 1 .. Len(list) : Rowed(list[n], q)

(* The request is pending at the first snapshot, or has its row in the     *)
(* snapshot of the current epoch or in some other epoch.                   *)
Placed(q) ==
  \/ q \in session.live
  \/ Rowed(session.snap, q)
  \/ \E n \in 1 .. Len(epochs) : n # session.known /\ Rowed(epochs[n], q)

(* What the session knows. Of the requests both databases had at its first *)
(* snapshot each is pending there or has its row: in some epoch, then in   *)
(* the snapshot or beside it, and then in an epoch of the list.            *)
SessionInv ==
  /\ DOMAIN session = {"phase", "known", "live", "there", "snap", "listed"}
  /\ session.phase # "None" => session.known \in 1 .. Len(epochs)
  /\ Opened => \A q \in session.there : q \in session.live \/ Present(epochs, q)
  /\ Snapped => /\ Tabled(<<session.snap>>)
                /\ session.snap.rows \subseteq epochs[session.known].rows
                /\ \A q \in session.there : Placed(q)
  /\ session.phase = "Built" =>
       /\ session.listed \in Nat /\ session.known <= session.listed
       /\ session.listed <= Len(epochs)
       /\ \A q \in session.there : q \in session.live \/ Present(SessionEpochs, q)

(* It holds at the start.                                                  *)
LEMMA SessionInit == Init => SessionInv
BY DEF Init, SessionInv, NoSession, Opened, Snapped

(* Rows stay when the epochs grow.                                         *)
LEMMA RowedGrows ==
  ASSUME Grows(epochs, epochs')
  PROVE  /\ Len(epochs) \in Nat /\ Len(epochs') \in Nat /\ Len(epochs) <= Len(epochs')
         /\ \A n \in 1 .. Len(epochs) : epochs[n].rows \subseteq epochs'[n].rows
         /\ \A n \in 1 .. Len(epochs) : \A q : Rowed(epochs[n], q) => Rowed(epochs'[n], q)
BY DEF Grows, Rowed

(* The list of the session, epoch by epoch.                                *)
LEMMA SessionList ==
  ASSUME session.listed \in Nat
  PROVE  /\ Len(SessionEpochs) = session.listed
         /\ \A n \in 1 .. session.listed :
              SessionEpochs[n] = IF n = session.known THEN session.snap ELSE epochs[n]
BY DEF SessionEpochs

(* It holds on while the ingest goes on.                                   *)
LEMMA SessionRests ==
  ASSUME Facts, SessionInv, Grows(epochs, epochs'), session' = session
  PROVE  SessionInv'
<1>1. /\ Len(epochs) \in Nat /\ Len(epochs') \in Nat /\ Len(epochs) <= Len(epochs')
      /\ \A n \in 1 .. Len(epochs) : epochs[n].rows \subseteq epochs'[n].rows
      /\ \A n \in 1 .. Len(epochs) : \A q : Rowed(epochs[n], q) => Rowed(epochs'[n], q)
  BY RowedGrows
<1> HIDE DEF Rowed
<1>2. \A n \in 1 .. Len(epochs) : n \in 1 .. Len(epochs')
  BY <1>1
<1>3. \A q : Present(epochs, q) => Present(epochs', q)
  BY <1>1, <1>2 DEF Present
<1>4. Opened => \A q \in session.there : q \in session.live \/ Present(epochs', q)
  BY <1>3 DEF SessionInv
<1>5. session.phase # "None" => session.known \in 1 .. Len(epochs')
  BY <1>2 DEF SessionInv
<1>6. ASSUME Snapped
      PROVE  /\ Tabled(<<session.snap>>) /\ session.snap.rows \subseteq epochs'[session.known].rows
             /\ \A q \in session.there : Placed(q)'
  <2>1. session.known \in 1 .. Len(epochs)
    BY <1>6 DEF SessionInv, Snapped
  <2>2. session.snap.rows \subseteq epochs'[session.known].rows
    BY <1>1, <1>6, <2>1 DEF SessionInv
  <2>3. \A q : Placed(q) => Placed(q)'
    BY <1>1, <1>2 DEF Placed
  <2> QED
    BY <1>6, <2>2, <2>3 DEF SessionInv
<1>7. ASSUME session.phase = "Built"
      PROVE  /\ session.listed \in Nat /\ session.known <= session.listed
             /\ session.listed <= Len(epochs')
             /\ \A q \in session.there : q \in session.live \/ Present(SessionEpochs, q)'
  <2>1. /\ session.listed \in Nat /\ session.known <= session.listed
        /\ session.listed <= Len(epochs)
    BY <1>7 DEF SessionInv
  <2>2. /\ Len(SessionEpochs) = session.listed /\ Len(SessionEpochs') = session.listed
        /\ \A n \in 1 .. session.listed :
             /\ SessionEpochs[n] = IF n = session.known THEN session.snap ELSE epochs[n]
             /\ SessionEpochs'[n] = IF n = session.known THEN session.snap ELSE epochs'[n]
    BY <2>1 DEF SessionEpochs
  <2>3. \A n \in 1 .. session.listed : n \in 1 .. Len(epochs)
    BY <1>1, <2>1
  <2>4. \A n \in 1 .. session.listed : \A q :
           Rowed(SessionEpochs[n], q) => Rowed(SessionEpochs'[n], q)
    BY <1>1, <2>2, <2>3
  <2>5. \A q : Present(SessionEpochs, q) => Present(SessionEpochs', q)
    BY <2>2, <2>4 DEF Present
  <2>6. \A q \in session.there : q \in session.live \/ Present(SessionEpochs, q)
    BY <1>7 DEF SessionInv
  <2>7. \A q \in session.there : q \in session.live \/ Present(SessionEpochs', q)
    BY <2>5, <2>6
  <2> QED
    BY <1>1, <2>1, <2>7 DEF Present
<1> QED
  BY <1>4, <1>5, <1>6, <1>7 DEF SessionInv, Opened, Snapped, Present

(* The requests noted at the first snapshot are live or have a row.        *)
LEMMA ThereIsPresent ==
  ASSUME NEW q \in There
  PROVE  q \in live.live \/ Present(epochs, q)
BY DEF There, Present, Rowed

(* Each of the session's own steps keeps it.                               *)
LEMMA SessionMoves ==
  ASSUME Facts, SessionInv, OpenRegistry \/ Build
  PROVE  SessionInv'
<1>0. /\ UNCHANGED <<live, epochs>> /\ Len(epochs) \in Nat \ {0} /\ Tabled(epochs)
  BY MarkType, EpochsAre DEF Facts, OpenRegistry, Build, SnapshotLive, SnapshotEpoch, ListEpochs
<1>1. CASE OpenRegistry
  <2>1. /\ DOMAIN session' = DOMAIN session /\ session'.phase = "Registered"
        /\ session'.known = Len(epochs)
    BY <1>1 DEF OpenRegistry, SessionInv
  <2> QED
    BY <1>0, <2>1 DEF SessionInv, Opened, Snapped
<1>2. CASE SnapshotLive
  <2>1. /\ session' = [session EXCEPT !.phase = "Live", !.live = live.live, !.there = There]
        /\ session.phase = "Registered"
    BY <1>2 DEF SnapshotLive
  <2>2. /\ DOMAIN session' = DOMAIN session /\ session'.phase = "Live"
        /\ session'.known = session.known /\ session'.live = live.live /\ session'.there = There
    BY <2>1 DEF SessionInv
  <2>3. \A q \in There : q \in live.live \/ Present(epochs, q)
    BY ThereIsPresent
  <2> QED
    BY <1>0, <2>1, <2>2, <2>3 DEF SessionInv, Opened, Snapped, Present
<1>3. CASE SnapshotEpoch
  <2>1. /\ session' = [session EXCEPT !.phase = "Current", !.snap = epochs[session.known]]
        /\ session.phase = "Live"
    BY <1>3 DEF SnapshotEpoch
  <2>2. /\ DOMAIN session' = DOMAIN session /\ session'.phase = "Current"
        /\ session'.known = session.known /\ session'.live = session.live
        /\ session'.there = session.there /\ session'.snap = epochs[session.known]
    BY <2>1 DEF SessionInv
  <2>3. session.known \in 1 .. Len(epochs)
    BY <2>1 DEF SessionInv
  <2>4. Tabled(<<session'.snap>>)
    BY <1>0, <2>2, <2>3 DEF Tabled
  <2>5. \A q \in session.there : q \in session.live \/ Present(epochs, q)
    BY <2>1 DEF SessionInv, Opened
  <2>6. \A q : q \in session.live \/ Present(epochs, q) => Placed(q)'
    BY <1>0, <2>2 DEF Placed, Present
  <2> QED
    BY <1>0, <2>2, <2>3, <2>4, <2>5, <2>6 DEF SessionInv, Opened, Snapped, Present
<1>4. CASE ListEpochs
  <2>1. /\ session' = [session EXCEPT !.phase = "Built", !.listed = Len(epochs)]
        /\ session.phase = "Current"
    BY <1>4 DEF ListEpochs
  <2>2. /\ DOMAIN session' = DOMAIN session /\ session'.phase = "Built"
        /\ session'.known = session.known /\ session'.live = session.live
        /\ session'.there = session.there /\ session'.snap = session.snap
        /\ session'.listed = Len(epochs)
    BY <2>1 DEF SessionInv
  <2>3. session.known \in 1 .. Len(epochs) /\ \A q \in session.there : Placed(q)
    BY <2>1 DEF SessionInv, Snapped
  <2>4. /\ Len(SessionEpochs') = Len(epochs)
        /\ \A n \in 1 .. Len(epochs) :
             SessionEpochs'[n] = IF n = session.known THEN session.snap ELSE epochs[n]
    BY <1>0, <2>2 DEF SessionEpochs
  <2>5. \A q : Placed(q) => q \in session.live \/ Present(SessionEpochs', q)
    BY <2>3, <2>4 DEF Placed, Present
  <2>6. \A q \in session'.there : q \in session'.live \/ Present(SessionEpochs', q)
    BY <2>2, <2>3, <2>5
  <2>7. \A q : Placed(q) => Placed(q)'
    BY <1>0, <2>2 DEF Placed
  <2> QED
    BY <1>0, <2>1, <2>2, <2>3, <2>6, <2>7 DEF SessionInv, Opened, Snapped, Present
<1> QED
  BY <1>1, <1>2, <1>3, <1>4 DEF Build

(* So every step does.                                                     *)
LEMMA SessionNext == ASSUME Facts, SessionInv, [Next]_vars PROVE SessionInv'
<1>1. Grows(epochs, epochs')
  BY EpochsGrow
<1>2. CASE OpenRegistry \/ Build
  BY <1>2, SessionMoves
<1>3. CASE ~(OpenRegistry \/ Build)
  <2>1. session' = session
    BY <1>3 DEF Next, IngestThread, CommitStep, Push, Flush, IngestNext, Scan, CommitEpoch, CommitLive,
           AdvanceWatermark, InsertAnomalies, UpsertMeta, UpsertArchive, RotateEpoch, Fail, Crash, vars
  <2> QED
    BY <1>1, <2>1, SessionRests
<1> QED
  BY <1>2, <1>3

(* The list of a session is one of tables, and its rows are the epochs'.   *)
LEMMA SessionTables ==
  ASSUME Facts, SessionInv, session.phase = "Built"
  PROVE  /\ Len(SessionEpochs) \in Nat /\ Tabled(SessionEpochs)
         /\ \A n \in 1 .. Len(SessionEpochs) :
              n \in 1 .. Len(epochs) /\ SessionEpochs[n].rows \subseteq epochs[n].rows
<1>1. /\ session.listed \in Nat /\ session.listed <= Len(epochs)
      /\ Tabled(<<session.snap>>) /\ session.snap.rows \subseteq epochs[session.known].rows
  BY DEF SessionInv, Snapped
<1>2. Len(epochs) \in Nat /\ Tabled(epochs)
  BY MarkType
<1>3. /\ Len(SessionEpochs) = session.listed
      /\ \A n \in 1 .. session.listed :
           SessionEpochs[n] = IF n = session.known THEN session.snap ELSE epochs[n]
  BY <1>1, SessionList
<1>4. \A n \in 1 .. session.listed : n \in 1 .. Len(epochs)
  BY <1>1, <1>2
<1>5. \A n \in 1 .. session.listed : SessionEpochs[n].rows \subseteq epochs[n].rows
  BY <1>1, <1>3
<1>6. /\ {"rows", "opened", "recs"} \subseteq DOMAIN session.snap
      /\ OneEach(session.snap.rows) /\ \A r \in session.snap.rows : r.status \in Status
  <2> DEFINE one == <<session.snap>>
  <2>1. Len(one) = 1 /\ one[1] = session.snap
    OBVIOUS
  <2>2. Tabled(one)
    BY <1>1
  <2> HIDE DEF one
  <2>3. 1 \in 1 .. Len(one)
    BY <2>1
  <2> QED
    BY <2>1, <2>2, <2>3 DEF Tabled
<1>7. Tabled(SessionEpochs)
  BY <1>2, <1>3, <1>4, <1>6 DEF Tabled
<1> QED
  BY <1>1, <1>3, <1>4, <1>5, <1>7

(* It says what the session may report.                                    *)
LEMMA SessionSees ==
  ASSUME Facts, SessionInv
  PROVE  SessionMissesNothing
<1> SUFFICES ASSUME session.phase = "Built"
             PROVE  /\ \A q \in session.there : Scanned(q) # "None"
                    /\ \A q : Scanned(q) \in Status =>
                                \E r \in AllRows : r.q = q /\ r.status = Scanned(q)
  BY DEF SessionMissesNothing
<1>1. /\ Len(SessionEpochs) \in Nat /\ Tabled(SessionEpochs)
      /\ \A n \in 1 .. Len(SessionEpochs) :
           n \in 1 .. Len(epochs) /\ SessionEpochs[n].rows \subseteq epochs[n].rows
  BY SessionTables
<1>2. \A q : /\ Scanned(q) = "Pending" <=> q \in session.live
             /\ Scanned(q) \in Status =>
                  \E m \in 1 .. Len(SessionEpochs) : \E r \in SessionEpochs[m].rows :
                     r.q = q /\ r.status = Scanned(q)
             /\ Scanned(q) = "None" => ~Present(SessionEpochs, q)
  BY <1>1, StatusTyped DEF Scanned, Present
<1>3. \A q \in session.there : Scanned(q) # "None"
  BY <1>2 DEF SessionInv
<1>4. ASSUME NEW q, Scanned(q) \in Status
      PROVE  \E r \in AllRows : r.q = q /\ r.status = Scanned(q)
  <2>1. PICK m \in 1 .. Len(SessionEpochs) : \E r \in SessionEpochs[m].rows :
              r.q = q /\ r.status = Scanned(q)
    BY <1>2, <1>4
  <2>2. PICK r \in SessionEpochs[m].rows : r.q = q /\ r.status = Scanned(q)
    BY <2>1
  <2>3. m \in 1 .. Len(epochs) /\ r \in epochs[m].rows
    BY <1>1
  <2>4. r \in AllRows
    BY <2>3 DEF AllRows
  <2> QED
    BY <2>2, <2>4
<1> QED
  BY <1>3, <1>4

(* A session that reads beside the ingest sees one story: a verdict it     *)
(* reports is in the databases, and it knows a status of every request     *)
(* both had at its first snapshot (QuerySession build: the live database   *)
(* first, then the current epoch, then the list of all).                   *)
THEOREM SessionTheorem == Spec => []SessionMissesNothing
<1>1. (Facts /\ SessionInv) /\ [Next]_vars => (Facts /\ SessionInv)'
  BY FactsNext, SessionNext
<1>2. Init => Facts /\ SessionInv
  BY FactsInit, SessionInit
<1>3. Facts /\ SessionInv => SessionMissesNothing
  BY SessionSees
<1> QED
  BY <1>1, <1>2, <1>3, PTL DEF Spec

-----------------------------------------------------------------------------
(***************************************************************************)
(* Verdicts and the events of the ledger.                                  *)
(***************************************************************************)
(* The events there must be for a set of rows.                             *)
Ended(rows) == {[q |-> r.q, status |-> r.status] : r \in {s \in rows : s.status # "Matched"}}

(* The transaction still has its events.                                   *)
Speaking == txn.stage \in {"Open", "Staged", "EpochDone", "LiveDone", "MarkDone"}

(* The events written, and those a transaction is about to write.          *)
Events == ledger.audit \cup IF Speaking THEN txn.view.audit ELSE {}

(* While nothing fails and the process lives, each verdict that is not a   *)
(* match is among them, in the epochs and in the transaction.              *)
AuditInv ==
  Undisturbed =>
    /\ \A n \in 1 .. Len(epochs) : Ended(epochs[n].rows) \subseteq Events
    /\ Working => Ended(txn.view.rows) \subseteq Events

(* Tables whose new verdicts were heard have their events.                 *)
LEMMA EndedHeard ==
  ASSUME NEW v, NEW w, Heard(v, w), NEW known, Ended(v.rows) \subseteq known \cup v.audit
  PROVE  Ended(w.rows) \subseteq known \cup w.audit
<1> SUFFICES ASSUME NEW r \in w.rows, r.status # "Matched"
             PROVE  [q |-> r.q, status |-> r.status] \in known \cup w.audit
  BY DEF Ended
<1>1. CASE r \in v.rows
  <2>1. [q |-> r.q, status |-> r.status] \in Ended(v.rows)
    BY <1>1 DEF Ended
  <2> QED
    BY <2>1 DEF Heard
<1>2. CASE r \notin v.rows
  BY <1>2 DEF Heard
<1> QED
  BY <1>1, <1>2

(* It holds at the start.                                                  *)
LEMMA AuditInit == Init => AuditInv
<1> SUFFICES ASSUME Init PROVE AuditInv
  OBVIOUS
<1>1. Len(epochs) = 1 /\ epochs[1] = EmptyEpoch /\ ~Working
  BY DEF Init, Working, Idle, Transaction
<1>2. Ended({}) = {}
  BY DEF Ended
<1> QED
  BY <1>1, <1>2 DEF AuditInv, EmptyEpoch

(* A transaction that begins or goes on keeps it.                          *)
LEMMA AuditMoves ==
  ASSUME Facts, AuditInv, NEW v, NEW w, NEW new, Follows(v, w, new),
         Undisturbed => Ended(v.rows) \subseteq Events /\ Events \subseteq ledger.audit \cup v.audit,
         txn'.view = w, txn'.stage \in {"Open", "Staged"},
         UNCHANGED <<live, epochs, ledger, plan>>
  PROVE  AuditInv'
<1>1. Heard(v, w)
  BY DEF Follows
<1>2. Undisturbed' <=> Undisturbed
  BY DEF Undisturbed
<1>3. Events' = ledger.audit \cup w.audit
  BY DEF Events, Speaking
<1>4. Undisturbed => Ended(w.rows) \subseteq Events'
  BY <1>1, <1>3, EndedHeard
<1>5. Undisturbed => Events \subseteq Events'
  BY <1>1, <1>3 DEF Heard
<1> QED
  BY <1>2, <1>4, <1>5 DEF AuditInv

(* A transaction begins with verdicts whose events the ledger has.         *)
LEMMA BegunAudit ==
  ASSUME Facts, AuditInv, txn.stage = "Idle"
  PROVE  Undisturbed => Ended(Begun.rows) \subseteq Events /\ Events \subseteq ledger.audit \cup Begun.audit
<1>1. Begun.rows = epochs[Len(epochs)].rows /\ Len(epochs) \in Nat \ {0}
  BY BegunTables, EpochsAre DEF Facts
<1>2. Events = ledger.audit
  BY DEF Events, Speaking
<1> QED
  BY <1>1, <1>2 DEF AuditInv

(* Every step keeps it. The events of a transaction reach the ledger       *)
(* before it rests, for a ledger step follows the commit of the live       *)
(* database.                                                               *)
LEMMA AuditNext == ASSUME Facts, AuditInv, [Next]_vars PROVE AuditInv'
<1>0. {"stage", "view"} \subseteq DOMAIN txn /\ "audit" \in DOMAIN ledger
  BY DEF Facts, Inv, Shape, TxnShape, Story, Fields
<1>1. CASE Flush
  <2>1. txn' = Transaction("Open", "Batch", Begun) /\ UNCHANGED <<live, epochs, ledger, plan>> /\ txn.stage = "Idle"
    BY <1>1 DEF Flush
  <2>2. Follows(Begun, Begun, {})
    BY BegunTables, KeepsFollows DEF Keeps
  <2>3. txn'.view = Begun /\ txn'.stage \in {"Open", "Staged"}
    BY <2>1 DEF Transaction
  <2> QED
    BY <2>1, <2>2, <2>3, BegunAudit, AuditMoves
<1>2. CASE \E now \in plan.scans : Scan(now)
  <2>1. PICK now \in plan.scans : Scan(now)
    BY <1>2
  <2>2. /\ txn' = Transaction("Staged", "Scan", ScanPendingTtl(Begun, now))
        /\ UNCHANGED <<live, epochs, ledger, plan>> /\ txn.stage = "Idle"
    BY <2>1 DEF Scan
  <2>3. Follows(Begun, ScanPendingTtl(Begun, now), {})
    BY BegunTables, ScanFollows
  <2>4. txn'.view = ScanPendingTtl(Begun, now) /\ txn'.stage \in {"Open", "Staged"}
    BY <2>2 DEF Transaction
  <2> QED
    BY <2>2, <2>3, <2>4, BegunAudit, AuditMoves
<1>3. CASE IngestNext
  <2>1. txn'.stage \in {"Open", "Staged"} /\ UNCHANGED <<live, epochs, ledger, plan>> /\ txn.stage = "Open"
    BY <1>3, NextPacket
  <2>2. Follows(txn.view, txn'.view, {pipe.matched + 1})
    BY <1>3, NextFollows
  <2>3. Undisturbed => Ended(txn.view.rows) \subseteq Events /\ Events \subseteq ledger.audit \cup txn.view.audit
    BY <2>1 DEF AuditInv, Events, Speaking, Working
  <2> DEFINE w == txn'.view
             v == txn.view
  <2>4. txn'.view = w /\ Follows(v, w, {pipe.matched + 1})
    BY <2>2
  <2>5. Undisturbed => Ended(v.rows) \subseteq Events /\ Events \subseteq ledger.audit \cup v.audit
    BY <2>3
  <2> HIDE DEF v, w
  <2> QED
    BY <2>1, <2>4, <2>5, AuditMoves
<1>4. CASE CommitEpoch
  <2>1. /\ txn.stage = "Staged" /\ txn' = [txn EXCEPT !.stage = "EpochDone"]
        /\ UNCHANGED <<ledger, plan>> /\ epochs' = [epochs EXCEPT ![Len(epochs)] = EpochOf(txn.view)]
    BY <1>4 DEF CommitEpoch
  <2>2. txn'.stage = "EpochDone" /\ txn'.view = txn.view
    BY <1>0, <2>1
  <2>3. Events' = Events /\ (Undisturbed' <=> Undisturbed)
    BY <2>1, <2>2 DEF Events, Speaking, Undisturbed
  <2>4. /\ Len(epochs') = Len(epochs)
        /\ \A n \in 1 .. Len(epochs) : epochs'[n].rows \in {epochs[n].rows, txn.view.rows}
    BY <2>1, EpochsAre, ListCommitted DEF Facts, EpochOf
  <2>5. Undisturbed => Ended(txn.view.rows) \subseteq Events
    BY <2>1 DEF AuditInv, Working
  <2> QED
    BY <2>2, <2>3, <2>4, <2>5 DEF AuditInv
<1>5. CASE CommitLive
  <2>1. /\ txn.stage = "EpochDone" /\ txn'.stage \in {"MarkDone", "LiveDone"} /\ txn'.view = txn.view
        /\ UNCHANGED <<epochs, ledger, plan>>
    BY <1>0, <1>5 DEF CommitLive
  <2> QED
    BY <2>1 DEF AuditInv, Events, Speaking, Undisturbed, Working
<1>6. CASE AdvanceWatermark
  <2>1. /\ txn.stage = "LiveDone" /\ txn'.stage = "MarkDone" /\ txn'.view = txn.view
        /\ ledger'.audit = ledger.audit /\ UNCHANGED <<epochs, plan>>
    BY <1>0, <1>6 DEF AdvanceWatermark
  <2> QED
    BY <2>1 DEF AuditInv, Events, Speaking, Undisturbed, Working
<1>7. CASE InsertAnomalies \/ UpsertMeta \/ UpsertArchive
  <2>1. /\ txn' = NextLedgerStep /\ UNCHANGED <<epochs, plan>>
        /\ txn'.stage \notin {"Open", "Staged", "EpochDone", "LiveDone", "MarkDone"}
    BY <1>7, LedgerStepRests DEF InsertAnomalies, UpsertMeta, UpsertArchive
  <2>2. Events \subseteq ledger'.audit
    <3>1. CASE InsertAnomalies
      BY <1>0, <3>1 DEF InsertAnomalies, Events
    <3>2. CASE UpsertMeta \/ UpsertArchive
      BY <1>0, <3>2 DEF UpsertMeta, UpsertArchive, Events, Speaking
    <3> QED
      BY <1>7, <3>1, <3>2
  <2>3. ~Working' /\ Events' = ledger'.audit /\ (Undisturbed' <=> Undisturbed)
    BY <2>1 DEF Working, Events, Speaking, Undisturbed
  <2> QED
    BY <2>1, <2>2, <2>3 DEF AuditInv
<1>8. CASE RotateEpoch
  <2>1. /\ epochs' = Append(epochs, EmptyEpoch) /\ UNCHANGED <<ledger, txn, plan>> /\ txn.stage = "Idle"
    BY <1>8 DEF RotateEpoch
  <2>2. /\ Len(epochs) \in Nat /\ Len(epochs') = Len(epochs) + 1
        /\ \A n \in 1 .. Len(epochs) : epochs'[n] = epochs[n]
        /\ epochs'[Len(epochs) + 1] = EmptyEpoch
    BY <2>1, EpochsAre, ListRotated DEF Facts
  <2>3. \A n \in 1 .. Len(epochs') : n \in 1 .. Len(epochs) \/ n = Len(epochs) + 1
    BY <2>2
  <2>4. Ended(EmptyEpoch.rows) = {}
    BY DEF EmptyEpoch, Ended
  <2> HIDE DEF Ended
  <2>5. Events' = Events /\ (Undisturbed' <=> Undisturbed) /\ ~Working'
    BY <2>1 DEF Events, Speaking, Undisturbed, Working
  <2> QED
    BY <2>2, <2>3, <2>4, <2>5 DEF AuditInv
<1>9. CASE Fail \/ Crash
  <2>1. ~Undisturbed /\ plan'.failAt = plan.failAt /\ plan'.crashAt = plan.crashAt
    BY <1>9, OtherStory DEF Fail, Crash, Undisturbed, Otherwise
  <2> QED
    BY <2>1 DEF AuditInv, Undisturbed
<1>10. CASE Push \/ OpenRegistry \/ Build \/ UNCHANGED vars
  <2>1. UNCHANGED <<epochs, ledger, txn, plan>>
    BY <1>10 DEF Push, OpenRegistry, Build, SnapshotLive, SnapshotEpoch, ListEpochs, vars
  <2> QED
    BY <2>1 DEF AuditInv, Events, Speaking, Undisturbed, Working
<1> QED
  BY <1>1, <1>2, <1>3, <1>4, <1>5, <1>6, <1>7, <1>8, <1>9, <1>10 DEF Next, IngestThread, CommitStep

(* Once a batch or a scan is committed, each request that timed out, was   *)
(* aborted or ended unmatched has its event in the ledger (commit_batch    *)
(* and ttl_scan insert the events after the tables).                       *)
THEOREM AuditTheorem == Spec => []AuditFollowsVerdict
<1>1. (Facts /\ AuditInv) /\ [Next]_vars => (Facts /\ AuditInv)'
  BY FactsNext, AuditNext
<1>2. Init => Facts /\ AuditInv
  BY FactsInit, AuditInit
<1>3. Facts /\ AuditInv => AuditFollowsVerdict
  <2> SUFFICES ASSUME AuditInv, txn.stage = "Idle", Undisturbed, NEW r \in AllRows, r.status # "Matched"
               PROVE  [q |-> r.q, status |-> r.status] \in ledger.audit
    BY DEF AuditFollowsVerdict
  <2>1. PICK n \in 1 .. Len(epochs) : r \in epochs[n].rows
    BY DEF AllRows
  <2>2. [q |-> r.q, status |-> r.status] \in Ended(epochs[n].rows)
    BY <2>1 DEF Ended
  <2> QED
    BY <2>2 DEF AuditInv, Events, Speaking
<1> QED
  BY <1>1, <1>2, <1>3, PTL DEF Spec

-----------------------------------------------------------------------------
(***************************************************************************)
(* One row for a request. Where no commit is torn the two databases tell   *)
(* one story: a request is live or has its row, in one epoch, and all that *)
(* either knows lies behind the batch. What a crash makes the engine match *)
(* again was then in neither, so it is opened and ended once.              *)
(***************************************************************************)
(* The fields of the plan this reads.                                      *)
PlanShape == {"crashAt", "failAt", "epochs"} \subseteq DOMAIN plan /\ plan.epochs \in Nat

(* An epoch before the newest has a row of the request.                    *)
Older(q) == \E n \in 1 .. Len(epochs) : n < Len(epochs) /\ Rowed(epochs[n], q)

(* The committed databases know the request.                               *)
Held(q) == q \in live.live \/ Present(epochs, q)

(* The transaction knows it.                                               *)
Viewed(q) == q \in txn.view.live \/ Terminal(txn.view, q)

(* A request is live or has its row, and has it in one epoch. Between the  *)
(* two commits the epoch is ahead of the live database. A transaction      *)
(* knows none that ended in an older epoch.                                *)
Apart ==
  /\ \A m, n \in 1 .. Len(epochs) : \A q : Rowed(epochs[m], q) /\ Rowed(epochs[n], q) => m = n
  /\ txn.stage # "EpochDone" => \A q \in live.live : ~Present(epochs, q)
  /\ Working => /\ \A q : Viewed(q) => ~Older(q)
                /\ \A q \in txn.view.live : ~Terminal(txn.view, q)

(* All that is known was matched: it lies in the batches taken, or in the  *)
(* part of the batch that was matched.                                     *)
Bounded ==
  /\ \A q : Held(q) => q \in Nat /\ q <= Upto
  /\ Working => \A q : Viewed(q) => q \in Nat /\ q <= Upto

(* Where there are crashes, all that is committed at the time of one lies  *)
(* behind the watermark, so a replay opens none of it.                     *)
Behind ==
  plan.crashAt # {} =>
    /\ txn.stage \notin {"EpochDone", "LiveDone"} \/ txn.kind = "Scan" =>
         \A q : Held(q) => q <= ledger.mark
    /\ Working /\ txn.kind = "Scan" => \A q : Viewed(q) => q <= ledger.mark

(* The part of the invariant that is about one row for each request, and   *)
(* without conditions the shape of the plan and its number of epochs.      *)
RowInv ==
  /\ PlanShape /\ "kind" \in DOMAIN txn /\ (txn.stage = "LiveDone" => txn.kind # "Scan")
  /\ plan.epochs = 1 => Len(epochs) = 1
  /\ Untorn => Apart /\ Bounded /\ Behind

(* It holds at the start.                                                  *)
LEMMA RowInvInit == Init => RowInv
<1> SUFFICES ASSUME Init PROVE RowInv
  OBVIOUS
<1>1. PlanShape
  BY ProtocolAssumption DEF Init, PlanShape
<1>2. /\ Len(epochs) = 1 /\ epochs[1] = EmptyEpoch /\ ~Working /\ "kind" \in DOMAIN txn
      /\ txn.stage = "Idle" /\ live.live = {}
  BY DEF Init, Working, Idle, Transaction, LiveOf, EmptyView
<1>3. \A n \in 1 .. Len(epochs) : \A q : ~Rowed(epochs[n], q)
  BY <1>2 DEF Rowed, EmptyEpoch
<1>4. \A q : ~Held(q)
  BY <1>2, <1>3 DEF Held, Present
<1>5. Apart /\ Bounded /\ Behind
  BY <1>2, <1>3, <1>4 DEF Apart, Bounded, Behind
<1> QED
  BY <1>1, <1>2, <1>5 DEF RowInv

(* No step changes what was planned, except which crashes and failures are *)
(* left.                                                                   *)
LEMMA PlanKept ==
  ASSUME Facts, RowInv, [Next]_vars
  PROVE  /\ PlanShape' /\ plan'.crashAt = plan.crashAt /\ plan'.failAt = plan.failAt /\ plan'.epochs = plan.epochs
         /\ Untorn' <=> Untorn
<1>1. CASE plan' = plan
  BY <1>1 DEF RowInv, PlanShape, Untorn
<1>2. CASE Fail \/ Crash
  BY <1>2 DEF RowInv, PlanShape, Untorn, Fail, Crash
<1> QED
  BY <1>1, <1>2 DEF Next, IngestThread, CommitStep, Push, Flush, IngestNext, Scan, CommitEpoch, CommitLive,
           AdvanceWatermark, InsertAnomalies, UpsertMeta, UpsertArchive, RotateEpoch, OpenRegistry, Build,
           SnapshotLive, SnapshotEpoch, ListEpochs, vars

(* A transaction that begins or goes on keeps it, if its tables follow and *)
(* the requests it opens are new.                                          *)
LEMMA ApartMoves ==
  ASSUME Facts, RowInv, Untorn, NEW v, NEW w, NEW new, Follows(v, w, new),
         Last(epochs).rows \subseteq v.rows,
         txn.stage # "EpochDone",
         \A q : q \in v.live \/ Terminal(v, q) => q \in Nat /\ q <= Upto /\ ~Older(q),
         \A q \in v.live : ~Terminal(v, q),
         \A q \in new : q \in Nat /\ q > Upto /\ q <= Upto',
         Upto \in Nat, Upto' \in Nat, Upto <= Upto',
         plan.crashAt # {} /\ txn'.kind = "Scan" => new = {} /\ \A q : q \in v.live \/ Terminal(v, q) => q <= ledger.mark,
         plan.crashAt # {} => txn.stage # "LiveDone",
         "kind" \in DOMAIN txn',
         txn'.view = w, txn'.stage \in {"Open", "Staged"},
         UNCHANGED <<live, epochs, ledger, plan>>
  PROVE  RowInv'
<1>1. Migrates(v, w, new)
  BY DEF Follows
<1>2. \A q : Viewed(q)' => q \in v.live \/ Terminal(v, q) \/ q \in new
  BY <1>1 DEF Migrates, Viewed, Terminal, Settled
<1>3. \A q : Held(q)' <=> Held(q)
  BY DEF Held
<1>4. \A q : Older(q)' <=> Older(q)
  BY DEF Older
<1>5. \A q : Older(q) => Held(q)
  BY DEF Older, Held, Present
<1>6. Apart'
  <2>1. \A q : Viewed(q)' => ~Older(q)
    BY <1>2, <1>5 DEF RowInv, Bounded
  <2>2. \A q \in w.live : ~Terminal(w, q)
    <3> SUFFICES ASSUME NEW q \in w.live, Terminal(w, q) PROVE FALSE
      OBVIOUS
    <3>1. CASE q \in new
      <4>1. ~Terminal(v, q) /\ q \notin v.live
        BY <3>1
      <4> QED
        BY <1>1, <4>1 DEF Migrates, Terminal, Settled
    <3>2. CASE q \notin new
      BY <1>1, <3>2 DEF Migrates
    <3> QED
      BY <3>1, <3>2
  <2>3. \A q \in live.live : ~Present(epochs, q)
    BY DEF RowInv, Apart
  <2> QED
    BY <1>4, <2>1, <2>2, <2>3 DEF Apart, RowInv
<1>7. Bounded'
  BY <1>2, <1>3 DEF Bounded, RowInv
<1>8. Behind'
  <2> SUFFICES ASSUME plan.crashAt # {} PROVE Behind'
    BY DEF Behind
  <2>1. \A q : Held(q) => q <= ledger.mark
    BY DEF RowInv, Behind
  <2> QED
    BY <1>2, <1>3, <2>1 DEF Behind
<1> QED
  BY <1>6, <1>7, <1>8 DEF RowInv, PlanShape

(* The counters are numbers, and the watermark is behind what is matched.  *)
LEMMA UptoType ==
  ASSUME Facts
  PROVE  /\ Upto \in Nat /\ pipe.taken \in Nat /\ ledger.mark \in Nat /\ ledger.mark <= Upto
         /\ pipe.taken <= Len(pipe.hot) /\ Len(pipe.hot) \in Nat
         /\ {"hot", "source", "taken", "matched"} \subseteq DOMAIN pipe
         /\ {"stage", "view"} \subseteq DOMAIN txn
         /\ (txn.stage # "Open" => Upto = pipe.taken)
         /\ (txn.stage = "Open" => Upto = pipe.matched /\ pipe.matched < pipe.taken)
BY DEF Facts, Inv, Shape, PipeShape, LedgerShape, TxnShape, Upto

(* What a new transaction is given satisfies this.                         *)
LEMMA BegunApart ==
  ASSUME Facts, RowInv, Untorn, txn.stage = "Idle"
  PROVE  /\ \A q : q \in Begun.live \/ Terminal(Begun, q) => q \in Nat /\ q <= Upto /\ ~Older(q)
         /\ \A q \in Begun.live : ~Terminal(Begun, q)
         /\ plan.crashAt # {} => \A q : q \in Begun.live \/ Terminal(Begun, q) => q <= ledger.mark
<1>1. /\ Begun.rows = epochs[Len(epochs)].rows /\ Begun.live = live.live /\ Len(epochs) \in Nat \ {0}
  BY BegunTables, EpochsAre DEF Facts
<1>2. \A q : Terminal(Begun, q) => Rowed(epochs[Len(epochs)], q) /\ Present(epochs, q)
  BY <1>1 DEF Terminal, Settled, Rowed, Present
<1>3. \A q : q \in Begun.live \/ Terminal(Begun, q) => Held(q)
  BY <1>1, <1>2 DEF Held
<1>4. \A q \in live.live : ~Present(epochs, q)
  BY DEF RowInv, Apart
<1>5. \A q : Older(q) => Present(epochs, q)
  BY DEF Older, Present
<1>6. \A q : Rowed(epochs[Len(epochs)], q) => ~Older(q)
  BY <1>1 DEF RowInv, Apart, Older
<1> QED
  BY <1>1, <1>2, <1>3, <1>4, <1>5, <1>6 DEF RowInv, Bounded, Behind

(* A batch is taken.                                                       *)
LEMMA FlushRow == ASSUME Facts, RowInv, Untorn, Flush PROVE RowInv'
<1>1. /\ txn' = Transaction("Open", "Batch", Begun) /\ UNCHANGED <<live, epochs, ledger, plan>>
      /\ txn.stage = "Idle" /\ pipe' = [pipe EXCEPT !.taken = Appended, !.matched = pipe.taken]
  BY DEF Flush
<1>2. txn'.view = Begun /\ txn'.stage = "Open" /\ txn'.kind = "Batch" /\ "kind" \in DOMAIN txn'
  BY <1>1 DEF Transaction
<1>3. Upto' = Upto /\ Upto \in Nat
  BY <1>1, <1>2, UptoType DEF Upto
<1>4. Follows(Begun, Begun, {}) /\ Begun.rows = Last(epochs).rows
  BY BegunTables, KeepsFollows DEF Keeps
<1> HIDE DEF Begun
<1> QED
  BY <1>1, <1>2, <1>3, <1>4, BegunApart, ApartMoves

(* A scan for requests that ran out of time.                               *)
LEMMA ScanRow == ASSUME Facts, RowInv, Untorn, NEW now, Scan(now) PROVE RowInv'
<1>1. /\ txn' = Transaction("Staged", "Scan", ScanPendingTtl(Begun, now))
      /\ UNCHANGED <<live, epochs, ledger, plan, pipe>> /\ txn.stage = "Idle"
  BY DEF Scan
<1> DEFINE w == ScanPendingTtl(Begun, now)
<1>2. txn'.view = w /\ txn'.stage = "Staged" /\ "kind" \in DOMAIN txn'
  BY <1>1 DEF Transaction
<1>3. Upto' = Upto /\ Upto \in Nat
  BY <1>1, <1>2, UptoType DEF Upto
<1>4. Follows(Begun, w, {}) /\ Begun.rows = Last(epochs).rows
  BY BegunTables, ScanFollows
<1> HIDE DEF Begun, w
<1> QED
  BY <1>1, <1>2, <1>3, <1>4, BegunApart, ApartMoves

(* A packet is matched: its request is beyond all that is known.           *)
LEMMA IngestRow == ASSUME Facts, RowInv, Untorn, IngestNext PROVE RowInv'
<1> DEFINE n == pipe.matched + 1
           v == txn.view
           w == txn'.view
<1>1. /\ txn.stage = "Open" /\ pipe' = [pipe EXCEPT !.matched = n]
      /\ Upto = pipe.matched /\ pipe.matched < pipe.taken /\ pipe.taken \in Nat /\ Upto \in Nat
  BY UptoType DEF IngestNext
<1>2. /\ txn'.kind = "Batch" /\ "kind" \in DOMAIN txn'
      /\ txn'.stage = (IF n = pipe.taken THEN "Staged" ELSE "Open")
  BY <1>1, UptoType DEF IngestNext, Transaction
<1>3. /\ Upto' = n /\ n \in Nat /\ n > Upto /\ Upto' \in Nat /\ Upto <= Upto'
  BY <1>1, <1>2, UptoType DEF Upto
<1>4. /\ Working /\ Ongoing /\ txn'.stage \in {"Open", "Staged"} /\ UNCHANGED <<live, epochs, ledger, plan>>
  BY NextPacket
<1>5. Follows(v, w, {n}) /\ Last(epochs).rows \subseteq v.rows
  BY <1>4, NextFollows DEF Ongoing
<1>6. /\ \A q : q \in v.live \/ Terminal(v, q) => q \in Nat /\ q <= Upto /\ ~Older(q)
      /\ \A q \in v.live : ~Terminal(v, q)
  BY <1>4 DEF RowInv, Apart, Bounded, Viewed
<1>7. txn'.view = w
  OBVIOUS
<1> HIDE DEF n, v, w
<1> QED
  BY <1>1, <1>2, <1>3, <1>4, <1>5, <1>6, <1>7, ApartMoves

(* The rows go to the newest epoch, and none of them has one in another.   *)
LEMMA CommitEpochRow == ASSUME Facts, RowInv, Untorn, CommitEpoch PROVE RowInv'
<1> DEFINE k == Len(epochs)
<1>1. /\ txn.stage = "Staged" /\ txn' = [txn EXCEPT !.stage = "EpochDone"]
      /\ UNCHANGED <<live, ledger, plan, pipe>> /\ epochs' = [epochs EXCEPT ![k] = EpochOf(txn.view)]
  BY DEF CommitEpoch
<1>2. /\ txn'.stage = "EpochDone" /\ txn'.view = txn.view /\ txn'.kind = txn.kind /\ "kind" \in DOMAIN txn'
  BY <1>1, UptoType DEF RowInv
<1>3. /\ Len(epochs') = k /\ k \in Nat \ {0} /\ epochs'[k].rows = txn.view.rows
      /\ \A n \in 1 .. k : n < k => epochs'[n] = epochs[n]
  BY <1>1, EpochsAre, ListCommitted DEF Facts, EpochOf
<1> HIDE DEF k
<1>4. /\ \A q : Older(q)' <=> Older(q)
      /\ \A q : Rowed(epochs'[k], q) <=> Terminal(txn.view, q)
  BY <1>3 DEF Older, Rowed, Terminal, Settled, k
<1>5. Working /\ Working' /\ Upto' = Upto /\ \A q : Viewed(q)' <=> Viewed(q)
  BY <1>1, <1>2 DEF Working, Upto, Viewed, Terminal, Settled
<1>6. \A q : Held(q)' => Held(q) \/ Viewed(q)
  <2> SUFFICES ASSUME NEW q, Present(epochs', q) PROVE Present(epochs, q) \/ Viewed(q)
    BY <1>1 DEF Held
  <2>1. PICK n \in 1 .. k : Rowed(epochs'[n], q)
    BY <1>3 DEF Present
  <2>2. CASE n = k
    BY <1>4, <2>1, <2>2 DEF Viewed
  <2>3. CASE n < k
    BY <1>3, <2>1, <2>3 DEF Present, k
  <2> QED
    BY <1>3, <2>2, <2>3
<1>7. Apart'
  <2>1. ASSUME NEW m \in 1 .. k, NEW n \in 1 .. k, NEW q, Rowed(epochs'[m], q), Rowed(epochs'[n], q)
        PROVE  m = n
    <3>1. CASE m < k /\ n < k
      BY <3>1, <2>1, <1>3 DEF RowInv, Apart, k
    <3>2. CASE m = k /\ n < k
      <4>1. Older(q) /\ Viewed(q)
        BY <3>2, <2>1, <1>3, <1>4 DEF Older, Viewed, k
      <4> QED
        BY <4>1, <1>5 DEF RowInv, Apart
    <3>3. CASE m < k /\ n = k
      <4>1. Older(q) /\ Viewed(q)
        BY <3>3, <2>1, <1>3, <1>4 DEF Older, Viewed, k
      <4> QED
        BY <4>1, <1>5 DEF RowInv, Apart
    <3> QED
      BY <3>1, <3>2, <3>3, <1>3
  <2> QED
    BY <2>1, <1>2, <1>3, <1>4, <1>5 DEF RowInv, Apart
<1>8. Bounded'
  BY <1>5, <1>6 DEF RowInv, Bounded
<1>9. Behind'
  BY <1>1, <1>2, <1>5, <1>6 DEF RowInv, Behind
<1> QED
  BY <1>1, <1>2, <1>3, <1>7, <1>8, <1>9 DEF RowInv, PlanShape, k

(* The requests that have their rows now leave the live database.          *)
LEMMA CommitLiveRow == ASSUME Facts, RowInv, Untorn, CommitLive PROVE RowInv'
<1>1. /\ txn.stage = "EpochDone" /\ UNCHANGED <<epochs, ledger, plan, pipe>>
      /\ txn' = [txn EXCEPT !.stage = IF txn.kind = "Scan" THEN "MarkDone" ELSE "LiveDone"]
  BY DEF CommitLive
<1>2. /\ txn'.stage = (IF txn.kind = "Scan" THEN "MarkDone" ELSE "LiveDone")
      /\ txn'.kind = txn.kind /\ "kind" \in DOMAIN txn'
  BY <1>1, UptoType DEF RowInv
<1>3. live'.live = txn.view.live /\ Ongoing /\ txn.view.rows = Last(epochs).rows
  BY CommitLiveStory
<1>4. Working /\ ~Working' /\ Upto' = Upto
  BY <1>1, <1>2 DEF Working, Upto
<1>5. Last(epochs) = epochs[Len(epochs)] /\ Len(epochs) \in Nat \ {0}
  BY EpochsAre DEF Facts
<1>6. \A q \in live'.live : ~Present(epochs, q)
  <2> SUFFICES ASSUME NEW q \in txn.view.live, Present(epochs, q) PROVE FALSE
    BY <1>3
  <2>1. PICK n \in 1 .. Len(epochs) : Rowed(epochs[n], q)
    BY DEF Present
  <2>2. CASE n = Len(epochs)
    <3>1. Terminal(txn.view, q)
      BY <1>3, <1>5, <2>1, <2>2 DEF Rowed, Terminal, Settled
    <3> QED
      BY <3>1, <1>4 DEF RowInv, Apart
  <2>3. CASE n < Len(epochs)
    BY <2>1, <2>3, <1>4 DEF RowInv, Apart, Older, Viewed
  <2> QED
    BY <1>5, <2>2, <2>3
<1>7. \A q : Held(q)' => Held(q) \/ Viewed(q)
  BY <1>1, <1>3 DEF Held, Viewed
<1>8. Apart'
  BY <1>1, <1>4, <1>6 DEF RowInv, Apart
<1>9. Bounded'
  BY <1>4, <1>7 DEF RowInv, Bounded
<1>10. Behind'
  BY <1>1, <1>2, <1>4, <1>7 DEF RowInv, Behind
<1> QED
  BY <1>1, <1>2, <1>8, <1>9, <1>10 DEF RowInv, PlanShape

(* A new epoch has no rows.                                                *)
LEMMA RotateRow == ASSUME Facts, RowInv, Untorn, RotateEpoch PROVE RowInv'
<1>1. /\ epochs' = Append(epochs, EmptyEpoch) /\ txn.stage = "Idle" /\ Len(epochs) < plan.epochs
      /\ UNCHANGED <<live, ledger, pipe, txn, plan>>
  BY DEF RotateEpoch
<1>2. /\ Len(epochs) \in Nat \ {0} /\ Len(epochs') = Len(epochs) + 1
      /\ \A n \in 1 .. Len(epochs) : epochs'[n] = epochs[n]
      /\ epochs'[Len(epochs) + 1] = EmptyEpoch
  BY <1>1, EpochsAre, ListRotated DEF Facts
<1>3. \A n \in 1 .. Len(epochs') : \A q : Rowed(epochs'[n], q) => n \in 1 .. Len(epochs) /\ Rowed(epochs[n], q)
  <2> SUFFICES ASSUME NEW n \in 1 .. Len(epochs'), NEW q, Rowed(epochs'[n], q)
               PROVE  n \in 1 .. Len(epochs) /\ Rowed(epochs[n], q)
    OBVIOUS
  <2>1. n # Len(epochs) + 1
    BY <1>2 DEF Rowed, EmptyEpoch
  <2> QED
    BY <1>2, <2>1
<1>4. \A q : Present(epochs', q) => Present(epochs, q)
  BY <1>3 DEF Present
<1>5. ~Working' /\ Upto' = Upto /\ \A q : Held(q)' => Held(q)
  BY <1>1, <1>4 DEF Working, Upto, Held
<1>6. Apart'
  BY <1>1, <1>3, <1>4, <1>5 DEF RowInv, Apart
<1>7. Bounded' /\ Behind'
  BY <1>1, <1>5 DEF RowInv, Bounded, Behind
<1> QED
  BY <1>1, <1>2, <1>6, <1>7 DEF RowInv, PlanShape

(* The other steps. A crash comes where all that is committed lies behind  *)
(* the watermark.                                                          *)
LEMMA RestRow ==
  ASSUME Facts, RowInv, Untorn, Otherwise
  PROVE  RowInv'
<1>0. /\ UNCHANGED <<live, epochs>> /\ PlanShape' /\ plan'.crashAt = plan.crashAt
      /\ plan'.epochs = plan.epochs /\ \A q : Held(q)' <=> Held(q)
  BY OtherStory, PlanKept DEF Otherwise, Next, IngestThread, CommitStep, Held
<1>1. CASE Push \/ OpenRegistry \/ Build
  <2>1. /\ UNCHANGED <<txn, ledger>>
        /\ pipe'.taken = pipe.taken /\ pipe'.matched = pipe.matched
    BY <1>1, UptoType DEF Push, OpenRegistry, Build, SnapshotLive, SnapshotEpoch, ListEpochs
  <2>2. Upto' = Upto /\ (Working' <=> Working)
    BY <2>1 DEF Upto, Working
  <2> QED
    BY <1>0, <2>1, <2>2 DEF RowInv, Apart, Bounded, Behind, Viewed, Older
<1>2. CASE AdvanceWatermark
  <2>1. /\ txn.stage = "LiveDone" /\ txn'.stage = "MarkDone" /\ txn'.kind = txn.kind /\ "kind" \in DOMAIN txn'
        /\ UNCHANGED pipe
    BY <1>2, UptoType DEF AdvanceWatermark, RowInv
  <2>2. Upto' = Upto /\ ~Working' /\ Upto = pipe.taken
    BY <2>1, UptoType DEF Upto, Working
  <2>3. ledger'.mark = MaxOf(ledger.mark, pipe.taken)
    BY <1>2, MarkType DEF AdvanceWatermark, Facts, Story, Fields
  <2>4. \A q : Held(q) => q <= ledger'.mark
    BY <2>2, <2>3, UptoType DEF MaxOf, RowInv, Bounded
  <2> QED
    BY <1>0, <2>1, <2>2, <2>4 DEF RowInv, Apart, Bounded, Behind, Working
<1>3. CASE InsertAnomalies \/ UpsertMeta \/ UpsertArchive
  <2>1. /\ txn.stage \notin {"Open", "Staged", "EpochDone", "LiveDone"} /\ UNCHANGED pipe
        /\ txn' = NextLedgerStep /\ ledger'.mark = ledger.mark
        /\ txn'.stage \notin {"Open", "Staged", "EpochDone", "LiveDone"}
    BY <1>3, LedgerStepRests DEF InsertAnomalies, UpsertMeta, UpsertArchive, Facts, Story, Fields
  <2>2. "kind" \in DOMAIN txn'
    BY <2>1 DEF NextLedgerStep, RowInv, Idle, Transaction
  <2>3. Upto' = Upto /\ ~Working'
    BY <2>1 DEF Upto, Working
  <2> QED
    BY <1>0, <2>1, <2>2, <2>3 DEF RowInv, Apart, Bounded, Behind, Working
<1>4. CASE Fail
  <2>1. /\ txn.stage \in plan.failAt /\ UNCHANGED <<pipe, ledger>>
        /\ txn'.stage \notin {"Open", "Staged", "EpochDone", "LiveDone"}
        /\ "kind" \in DOMAIN txn'
    BY <1>4, LedgerStepRests DEF Fail, Idle, Transaction, NextLedgerStep, RowInv
  <2>2. Upto' = pipe.taken /\ Upto <= pipe.taken /\ Upto \in Nat /\ pipe.taken \in Nat /\ ~Working'
    BY <2>1, UptoType DEF Upto, Working
  <2>3. txn.stage # "EpochDone" /\ (plan.crashAt # {} => txn.stage # "LiveDone")
    BY <2>1 DEF Untorn
  <2>4. Apart'
    BY <1>0, <2>1, <2>2, <2>3 DEF RowInv, Apart
  <2>5. Bounded'
    BY <1>0, <2>2 DEF RowInv, Bounded
  <2>6. Behind'
    BY <1>0, <2>1, <2>2, <2>3 DEF RowInv, Behind
  <2> QED
    BY <1>0, <2>1, <2>4, <2>5, <2>6 DEF RowInv
<1>5. CASE Crash
  <2>1. /\ txn.stage \in plan.crashAt /\ UNCHANGED ledger /\ txn' = Idle
        /\ pipe' = [hot |-> SubSeq(pipe.hot, 1, ledger.mark),
              source |-> IF plan.resend THEN 1 ELSE ledger.mark + 1,
              taken |-> ledger.mark, matched |-> ledger.mark]
    BY <1>5 DEF Crash
  <2>2. txn'.stage = "Idle" /\ txn'.kind = "Batch" /\ "kind" \in DOMAIN txn' /\ ~Working' /\ Upto' = ledger.mark
    BY <2>1 DEF Idle, Transaction, Working, Upto
  <2>3. txn.stage \notin {"EpochDone", "LiveDone"} /\ plan.crashAt # {}
    BY <2>1 DEF Untorn
  <2>4. \A q : Held(q) => q <= ledger.mark
    BY <2>3 DEF RowInv, Behind
  <2>5. Apart'
    BY <1>0, <2>2, <2>3 DEF RowInv, Apart
  <2>6. Bounded' /\ Behind'
    BY <1>0, <2>1, <2>2, <2>4 DEF RowInv, Bounded, Behind
  <2> QED
    BY <1>0, <2>2, <2>5, <2>6 DEF RowInv
<1> QED
  BY <1>1, <1>2, <1>3, <1>4, <1>5 DEF Otherwise

(* With one epoch the list stays as short, and the fields are kept,        *)
(* whatever goes wrong.                                                    *)
LEMMA RowNextTorn ==
  ASSUME Facts, RowInv, [Next]_vars, ~Untorn
  PROVE  RowInv'
<1>1. PlanShape' /\ plan'.epochs = plan.epochs /\ ~Untorn'
  BY PlanKept
<1>2. plan.epochs = 1 => Len(epochs') = 1
  <2>1. CASE RotateEpoch
    BY <2>1 DEF RotateEpoch, RowInv, PlanShape
  <2>2. CASE CommitEpoch
    BY <2>2, CommitEpochStory DEF RowInv
  <2>3. CASE ~(RotateEpoch \/ CommitEpoch)
    <3>1. epochs' = epochs
      BY <2>3 DEF Next, IngestThread, CommitStep, Push, Flush, IngestNext, Scan, CommitLive,
           AdvanceWatermark, InsertAnomalies, UpsertMeta, UpsertArchive, Fail, Crash, OpenRegistry, Build,
           SnapshotLive, SnapshotEpoch, ListEpochs, vars
    <3> QED
      BY <3>1 DEF RowInv
  <2> QED
    BY <2>1, <2>2, <2>3
<1>3. "kind" \in DOMAIN txn' /\ (txn'.stage = "LiveDone" => txn'.kind # "Scan")
  <2>1. CASE Flush \/ IngestNext \/ (\E now \in plan.scans : Scan(now)) \/ Crash
    BY <2>1 DEF Flush, IngestNext, Scan, Crash, Idle, Transaction
  <2>2. CASE CommitEpoch \/ CommitLive \/ AdvanceWatermark
    BY <2>2, UptoType DEF CommitEpoch, CommitLive, AdvanceWatermark, RowInv
  <2>3. CASE InsertAnomalies \/ UpsertMeta \/ UpsertArchive \/ Fail
    <3>1. txn' = NextLedgerStep \/ txn' = Idle
      BY <2>3 DEF InsertAnomalies, UpsertMeta, UpsertArchive, Fail
    <3> QED
      BY <3>1, UptoType DEF NextLedgerStep, Idle, Transaction, RowInv
  <2>4. CASE txn' = txn
    BY <2>4 DEF RowInv
  <2> QED
    BY <2>1, <2>2, <2>3, <2>4 DEF Next, IngestThread, CommitStep, Push, RotateEpoch, OpenRegistry, Build,
           SnapshotLive, SnapshotEpoch, ListEpochs, vars
<1> QED
  BY <1>1, <1>2, <1>3 DEF RowInv

(* Every step keeps it.                                                    *)
LEMMA RowInvNext == ASSUME Facts, RowInv, [Next]_vars PROVE RowInv'
<1>1. CASE ~Untorn
  BY <1>1, RowNextTorn
<1>2. CASE Untorn /\ UNCHANGED vars
  BY <1>2 DEF vars, RowInv, PlanShape, Untorn, Apart, Bounded, Behind, Working, Upto, Viewed, Older, Held
<1>3. CASE Untorn /\ Next
  BY <1>3, FlushRow, IngestRow, CommitEpochRow, CommitLiveRow, RotateRow, ScanRow, RestRow
     DEF Next, IngestThread, CommitStep, Otherwise
<1> QED
  BY <1>1, <1>2, <1>3

(* A set whose members are all one.                                        *)
LEMMA AtMostOne ==
  ASSUME NEW S, \A x, y \in S : x = y
  PROVE  Cardinality(S) <= 1
<1>1. CASE S = {}
  BY <1>1, FS_EmptySet
<1>2. CASE S # {}
  <2>1. PICK x \in S : TRUE
    BY <1>2
  <2>2. S = {x}
    BY <2>1
  <2> QED
    BY <2>2, FS_Singleton
<1> QED
  BY <1>1, <1>2

(* A request has one terminal row in all epochs if no commit is torn, or   *)
(* if the epochs are never rotated, when the row it has already is found   *)
(* again (the check for a row before one is written, in migrate_terminal   *)
(* and scan_pending_ttl).                                                  *)
THEOREM OneRowTheorem == Spec => []OneTerminalRow
<1>1. Facts /\ RowInv => OneTerminalRow
  <2> SUFFICES ASSUME Facts, RowInv, Untorn \/ plan.epochs = 1, NEW q
               PROVE  Cardinality(EpochsWith(q)) <= 1 /\ Cardinality({r \in AllRows : r.q = q}) <= 1
    BY DEF OneTerminalRow
  <2>1. \A m, n \in 1 .. Len(epochs) : Rowed(epochs[m], q) /\ Rowed(epochs[n], q) => m = n
    <3>1. CASE Untorn
      BY <3>1 DEF RowInv, Apart
    <3>2. CASE plan.epochs = 1
      <4>1. Len(epochs) = 1
        BY <3>2 DEF RowInv
      <4> QED
        BY <4>1
    <3> QED
      BY <3>1, <3>2
  <2>2. \A m, n \in EpochsWith(q) : m = n
    BY <2>1 DEF EpochsWith, Rowed
  <2>3. \A r, s \in {t \in AllRows : t.q = q} : r = s
    <3> SUFFICES ASSUME NEW r \in AllRows, NEW s \in AllRows, r.q = q, s.q = q PROVE r = s
      OBVIOUS
    <3>1. PICK m \in 1 .. Len(epochs) : r \in epochs[m].rows
      BY DEF AllRows
    <3>2. PICK n \in 1 .. Len(epochs) : s \in epochs[n].rows
      BY DEF AllRows
    <3>3. m = n
      BY <2>1, <3>1, <3>2 DEF Rowed
    <3>4. Tabled(epochs)
      BY MarkType
    <3> QED
      BY <3>1, <3>2, <3>3, <3>4 DEF Tabled, OneEach
  <2> QED
    BY <2>2, <2>3, AtMostOne
<1>2. Init => Facts /\ RowInv
  BY FactsInit, RowInvInit
<1>3. (Facts /\ RowInv) /\ [Next]_vars => (Facts /\ RowInv)'
  BY FactsNext, RowInvNext
<1> QED
  BY <1>1, <1>2, <1>3, PTL DEF Spec

-----------------------------------------------------------------------------
(***************************************************************************)
(* A run that nothing disturbs. What a packet does to the connection, and  *)
(* whether it opens a request, depends on the connection alone, whatever   *)
(* the tables are.                                                         *)
(***************************************************************************)
(* The fields of a connection.                                             *)
ConnFields == {"client", "state", "inc", "c", "s", "consumed", "fin", "syn", "bind", "hint", "open", "first", "last"}

(* Two connections that agree but for the count of open requests, which    *)
(* the end of a batch takes from the tables.                               *)
Like(c, d) ==
  /\ DOMAIN c = ConnFields /\ DOMAIN d = ConnFields
  /\ c.client = d.client /\ c.state = d.state /\ c.inc = d.inc /\ c.c = d.c /\ c.s = d.s
  /\ c.consumed = d.consumed /\ c.fin = d.fin /\ c.syn = d.syn /\ c.bind = d.bind /\ c.hint = d.hint
  /\ c.first = d.first /\ c.last = d.last

(* Two views whose connections agree.                                      *)
Alike(v, w) == HasTables(v) /\ HasTables(w) /\ Like(v.conn, w.conn)

(* The view v becomes w, and p is opened in it or not.                     *)
Opens(v, w, p, asked) ==
  /\ w.opened = IF asked THEN v.opened \cup {p.idx} ELSE v.opened
  /\ asked => p.idx \in w.live

(* Settle and the events touch neither the connection nor what was opened. *)
LEMMA SettleConn ==
  ASSUME NEW v, HasTables(v), NEW hits, NEW rows, NEW more, NEW status
  PROVE  LET s == Settle(v, hits, rows)
             a == Audited(s, more, status)
         IN  /\ HasTables(s) /\ s.conn = v.conn /\ s.opened = v.opened
             /\ HasTables(a) /\ a.conn = v.conn /\ a.opened = v.opened
BY DEF HasTables, Settle, Audited

(* A packet moves both connections alike.                                  *)
LEMMA LikeAdvanced ==
  ASSUME NEW c, NEW d, Like(c, d), NEW p, NEW dir, NEW stream
  PROVE  Like(Advanced(c, p, dir, stream), Advanced(d, p, dir, stream))
BY DEF Like, ConnFields, Advanced, NextState

(* So does a new incarnation.                                              *)
LEMMA LikeReborn ==
  ASSUME NEW c, NEW d, Like(c, d), NEW p, NEW dir
  PROVE  Like(Rebirth(c, p, dir), Rebirth(d, p, dir))
BY DEF Like, ConnFields, Rebirth

(* So do a reset and an epoch's flip.                                      *)
LEMMA CascadeAlike ==
  ASSUME NEW v, NEW w, Alike(v, w), NEW p, NEW dir
  PROVE  /\ Alike(RstCascade(v, p), RstCascade(w, p))
         /\ RstCascade(v, p).opened = v.opened /\ RstCascade(w, p).opened = w.opened
         /\ Alike(FlipEpoch(v, p, dir), FlipEpoch(w, p, dir))
         /\ FlipEpoch(v, p, dir).opened = v.opened /\ FlipEpoch(w, p, dir).opened = w.opened
<1> DEFINE R(x) == Audited(Settle(x, AllPending(x), EndedRows(AllPending(x), "RstAbort", p)), AllPending(x), "RstAbort")
           F(x) == Audited(Settle(x, AllPending(x), EndedRows(AllPending(x), "Unmatched", p)), AllPending(x), "Unmatched")
<1>1. /\ HasTables(R(v)) /\ R(v).conn = v.conn /\ R(v).opened = v.opened
      /\ HasTables(R(w)) /\ R(w).conn = w.conn /\ R(w).opened = w.opened
      /\ HasTables(F(v)) /\ F(v).conn = v.conn /\ F(v).opened = v.opened
      /\ HasTables(F(w)) /\ F(w).conn = w.conn /\ F(w).opened = w.opened
  BY SettleConn DEF Alike
<1>2. /\ RstCascade(v, p) = [R(v) EXCEPT !.conn.state = "Reset"]
      /\ RstCascade(w, p) = [R(w) EXCEPT !.conn.state = "Reset"]
      /\ FlipEpoch(v, p, dir) = [F(v) EXCEPT !.conn = Rebirth(F(v).conn, p, dir)]
      /\ FlipEpoch(w, p, dir) = [F(w) EXCEPT !.conn = Rebirth(F(w).conn, p, dir)]
  BY DEF RstCascade, FlipEpoch
<1> HIDE DEF R, F
<1>3. Like(Rebirth(v.conn, p, dir), Rebirth(w.conn, p, dir))
  BY LikeReborn DEF Alike
<1>4. /\ RstCascade(v, p).conn = [v.conn EXCEPT !.state = "Reset"]
      /\ RstCascade(w, p).conn = [w.conn EXCEPT !.state = "Reset"]
      /\ FlipEpoch(v, p, dir).conn = Rebirth(v.conn, p, dir)
      /\ FlipEpoch(w, p, dir).conn = Rebirth(w.conn, p, dir)
  BY <1>1, <1>2 DEF HasTables
<1>5. Like([v.conn EXCEPT !.state = "Reset"], [w.conn EXCEPT !.state = "Reset"])
  BY DEF Alike, Like, ConnFields
<1>6. /\ HasTables(RstCascade(v, p)) /\ RstCascade(v, p).opened = v.opened
      /\ HasTables(RstCascade(w, p)) /\ RstCascade(w, p).opened = w.opened
      /\ HasTables(FlipEpoch(v, p, dir)) /\ FlipEpoch(v, p, dir).opened = v.opened
      /\ HasTables(FlipEpoch(w, p, dir)) /\ FlipEpoch(w, p, dir).opened = w.opened
  BY <1>1, <1>2 DEF HasTables
<1> QED
  BY <1>3, <1>4, <1>5, <1>6 DEF Alike

(* And open_q, which binds both to the same rule.                          *)
LEMMA OpenQAlike ==
  ASSUME NEW v, NEW w, Alike(v, w), NEW p, NEW end
  PROVE  /\ Alike(OpenQ(v, p, end), OpenQ(w, p, end))
         /\ Opens(v, OpenQ(v, p, end), p, TRUE) /\ Opens(w, OpenQ(w, p, end), p, TRUE)
<1>1. /\ HasTables(Bind(v, p)) /\ HasTables(Bind(w, p)) /\ Like(Bind(v, p).conn, Bind(w, p).conn)
      /\ Bind(v, p).opened = v.opened /\ Bind(w, p).opened = w.opened
  <2> DEFINE bound == IF Resolve(p.src) = {} THEN 0 ELSE CHOOSE n \in Resolve(p.src) : TRUE
             hint == HintOf(p)
             B(x) == [x EXCEPT !.conn.bind = bound, !.conn.hint = hint, !.meta = Fingerprinted(x, p)]
  <2>1. /\ Bind(v, p) = IF v.conn.bind > 0 THEN v ELSE B(v)
        /\ Bind(w, p) = IF w.conn.bind > 0 THEN w ELSE B(w)
    BY DEF Bind
  <2> HIDE DEF bound, hint
  <2>2. /\ HasTables(B(v)) /\ B(v).opened = v.opened /\ B(v).conn = [[v.conn EXCEPT !.bind = bound] EXCEPT !.hint = hint]
        /\ HasTables(B(w)) /\ B(w).opened = w.opened /\ B(w).conn = [[w.conn EXCEPT !.bind = bound] EXCEPT !.hint = hint]
    BY DEF Alike, HasTables
  <2> HIDE DEF B
  <2>3. Like(B(v).conn, B(w).conn)
    BY <2>2 DEF Alike, Like, ConnFields
  <2>4. v.conn.bind = w.conn.bind
    BY DEF Alike, Like
  <2> QED
    BY <2>1, <2>2, <2>3, <2>4 DEF Alike
<1>2. \A x, y : HasTables(Bind(x, p)) /\ y = OpenQ(x, p, end) =>
        /\ HasTables(y) /\ y.conn = Bind(x, p).conn /\ y.opened = Bind(x, p).opened \cup {p.idx}
        /\ p.idx \in y.live
  BY DEF OpenQ, HasTables
<1> QED
  BY <1>1, <1>2 DEF Alike, Opens

(* And consume_r.                                                          *)
LEMMA ConsumeAlike ==
  ASSUME NEW v, NEW w, Alike(v, w), NEW p, NEW ack
  PROVE  /\ Alike(ConsumeR(v, p, ack), ConsumeR(w, p, ack))
         /\ ConsumeR(v, p, ack).opened = v.opened /\ ConsumeR(w, p, ack).opened = w.opened
<1> DEFINE S(x) == Settle(x, PendingUpto(x, ack + AckTol),
                     {Row(h.q, "Matched", p.idx, Aggregate(PendingUpto(x, ack + AckTol), h.q)) :
                        h \in PendingUpto(x, ack + AckTol)})
<1>1. /\ HasTables(S(v)) /\ S(v).conn = v.conn /\ S(v).opened = v.opened
      /\ HasTables(S(w)) /\ S(w).conn = w.conn /\ S(w).opened = w.opened
  BY SettleConn DEF Alike
<1>2. /\ ConsumeR(v, p, ack) = [S(v) EXCEPT !.conn.consumed = MaxOf(@, ack)]
      /\ ConsumeR(w, p, ack) = [S(w) EXCEPT !.conn.consumed = MaxOf(@, ack)]
  BY DEF ConsumeR
<1> HIDE DEF S
<1>3. /\ HasTables(ConsumeR(v, p, ack)) /\ ConsumeR(v, p, ack).opened = v.opened
      /\ ConsumeR(v, p, ack).conn = [v.conn EXCEPT !.consumed = MaxOf(v.conn.consumed, ack)]
      /\ HasTables(ConsumeR(w, p, ack)) /\ ConsumeR(w, p, ack).opened = w.opened
      /\ ConsumeR(w, p, ack).conn = [w.conn EXCEPT !.consumed = MaxOf(w.conn.consumed, ack)]
  BY <1>1, <1>2 DEF HasTables
<1>4. Like([v.conn EXCEPT !.consumed = MaxOf(v.conn.consumed, ack)],
           [w.conn EXCEPT !.consumed = MaxOf(w.conn.consumed, ack)])
  BY DEF Alike, Like, ConnFields
<1> QED
  BY <1>3, <1>4 DEF Alike

(* The views v and w become x and y: their connections agree again, and    *)
(* the packet is opened in both or in neither.                             *)
Twins(v, w, x, y, p) ==
  Alike(x, y) /\ \E asked \in BOOLEAN : Opens(v, x, p, asked) /\ Opens(w, y, p, asked)

(* They do where nothing is opened.                                        *)
LEMMA TwinsRest ==
  ASSUME NEW v, NEW w, NEW x, NEW y, NEW p, Alike(x, y), x.opened = v.opened, y.opened = w.opened
  PROVE  Twins(v, w, x, y, p)
<1>1. Opens(v, x, p, FALSE) /\ Opens(w, y, p, FALSE)
  BY DEF Opens
<1> QED
  BY <1>1 DEF Twins

(* A packet that is matched makes twins.                                   *)
LEMMA MatchTwins ==
  ASSUME NEW v, NEW w, Alike(v, w), NEW p, NEW dir
  PROVE  Twins(v, w, Match(v, p, dir), Match(w, p, dir), p)
<1> DEFINE fed == FeedPacket(StreamOf(v.conn, dir), p.seq, p.len)
           x == [v EXCEPT !.conn = Advanced(v.conn, p, dir, fed.stream)]
           y == [w EXCEPT !.conn = Advanced(w.conn, p, dir, fed.stream)]
<1>1. fed = FeedPacket(StreamOf(w.conn, dir), p.seq, p.len)
  BY DEF Alike, Like, StreamOf
<1>2. /\ Match(v, p, dir) = IF dir = "C2S" THEN Request(x, p, fed) ELSE Response(x, p)
      /\ Match(w, p, dir) = IF dir = "C2S" THEN Request(y, p, fed) ELSE Response(y, p)
  BY <1>1 DEF Match
<1> HIDE DEF fed
<1>3. Alike(x, y) /\ x.opened = v.opened /\ y.opened = w.opened
  <2>1. Like(Advanced(v.conn, p, dir, fed.stream), Advanced(w.conn, p, dir, fed.stream))
    BY LikeAdvanced DEF Alike
  <2> DEFINE cv == Advanced(v.conn, p, dir, fed.stream)
             cw == Advanced(w.conn, p, dir, fed.stream)
  <2> HIDE DEF cv, cw
  <2>2. /\ HasTables([v EXCEPT !.conn = cv]) /\ [v EXCEPT !.conn = cv].conn = cv /\ [v EXCEPT !.conn = cv].opened = v.opened
        /\ HasTables([w EXCEPT !.conn = cw]) /\ [w EXCEPT !.conn = cw].conn = cw /\ [w EXCEPT !.conn = cw].opened = w.opened
    BY DEF Alike, HasTables
  <2> QED
    BY <2>1, <2>2 DEF Alike, cv, cw
<1> HIDE DEF x, y
<1>4. x.conn.consumed = y.conn.consumed /\ x.conn.c = y.conn.c
  BY <1>3 DEF Alike, Like
<1>5. Twins(v, w, x, y, p)
  BY <1>3 DEF Twins, Opens
<1>6. Twins(v, w, Request(x, p, fed), Request(y, p, fed), p)
  <2> DEFINE end == fed.start + fed.new
  <2>1. CASE fed.new > 0 /\ end > x.conn.consumed
    <3>1. Request(x, p, fed) = OpenQ(x, p, end) /\ Request(y, p, fed) = OpenQ(y, p, end)
      BY <1>4, <2>1 DEF Request
    <3> HIDE DEF end
    <3>2. Alike(OpenQ(x, p, end), OpenQ(y, p, end)) /\ Opens(x, OpenQ(x, p, end), p, TRUE) /\ Opens(y, OpenQ(y, p, end), p, TRUE)
      BY <1>3, OpenQAlike
    <3> QED
      BY <1>3, <3>1, <3>2 DEF Twins, Opens
  <2>2. CASE ~(fed.new > 0 /\ end > x.conn.consumed)
    <3>1. Request(x, p, fed) = x /\ Request(y, p, fed) = y
      BY <1>4, <2>2 DEF Request
    <3> QED
      BY <1>5, <3>1
  <2> QED
    BY <2>1, <2>2
<1>7. Twins(v, w, Response(x, p), Response(y, p), p)
  <2> DEFINE ack == AbsOf(x.conn.c, p.ack)
  <2>1. ack = AbsOf(y.conn.c, p.ack)
    BY <1>4
  <2>2. CASE ack > x.conn.consumed /\ ack <= x.conn.c.abs + AckLeadCap
    <3>1. Response(x, p) = ConsumeR(x, p, ack) /\ Response(y, p) = ConsumeR(y, p, ack)
      BY <1>4, <2>1, <2>2 DEF Response
    <3> HIDE DEF ack
    <3>2. /\ Alike(ConsumeR(x, p, ack), ConsumeR(y, p, ack))
          /\ ConsumeR(x, p, ack).opened = v.opened /\ ConsumeR(y, p, ack).opened = w.opened
      BY <1>3, ConsumeAlike
    <3> QED
      BY <3>1, <3>2, TwinsRest
  <2>3. CASE ~(ack > x.conn.consumed /\ ack <= x.conn.c.abs + AckLeadCap)
    <3>1. Response(x, p) = x /\ Response(y, p) = y
      BY <1>4, <2>1, <2>3 DEF Response
    <3> QED
      BY <1>5, <3>1
  <2> QED
    BY <2>2, <2>3
<1> QED
  BY <1>2, <1>6, <1>7

(* So does all that is done for a packet.                                  *)
LEMMA IngestTwins ==
  ASSUME NEW v, NEW w, Alike(v, w), {"recs"} \subseteq DOMAIN v, {"recs"} \subseteq DOMAIN w, NEW p
  PROVE  Twins(v, w, Ingest(v, p), Ingest(w, p), p)
<1> DEFINE L(x) == Located(Indexed(x, p), p)
           dir == IF L(v).conn.client = p.src THEN "C2S" ELSE "S2C"
           C(x) == IF EpochTriggered(L(x).conn, p, dir) THEN FlipEpoch(L(x), p, dir) ELSE L(x)
<1>1. Alike(L(v), L(w)) /\ L(v).opened = v.opened /\ L(w).opened = w.opened
  <2>1. v.conn.client = w.conn.client
    BY DEF Alike, Like
  <2>2. Like(FreshConn(p.src, p.ts), FreshConn(p.src, p.ts))
    BY DEF Like, ConnFields, FreshConn
  <2>3. CASE v.conn.client = NoOne
    <3>1. /\ HasTables(L(v)) /\ L(v).conn = FreshConn(p.src, p.ts) /\ L(v).opened = v.opened
          /\ HasTables(L(w)) /\ L(w).conn = FreshConn(p.src, p.ts) /\ L(w).opened = w.opened
      BY <2>1, <2>3 DEF Alike, HasTables, Located, Indexed
    <3> QED
      BY <2>2, <3>1 DEF Alike
  <2>4. CASE v.conn.client # NoOne
    <3>1. /\ HasTables(L(v)) /\ L(v).conn = v.conn /\ L(v).opened = v.opened
          /\ HasTables(L(w)) /\ L(w).conn = w.conn /\ L(w).opened = w.opened
      BY <2>1, <2>4 DEF Alike, HasTables, Located, Indexed
    <3> QED
      BY <3>1 DEF Alike
  <2> QED
    BY <2>3, <2>4
<1>2. dir = (IF L(w).conn.client = p.src THEN "C2S" ELSE "S2C")
  BY <1>1 DEF Alike, Like
<1>3. /\ Ingest(v, p) = IF Has(p, "RST") THEN RstCascade(C(v), p) ELSE Match(C(v), p, dir)
      /\ Ingest(w, p) = IF Has(p, "RST") THEN RstCascade(C(w), p) ELSE Match(C(w), p, dir)
  BY <1>2 DEF Ingest
<1> HIDE DEF L, dir
<1>4. EpochTriggered(L(v).conn, p, dir) <=> EpochTriggered(L(w).conn, p, dir)
  BY <1>1 DEF EpochTriggered, StreamOf, Alike, Like
<1>5. Alike(C(v), C(w)) /\ C(v).opened = v.opened /\ C(w).opened = w.opened
  BY <1>1, <1>4, CascadeAlike
<1> HIDE DEF C
<1>6. Twins(C(v), C(w), RstCascade(C(v), p), RstCascade(C(w), p), p)
  BY <1>5, CascadeAlike, TwinsRest
<1>7. Twins(C(v), C(w), Match(C(v), p, dir), Match(C(w), p, dir), p)
  BY <1>5, MatchTwins
<1>8. \A x, y : Twins(C(v), C(w), x, y, p) => Twins(v, w, x, y, p)
  BY <1>5 DEF Twins, Opens
<1> QED
  BY <1>3, <1>6, <1>7, <1>8

-----------------------------------------------------------------------------
(***************************************************************************)
(* So the connection of the live database is at every moment the one such  *)
(* a run has after as many records, and a replay opens again the requests  *)
(* it opened before. None it has passed is lost.                           *)
(***************************************************************************)
(* The views of a run over the first k records, one packet after another.  *)
RunUpto(t, k) ==
  /\ t[0] = EmptyView
  /\ \A n \in 1 .. k : t[n] = Ingest(t[n - 1], Log[n])

(* There is such a run over the whole log.                                 *)
LEMMA RunExists == \E t : RunUpto(t, Len(Log))
<1> DEFINE T == {k \in Nat : \E t : RunUpto(t, k)}
<1>1. 0 \in T
  <2>1. RunUpto([n \in {0} |-> EmptyView], 0)
    BY DEF RunUpto
  <2> QED
    BY <2>1
<1>2. ASSUME NEW k \in T PROVE k + 1 \in T
  <2>1. PICK t : RunUpto(t, k)
    BY <1>2
  <2> DEFINE v == Ingest(t[k], Log[k + 1])
             s == [n \in 0 .. k + 1 |-> IF n = k + 1 THEN v ELSE t[n]]
  <2>2. s[k + 1] = v /\ \A n \in 0 .. k : s[n] = t[n]
    OBVIOUS
  <2>3. ASSUME NEW n \in 1 .. k + 1 PROVE s[n] = Ingest(s[n - 1], Log[n])
    <3>1. CASE n = k + 1
      BY <2>2, <3>1
    <3>2. CASE n \in 1 .. k
      <4>1. s[n] = t[n] /\ s[n - 1] = t[n - 1]
        BY <2>2, <3>2
      <4> QED
        BY <2>1, <3>2, <4>1 DEF RunUpto
    <3> QED
      BY <3>1, <3>2
  <2>4. s[0] = EmptyView
    BY <2>1, <2>2 DEF RunUpto
  <2> HIDE DEF s
  <2>5. RunUpto(s, k + 1)
    BY <2>3, <2>4 DEF RunUpto
  <2> QED
    BY <2>5
<1> HIDE DEF T
<1>3. T = Nat
  <2>1. T \in SUBSET Nat
    BY DEF T
  <2> QED
    BY <1>1, <1>2, <2>1, SetInduction
<1>4. Len(Log) \in T
  BY <1>3, ProtocolAssumption
<1> QED
  BY <1>4 DEF T

(* It.                                                                     *)
Run == CHOOSE t : RunUpto(t, Len(Log))

(* It is.                                                                  *)
LEMMA RunIs == RunUpto(Run, Len(Log))
BY RunExists DEF Run

(* What holds after k of its records: tables and connection are whole;     *)
(* requests, rows and live ones are from these records; one row for each,  *)
(* and none for a live one.                                                *)
RunTables(k) ==
  /\ HasTables(Run[k]) /\ HasRecs(Run[k]) /\ Like(Run[k].conn, Run[k].conn)
  /\ Run[k].opened \subseteq 1 .. k /\ Run[k].live \subseteq 1 .. k
  /\ OneEach(Run[k].rows)
  /\ \A q : Terminal(Run[k], q) => q \in 1 .. k /\ q \notin Run[k].live

(* It does, after each of them.                                            *)
LEMMA RunHasTables == \A k \in 0 .. Len(Log) : RunTables(k)
<1> DEFINE T == {k \in Nat : k <= Len(Log) => RunTables(k)}
<1>0. Len(Log) \in Nat
  BY ProtocolAssumption
<1>1. 0 \in T
  <2>1. Run[0] = EmptyView
    BY RunIs DEF RunUpto
  <2>2. Like(EmptyView.conn, EmptyView.conn)
    BY DEF Like, ConnFields, EmptyView, FreshConn
  <2>3. RunTables(0)
    BY <2>1, <2>2 DEF RunTables, EmptyView, HasTables, HasRecs, OneEach, Terminal, Settled
  <2> QED
    BY <2>3
<1>2. ASSUME NEW k \in T PROVE k + 1 \in T
  <2> SUFFICES ASSUME k + 1 <= Len(Log) PROVE RunTables(k + 1)
    OBVIOUS
  <2> DEFINE v == Run[k]
             w == Run[k + 1]
             p == Log[k + 1]
  <2>1. /\ HasTables(v) /\ HasRecs(v) /\ Like(v.conn, v.conn) /\ v.opened \subseteq 1 .. k
        /\ v.live \subseteq 1 .. k /\ OneEach(v.rows)
        /\ \A q : Terminal(v, q) => q \in 1 .. k /\ q \notin v.live
    BY <1>0, <1>2 DEF RunTables
  <2>2. w = Ingest(v, p)
    BY <1>0, RunIs DEF RunUpto
  <2>3. p.idx = k + 1
    BY <1>0, ProtocolAssumption
  <2> HIDE DEF v, w, p
  <2>4. Alike(v, v) /\ {"recs"} \subseteq DOMAIN v
    BY <2>1 DEF Alike, HasRecs
  <2>5. Twins(v, v, w, w, p)
    BY <2>2, <2>4, IngestTwins
  <2>6. Migrates(v, w, {k + 1})
    BY <2>1, <2>2, <2>3, IngestFollows DEF Follows
  <2>7. HasTables(w) /\ HasRecs(w) /\ Like(w.conn, w.conn)
    BY <2>1, <2>2, <2>5, IngestIndexes DEF Twins, Alike
  <2>8. w.opened \subseteq v.opened \cup {k + 1}
    BY <2>3, <2>5 DEF Twins, Opens
  <2>9. w.live \subseteq v.live \cup {k + 1} /\ OneEach(w.rows)
    BY <2>1, <2>6 DEF Migrates
  <2>10. ASSUME NEW q, Terminal(w, q) PROVE q \in 1 .. k /\ q \notin w.live
    <3>1. CASE Terminal(v, q)
      BY <2>1, <2>9, <3>1
    <3>2. CASE ~Terminal(v, q)
      <4>1. q \in v.live
        BY <2>6, <2>10, <3>2 DEF Migrates, Terminal, Settled
      <4>2. q \in 1 .. k /\ q # k + 1
        BY <2>1, <4>1
      <4> QED
        BY <2>6, <2>10, <3>2, <4>2 DEF Migrates
    <3> QED
      BY <3>1, <3>2
  <2>11. RunTables(k + 1)
    BY <2>1, <2>7, <2>8, <2>9, <2>10 DEF RunTables, w
  <2> QED
    BY <2>11
<1> HIDE DEF T
<1>3. T = Nat
  <2>1. T \in SUBSET Nat
    BY DEF T
  <2> QED
    BY <1>1, <1>2, <2>1, SetInduction
<1> QED
  BY <1>0, <1>3 DEF T

(* The run opens the request.                                              *)
Wanted(q) == q \in 1 .. Len(Log) /\ q \in Run[q].opened

(* A packet does to a view whose connection agrees with the run's what it  *)
(* does in the run.                                                        *)
LEMMA RunStep ==
  ASSUME NEW v, HasTables(v), HasRecs(v), NEW n \in 1 .. Len(Log), Like(v.conn, Run[n - 1].conn)
  PROVE  LET w == Ingest(v, Log[n])
         IN  /\ Like(w.conn, Run[n].conn)
             /\ w.opened = IF Wanted(n) THEN v.opened \cup {n} ELSE v.opened
             /\ Wanted(n) => n \in w.live
<1> DEFINE u == Run[n - 1]
           x == Ingest(v, Log[n])
           y == Ingest(u, Log[n])
<1>1. HasTables(u) /\ HasRecs(u) /\ n \notin u.opened
  <2>1. n - 1 \in 0 .. Len(Log) /\ n \notin 1 .. n - 1
    BY ProtocolAssumption
  <2> QED
    BY <2>1, RunHasTables DEF RunTables
<1>2. Log[n].idx = n
  BY ProtocolAssumption
<1>3. Alike(v, u)
  BY <1>1 DEF Alike
<1>4. y = Run[n]
  BY RunIs DEF RunUpto
<1>5. Wanted(n) <=> n \in y.opened
  BY <1>4 DEF Wanted
<1> HIDE DEF u
<1>6. Twins(v, u, x, y, Log[n])
  BY <1>1, <1>3, IngestTwins DEF HasRecs
<1> HIDE DEF x, y
<1>7. PICK asked \in BOOLEAN : Opens(v, x, Log[n], asked) /\ Opens(u, y, Log[n], asked)
  BY <1>6 DEF Twins
<1>8. Like(x.conn, Run[n].conn)
  BY <1>4, <1>6 DEF Twins, Alike
<1>9. asked <=> Wanted(n)
  BY <1>1, <1>2, <1>5, <1>7 DEF Opens
<1> QED
  BY <1>2, <1>7, <1>8, <1>9 DEF Opens, x

(* No commit fails, and no crash, nor with crashes a failure, keeps the    *)
(* watermark from following a committed batch.                             *)
Steady ==
  /\ plan.failAt \cap {"Open", "Staged", "EpochDone"} = {}
  /\ "LiveDone" \notin plan.crashAt /\ (plan.crashAt # {} => "LiveDone" \notin plan.failAt)

(* The source is read in order, so a record lies in its place in the file. *)
InPlace ==
  /\ \A n \in 1 .. Len(pipe.hot) : pipe.hot[n] = n
  /\ pipe.source = Len(pipe.hot) + 1

(* The databases know the first k requests of the run.                     *)
Kept(k) == \A q \in 1 .. k : Wanted(q) => Held(q)

(* The connection agrees with the run's, and each request the run has      *)
(* opened so far is known: to the databases, or to the transaction beside  *)
(* the older epochs. Those behind the watermark are known to the databases *)
(* whatever becomes of the transaction.                                    *)
OnTrack ==
  /\ ~Working => Like(live.conn, Run[pipe.taken].conn) /\ Kept(pipe.taken)
  /\ Working => /\ Like(txn.view.conn, Run[Upto].conn)
                /\ \A q \in 1 .. Upto : Wanted(q) => Viewed(q) \/ Older(q)
  /\ Kept(ledger.mark)

(* Where there are crashes, the databases are at the time of one where the *)
(* run is at the watermark.                                                *)
Replays ==
  plan.crashAt # {} =>
    /\ Working => Like(live.conn, Run[ledger.mark].conn)
    /\ (~Working /\ txn.stage # "LiveDone") \/ (Working /\ txn.kind = "Scan") => ledger.mark = pipe.taken

(* What is opened the run opens.                                           *)
AllWanted ==
  /\ \A q \in AllOpened : Wanted(q)
  /\ Working => \A q \in txn.view.opened : Wanted(q)

(* The part of the invariant that compares the protocol with the run.      *)
TrackInv == Steady /\ ~plan.resend => InPlace /\ OnTrack /\ Replays /\ AllWanted

(* The inductive invariant of all this.                                    *)
Whole == Facts /\ RowInv /\ TrackInv

(* It holds at the start.                                                  *)
LEMMA TrackInvInit == Init => TrackInv
<1> SUFFICES ASSUME Init PROVE InPlace /\ OnTrack /\ Replays /\ AllWanted
  BY DEF TrackInv
<1>1. /\ Len(epochs) = 1 /\ epochs[1] = EmptyEpoch /\ ~Working /\ live.conn = EmptyView.conn
      /\ pipe.taken = 0 /\ ledger.mark = 0 /\ pipe.hot = <<>> /\ pipe.source = 1
  BY DEF Init, Working, Idle, Transaction, LiveOf
<1>2. Run[0] = EmptyView
  BY RunIs DEF RunUpto
<1>3. Like(EmptyView.conn, EmptyView.conn)
  BY DEF Like, ConnFields, EmptyView, FreshConn
<1>4. AllOpened = {}
  BY <1>1 DEF AllOpened, EmptyEpoch
<1> QED
  BY <1>1, <1>2, <1>3, <1>4 DEF InPlace, OnTrack, Replays, AllWanted, Kept

(* The packet in a place of the file is the log's.                         *)
LEMMA PlaceType ==
  ASSUME Facts, InPlace
  PROVE  /\ Len(pipe.hot) <= Len(Log) /\ Len(Log) \in Nat
         /\ \A n \in 1 .. Len(pipe.hot) : PacketAt(n) = Log[n]
<1>1. Len(pipe.hot) \in Nat /\ \A n \in 1 .. Len(pipe.hot) : pipe.hot[n] \in 1 .. Len(Log)
  BY DEF Facts, Inv, Shape, PipeShape
<1>2. Len(Log) \in Nat /\ \A n \in 1 .. Len(Log) : Log[n].idx = n /\ Log[n] \in Packets
  BY ProtocolAssumption
<1>3. \A n \in 1 .. Len(pipe.hot) : n \in 1 .. Len(Log)
  BY <1>1 DEF InPlace
<1>4. Len(pipe.hot) <= Len(Log)
  <2>1. CASE Len(pipe.hot) = 0
    BY <2>1, <1>2
  <2>2. CASE Len(pipe.hot) > 0
    BY <2>2, <1>1, <1>2, <1>3
  <2> QED
    BY <1>1, <2>1, <2>2
<1>5. ASSUME NEW n \in 1 .. Len(pipe.hot) PROVE PacketAt(n) = Log[n]
  <2>1. pipe.hot[n] = n /\ Log[n].idx = n /\ Log[n] \in Packets
    BY <1>2, <1>3 DEF InPlace
  <2> QED
    BY <2>1 DEF PacketAt, Packets
<1> QED
  BY <1>2, <1>4, <1>5

(* Where a step begins.                                                    *)
Steadily == Whole /\ Steady /\ ~plan.resend

(* What a new transaction is given.                                        *)
LEMMA BegunOnTrack ==
  ASSUME Steadily, txn.stage = "Idle"
  PROVE  /\ Like(Begun.conn, Run[Upto].conn) /\ Upto = pipe.taken
         /\ \A q \in 1 .. Upto : Wanted(q) => q \in Begun.live \/ Terminal(Begun, q) \/ Older(q)
         /\ \A q \in Begun.opened : Wanted(q)
         /\ plan.crashAt # {} => ledger.mark = pipe.taken /\ Like(live.conn, Run[ledger.mark].conn)
<1>1. ~Working /\ Upto = pipe.taken /\ OnTrack /\ Replays /\ AllWanted /\ Facts
  BY DEF Steadily, Whole, TrackInv, Working, Upto
<1>2. Begun.conn = live.conn /\ Begun.live = live.live /\ Begun.opened = Last(epochs).opened
      /\ Begun.rows = epochs[Len(epochs)].rows /\ Len(epochs) \in Nat \ {0} /\ Last(epochs) = epochs[Len(epochs)]
  BY <1>1, BegunTables, EpochsAre DEF Begun, Facts
<1>3. ASSUME NEW q \in 1 .. Upto, Wanted(q) PROVE q \in Begun.live \/ Terminal(Begun, q) \/ Older(q)
  <2>1. q \in live.live \/ Present(epochs, q)
    BY <1>1, <1>3 DEF OnTrack, Kept, Held
  <2>2. ASSUME NEW n \in 1 .. Len(epochs), Rowed(epochs[n], q) PROVE Terminal(Begun, q) \/ Older(q)
    <3>1. CASE n = Len(epochs)
      BY <1>2, <2>2, <3>1 DEF Terminal, Settled, Rowed
    <3>2. CASE n < Len(epochs)
      BY <2>2, <3>2 DEF Older
    <3> QED
      BY <1>2, <3>1, <3>2
  <2> QED
    BY <1>2, <2>1, <2>2 DEF Present
<1>4. \A q \in Begun.opened : q \in AllOpened
  BY <1>2 DEF AllOpened
<1> QED
  BY <1>1, <1>2, <1>3, <1>4, UptoType DEF OnTrack, Replays, AllWanted

(* A transaction that begins or goes on keeps it, if its connection stays  *)
(* with the run's and the requests are opened that the run opens.          *)
LEMMA TrackMoves ==
  ASSUME Steadily, NEW v, NEW w, NEW new, Follows(v, w, new), Upto \in Nat, Upto' \in Nat,
         Like(w.conn, Run[Upto'].conn),
         \A q \in 1 .. Upto : Wanted(q) => q \in v.live \/ Terminal(v, q) \/ Older(q),
         \A q \in 1 .. Upto' : Wanted(q) => q \in 1 .. Upto \/ q \in w.live,
         \A q \in w.opened : Wanted(q),
         plan.crashAt # {} => /\ Like(live.conn, Run[ledger.mark].conn)
                              /\ txn'.kind = "Scan" => ledger.mark = pipe'.taken,
         InPlace',
         txn'.view = w, txn'.stage \in {"Open", "Staged"},
         UNCHANGED <<live, epochs, ledger, plan>>
  PROVE  TrackInv'
<1>1. Migrates(v, w, new)
  BY DEF Follows
<1>2. ASSUME NEW q \in 1 .. Upto', Wanted(q) PROVE Viewed(q)' \/ Older(q)'
  <2>1. CASE q \in w.live
    BY <2>1 DEF Viewed
  <2>2. CASE q \in 1 .. Upto
    <3>1. q \in v.live \/ Terminal(v, q) \/ Older(q)
      BY <1>2, <2>2
    <3> QED
      BY <3>1, <1>1 DEF Migrates, Viewed, Older, Terminal, Settled
  <2> QED
    BY <1>2, <2>1, <2>2
<1>3. Working'
  BY DEF Working
<1>4. Kept(ledger.mark) /\ \A q : Held(q)' <=> Held(q)
  BY DEF Steadily, Whole, TrackInv, OnTrack, Held
<1>5. OnTrack'
  BY <1>2, <1>3, <1>4 DEF OnTrack, Kept
<1>6. Replays'
  BY <1>3 DEF Replays
<1>7. AllWanted'
  BY DEF AllWanted, AllOpened, Steadily, Whole, TrackInv
<1> QED
  BY <1>5, <1>6, <1>7 DEF TrackInv

(* A batch is taken.                                                       *)
LEMMA FlushTrack == ASSUME Steadily, Flush PROVE TrackInv'
<1>1. /\ txn' = Transaction("Open", "Batch", Begun) /\ UNCHANGED <<live, epochs, ledger, plan>>
      /\ txn.stage = "Idle" /\ pipe' = [pipe EXCEPT !.taken = Appended, !.matched = pipe.taken]
  BY DEF Flush
<1>2. txn'.view = Begun /\ txn'.stage = "Open" /\ txn'.kind = "Batch"
  BY <1>1 DEF Transaction
<1>3. Facts /\ InPlace
  BY DEF Steadily, Whole, TrackInv
<1>4. Upto' = Upto /\ Upto \in Nat /\ InPlace'
  BY <1>1, <1>2, <1>3, UptoType DEF Upto, InPlace
<1>5. Follows(Begun, Begun, {})
  BY <1>3, BegunTables, KeepsFollows DEF Keeps
<1> HIDE DEF Begun
<1> QED
  BY <1>1, <1>2, <1>4, <1>5, BegunOnTrack, TrackMoves

(* A scan leaves the connection as it is but for the count.                *)
LEMMA ScanTrack == ASSUME Steadily, NEW now, Scan(now) PROVE TrackInv'
<1>1. /\ txn' = Transaction("Staged", "Scan", ScanPendingTtl(Begun, now))
      /\ UNCHANGED <<live, epochs, ledger, plan, pipe>> /\ txn.stage = "Idle"
  BY DEF Scan
<1> DEFINE w == ScanPendingTtl(Begun, now)
<1>2. txn'.view = w /\ txn'.stage = "Staged"
  BY <1>1 DEF Transaction
<1>3. Facts /\ InPlace
  BY DEF Steadily, Whole, TrackInv
<1>4. Upto' = Upto /\ Upto \in Nat /\ InPlace'
  BY <1>1, <1>2, <1>3, UptoType DEF Upto, InPlace
<1>5. Follows(Begun, w, {}) /\ HasTables(Begun)
  BY <1>3, BegunTables, ScanFollows
<1> HIDE DEF Begun
<1>6. w.opened = Begun.opened /\ \E k : w.conn = [Begun.conn EXCEPT !.open = k]
  BY <1>5 DEF ScanPendingTtl, HasTables
<1> HIDE DEF w
<1>7. Like(Begun.conn, Run[Upto].conn) => Like(w.conn, Run[Upto].conn)
  BY <1>6 DEF Like, ConnFields
<1> QED
  BY <1>1, <1>2, <1>4, <1>5, <1>6, <1>7, BegunOnTrack, TrackMoves

(* A packet is matched as the run matches it.                              *)
LEMMA IngestTrack == ASSUME Steadily, IngestNext PROVE TrackInv'
<1> DEFINE n == pipe.matched + 1
           v == txn.view
           w == txn'.view
           x == Ingest(v, Log[n])
<1>0. Facts /\ InPlace /\ OnTrack /\ Replays /\ AllWanted
  BY DEF Steadily, Whole, TrackInv
<1>1. /\ txn.stage = "Open" /\ pipe' = [pipe EXCEPT !.matched = n] /\ pipe.matched < pipe.taken
      /\ pipe.taken \in Nat /\ Upto = pipe.matched /\ Upto \in Nat /\ n \in 1 .. Len(pipe.hot)
  BY <1>0, UptoType DEF IngestNext
<1>2. PacketAt(n) = Log[n] /\ n \in 1 .. Len(Log)
  BY <1>0, <1>1, PlaceType
<1>3. txn'.kind = "Batch" /\ txn'.stage = (IF n = pipe.taken THEN "Staged" ELSE "Open")
  BY <1>0, <1>1, UptoType DEF IngestNext, Transaction
<1>4. Upto' = n /\ InPlace'
  BY <1>0, <1>1, <1>3, UptoType DEF Upto, InPlace
<1>5. /\ Working /\ Ongoing /\ txn'.stage \in {"Open", "Staged"} /\ UNCHANGED <<live, epochs, ledger, plan>>
      /\ HasTables(v) /\ HasRecs(v) /\ (w = x \/ w = Writeback(x))
  BY <1>0, <1>2, NextPacket
<1>6. Follows(v, w, {n})
  BY <1>0, NextFollows
<1>7. /\ Like(x.conn, Run[n].conn) /\ x.opened = (IF Wanted(n) THEN v.opened \cup {n} ELSE v.opened)
      /\ Wanted(n) => n \in x.live
  <2>1. Like(v.conn, Run[n - 1].conn)
    BY <1>0, <1>1, <1>5 DEF OnTrack
  <2> QED
    BY <1>2, <1>5, <2>1, RunStep
<1>8. HasTables(x)
  BY <1>5, IngestFollows DEF Follows, Migrates
<1>9. txn'.view = w
  OBVIOUS
<1> HIDE DEF x, w
<1>10. Like(w.conn, Run[n].conn) /\ w.opened = x.opened /\ w.live = x.live
  <2>1. CASE w = x
    BY <1>7, <2>1
  <2>2. CASE w = Writeback(x)
    <3>1. w.opened = x.opened /\ w.live = x.live /\ \E k : w.conn = [x.conn EXCEPT !.open = k]
      BY <1>8, <2>2 DEF Writeback, HasTables
    <3> QED
      BY <1>7, <3>1 DEF Like, ConnFields
  <2> QED
    BY <1>5, <2>1, <2>2
<1>11. \A q \in 1 .. n : Wanted(q) => q \in 1 .. Upto \/ q \in w.live
  BY <1>1, <1>7, <1>10
<1>12. \A q \in 1 .. Upto : Wanted(q) => q \in v.live \/ Terminal(v, q) \/ Older(q)
  BY <1>0, <1>5 DEF OnTrack, Viewed
<1>13. \A q \in w.opened : Wanted(q)
  BY <1>0, <1>5, <1>7, <1>10 DEF AllWanted
<1>14. plan.crashAt # {} => Like(live.conn, Run[ledger.mark].conn)
  BY <1>0, <1>5 DEF Replays
<1>15. n \in Nat
  BY <1>1
<1> HIDE DEF n, v
<1> QED
  BY <1>1, <1>3, <1>4, <1>5, <1>6, <1>9, <1>10, <1>11, <1>12, <1>13, <1>14, <1>15, TrackMoves

(* The parts of this.                                                      *)
LEMMA SteadilyHas ==
  ASSUME Steadily
  PROVE  Facts /\ RowInv /\ InPlace /\ OnTrack /\ Replays /\ AllWanted /\ Steady
BY DEF Steadily, Whole, TrackInv

(* The epoch is committed.                                                 *)
LEMMA CommitEpochTrack == ASSUME Steadily, CommitEpoch PROVE TrackInv'
<1> DEFINE k == Len(epochs)
<1>0. Facts /\ RowInv /\ InPlace /\ OnTrack /\ Replays /\ AllWanted
  BY SteadilyHas
<1>1. /\ txn.stage = "Staged" /\ txn' = [txn EXCEPT !.stage = "EpochDone"]
      /\ UNCHANGED <<live, ledger, plan, pipe>> /\ epochs' = [epochs EXCEPT ![k] = EpochOf(txn.view)]
  BY DEF CommitEpoch
<1>2. txn'.stage = "EpochDone" /\ txn'.view = txn.view /\ txn'.kind = txn.kind
  BY <1>0, <1>1, UptoType DEF RowInv
<1>3. /\ Len(epochs') = k /\ k \in Nat \ {0} /\ epochs'[k].opened = txn.view.opened
      /\ \A n \in 1 .. k : n < k => epochs'[n] = epochs[n]
  BY <1>0, <1>1, EpochsAre, ListCommitted DEF Facts, EpochOf
<1>4. Grows(epochs, epochs')
  BY <1>0, CommitEpochStory
<1>5. Working /\ Working' /\ Upto' = Upto /\ \A q : Viewed(q)' <=> Viewed(q)
  BY <1>1, <1>2 DEF Working, Upto, Viewed, Terminal, Settled
<1>6. \A q : (Older(q)' <=> Older(q)) /\ (Held(q) => Held(q)')
  BY <1>1, <1>3, <1>4 DEF Older, Held, Present, Rowed, Grows
<1>7. OnTrack'
  BY <1>0, <1>1, <1>2, <1>5, <1>6 DEF OnTrack, Kept
<1>8. Replays'
  BY <1>0, <1>1, <1>2, <1>5 DEF Replays
<1>9. AllWanted'
  <2>1. \A q \in AllOpened' : q \in AllOpened \/ q \in txn.view.opened
    <3> SUFFICES ASSUME NEW n \in 1 .. k, NEW q \in epochs'[n].opened PROVE q \in AllOpened \/ q \in txn.view.opened
      BY <1>3 DEF AllOpened
    <3>1. CASE n = k
      BY <3>1, <1>3
    <3>2. CASE n < k
      BY <3>2, <1>3 DEF AllOpened
    <3> QED
      BY <3>1, <3>2, <1>3
  <2> QED
    BY <1>0, <1>2, <1>5, <2>1 DEF AllWanted
<1>10. InPlace'
  BY <1>0, <1>1 DEF InPlace
<1> QED
  BY <1>7, <1>8, <1>9, <1>10 DEF TrackInv

(* With the live database committed all the transaction knew is known to   *)
(* both.                                                                   *)
LEMMA CommitLiveTrack == ASSUME Steadily, CommitLive PROVE TrackInv'
<1>0. Facts /\ RowInv /\ InPlace /\ OnTrack /\ Replays /\ AllWanted /\ Steady
  BY SteadilyHas
<1>1. /\ txn.stage = "EpochDone" /\ UNCHANGED <<epochs, ledger, plan, pipe>> /\ live' = LiveOf(txn.view)
      /\ txn' = [txn EXCEPT !.stage = IF txn.kind = "Scan" THEN "MarkDone" ELSE "LiveDone"]
  BY DEF CommitLive
<1>2. /\ txn'.stage = (IF txn.kind = "Scan" THEN "MarkDone" ELSE "LiveDone")
      /\ txn'.kind = txn.kind
  BY <1>0, <1>1, UptoType DEF RowInv
<1>3. live'.live = txn.view.live /\ live'.conn = txn.view.conn /\ Ongoing /\ txn.view.rows = Last(epochs).rows
  BY <1>0, <1>1, CommitLiveStory DEF LiveOf
<1>4. Working /\ ~Working' /\ Upto = pipe.taken /\ ledger.mark <= Upto /\ ledger.mark \in Nat /\ Upto \in Nat
  BY <1>0, <1>1, <1>2, UptoType DEF Working
<1>5. Last(epochs) = epochs[Len(epochs)] /\ Len(epochs) \in Nat \ {0}
  BY <1>0, EpochsAre DEF Facts
<1>6. \A q : Viewed(q) \/ Older(q) => Held(q)'
  BY <1>1, <1>3, <1>5 DEF Viewed, Older, Held, Present, Rowed, Terminal, Settled
<1>7. \A q \in 1 .. pipe.taken : Wanted(q) => Held(q)'
  BY <1>0, <1>4, <1>6 DEF OnTrack
<1>8. OnTrack'
  BY <1>0, <1>1, <1>3, <1>4, <1>7 DEF OnTrack, Kept
<1>9. Replays'
  BY <1>0, <1>1, <1>2, <1>4 DEF Replays
<1>10. InPlace' /\ AllWanted'
  BY <1>0, <1>1, <1>4 DEF InPlace, AllWanted, AllOpened
<1> QED
  BY <1>8, <1>9, <1>10 DEF TrackInv

(* A new epoch forgets nothing.                                            *)
LEMMA RotateTrack == ASSUME Steadily, RotateEpoch PROVE TrackInv'
<1>0. Facts /\ RowInv /\ InPlace /\ OnTrack /\ Replays /\ AllWanted
  BY SteadilyHas
<1>1. /\ epochs' = Append(epochs, EmptyEpoch) /\ txn.stage = "Idle"
      /\ UNCHANGED <<live, ledger, pipe, txn, plan>>
  BY DEF RotateEpoch
<1>2. /\ Len(epochs) \in Nat /\ Len(epochs') = Len(epochs) + 1
      /\ \A n \in 1 .. Len(epochs) : epochs'[n] = epochs[n]
      /\ epochs'[Len(epochs) + 1] = EmptyEpoch
  BY <1>0, <1>1, EpochsAre, ListRotated DEF Facts
<1>3. \A q : Held(q) => Held(q)'
  BY <1>1, <1>2 DEF Held, Present
<1>4. \A q \in AllOpened' : q \in AllOpened
  <2> SUFFICES ASSUME NEW n \in 1 .. Len(epochs'), NEW q \in epochs'[n].opened PROVE q \in AllOpened
    BY DEF AllOpened
  <2>1. n # Len(epochs) + 1
    BY <1>2 DEF EmptyEpoch
  <2> QED
    BY <1>2, <2>1 DEF AllOpened
<1>5. ~Working /\ ~Working'
  BY <1>1 DEF Working
<1> QED
  BY <1>0, <1>1, <1>3, <1>4, <1>5 DEF TrackInv, InPlace, OnTrack, Kept, Replays, AllWanted

(* A crash goes back to the watermark, where the live database still is.   *)
LEMMA CrashTrack == ASSUME Steadily, Crash PROVE TrackInv'
<1>0. Facts /\ RowInv /\ InPlace /\ OnTrack /\ Replays /\ AllWanted /\ Steady /\ ~plan.resend
  BY SteadilyHas DEF Steadily
<1>1. /\ txn.stage \in plan.crashAt /\ UNCHANGED <<live, epochs, ledger>> /\ txn' = Idle
      /\ pipe' = [hot |-> SubSeq(pipe.hot, 1, ledger.mark), source |-> ledger.mark + 1,
              taken |-> ledger.mark, matched |-> ledger.mark]
  BY <1>0 DEF Crash
<1>2. ~Working' /\ txn'.stage = "Idle" /\ plan'.crashAt = plan.crashAt
  BY <1>0, <1>1, OtherStory DEF Idle, Transaction, Working, Otherwise
<1>3. txn.stage # "LiveDone" /\ plan.crashAt # {}
  BY <1>0, <1>1 DEF Steady
<1>4. Like(live.conn, Run[ledger.mark].conn) /\ Kept(ledger.mark)
  BY <1>0, <1>3 DEF OnTrack, Replays
<1>5. OnTrack' /\ Replays'
  BY <1>1, <1>2, <1>4 DEF OnTrack, Replays, Kept, Held
<1>6. AllWanted'
  BY <1>0, <1>1, <1>2 DEF AllWanted, AllOpened
<1>7. InPlace'
  <2>1. pipe.hot \in Seq(1 .. Len(Log)) /\ ledger.mark \in Nat /\ ledger.mark <= Len(pipe.hot)
    BY <1>0, UptoType DEF Facts, Inv, Shape, PipeShape
  <2>2. Len(pipe'.hot) = ledger.mark /\ \A n \in 1 .. ledger.mark : pipe'.hot[n] = pipe.hot[n]
    BY <1>1, <2>1, SubSeqProperties
  <2> QED
    BY <1>0, <1>1, <2>1, <2>2 DEF InPlace
<1> QED
  BY <1>5, <1>6, <1>7 DEF TrackInv

(* The other steps.                                                        *)
LEMMA RestTrack ==
  ASSUME Steadily, Otherwise, ~Crash
  PROVE  TrackInv'
<1>0. Facts /\ RowInv /\ InPlace /\ OnTrack /\ Replays /\ AllWanted /\ Steady
  BY SteadilyHas
<1>1. /\ UNCHANGED <<live, epochs>> /\ plan'.crashAt = plan.crashAt /\ \A q : Held(q)' <=> Held(q)
  BY <1>0, OtherStory DEF Held
<1>2. CASE Push \/ OpenRegistry \/ Build
  <2>1. /\ UNCHANGED <<txn, ledger>>
        /\ pipe'.taken = pipe.taken /\ pipe'.matched = pipe.matched
    BY <1>0, <1>2, UptoType DEF Push, OpenRegistry, Build, SnapshotLive, SnapshotEpoch, ListEpochs
  <2>2. Upto' = Upto /\ (Working' <=> Working)
    BY <2>1 DEF Upto, Working
  <2>3. InPlace'
    <3>1. CASE Push
      <4>1. pipe'.hot = Append(pipe.hot, pipe.source) /\ pipe'.source = pipe.source + 1
        BY <1>0, <3>1, UptoType DEF Push
      <4>2. pipe.hot \in Seq(1 .. Len(Log)) /\ pipe.source \in 1 .. Len(Log)
        BY <1>0, <3>1, ProtocolAssumption DEF Push, Facts, Inv, Shape, PipeShape
      <4>3. Len(pipe'.hot) = Len(pipe.hot) + 1 /\ pipe'.hot[Len(pipe.hot) + 1] = pipe.source
            /\ Len(pipe.hot) \in Nat /\ \A n \in 1 .. Len(pipe.hot) : pipe'.hot[n] = pipe.hot[n]
        BY <4>1, <4>2
      <4> QED
        BY <1>0, <4>1, <4>3 DEF InPlace
    <3>2. CASE pipe' = pipe
      BY <1>0, <3>2 DEF InPlace
    <3> QED
      BY <1>2, <3>1, <3>2 DEF OpenRegistry, Build, SnapshotLive, SnapshotEpoch, ListEpochs
  <2> QED
    BY <1>0, <1>1, <2>1, <2>2, <2>3 DEF TrackInv, OnTrack, Kept, Replays, AllWanted, AllOpened, Viewed, Older
<1>3. CASE AdvanceWatermark
  <2>1. /\ txn.stage = "LiveDone" /\ txn'.stage = "MarkDone" /\ UNCHANGED pipe
        /\ ledger'.mark = MaxOf(ledger.mark, pipe.taken)
    BY <1>0, <1>3, UptoType DEF AdvanceWatermark, Facts, Story, Fields
  <2>2. ~Working /\ ~Working' /\ ledger'.mark = pipe.taken
    BY <1>0, <2>1, UptoType DEF Working, MaxOf
  <2> QED
    BY <1>0, <1>1, <2>1, <2>2 DEF TrackInv, InPlace, OnTrack, Kept, Replays, AllWanted, AllOpened
<1>4. CASE InsertAnomalies \/ UpsertMeta \/ UpsertArchive \/ Fail
  <2>1. /\ UNCHANGED pipe /\ ledger'.mark = ledger.mark
        /\ txn.stage \notin {"Open", "Staged", "EpochDone"} /\ (plan.crashAt # {} => txn.stage # "LiveDone")
        /\ txn'.stage \notin {"Open", "Staged", "EpochDone", "LiveDone"}
    BY <1>0, <1>4, LedgerStepRests DEF InsertAnomalies, UpsertMeta, UpsertArchive, Fail, Facts, Story, Fields,
       Steady, Idle, Transaction
  <2>2. ~Working /\ ~Working'
    BY <2>1 DEF Working
  <2> QED
    BY <1>0, <1>1, <2>1, <2>2 DEF TrackInv, InPlace, OnTrack, Kept, Replays, AllWanted, AllOpened
<1> QED
  BY <1>2, <1>3, <1>4 DEF Otherwise

(* Every step keeps it.                                                    *)
LEMMA TrackInvNext == ASSUME Whole, [Next]_vars PROVE TrackInv'
<1>1. plan'.crashAt = plan.crashAt /\ plan'.failAt = plan.failAt /\ plan'.resend = plan.resend
  <2>1. Facts /\ RowInv
    BY DEF Whole
  <2>2. plan'.resend = plan.resend
    <3>1. CASE Otherwise
      BY <2>1, <3>1, OtherStory
    <3>2. CASE ~Otherwise
      BY <3>2 DEF Otherwise, Next, IngestThread, CommitStep, Flush, IngestNext, Scan, CommitEpoch, CommitLive,
              RotateEpoch, vars
    <3> QED
      BY <3>1, <3>2
  <2> QED
    BY <2>1, <2>2, PlanKept
<1>2. CASE ~(Steady /\ ~plan.resend)
  BY <1>1, <1>2 DEF TrackInv, Steady
<1>3. CASE Steadily /\ UNCHANGED vars
  BY <1>3 DEF vars, Steadily, Whole, TrackInv, Steady, InPlace, OnTrack, Kept, Replays, AllWanted, AllOpened,
     Working, Upto, Viewed, Older, Held
<1>4. CASE Steadily /\ Next
  BY <1>4, FlushTrack, IngestTrack, CommitEpochTrack, CommitLiveTrack, RotateTrack, ScanTrack, CrashTrack, RestTrack
     DEF Next, IngestThread, CommitStep, Otherwise
<1> QED
  BY <1>2, <1>3, <1>4 DEF Steadily

(* A request that was opened is never lost behind the watermark, if no     *)
(* database commit fails and the watermark is not left behind a committed  *)
(* batch: it is live or has its row (QrMatcher::commit, and the replay     *)
(* from load_watermark).                                                   *)
THEOREM LimboTheorem == Spec => [](Steady => NoRequestInLimbo)
<1>1. Whole => (Steady => NoRequestInLimbo)
  <2> SUFFICES ASSUME Whole, Steady, ~plan.resend, NEW q \in AllOpened, q \notin live.live, EpochsWith(q) = {}
               PROVE  q > ledger.mark
    BY DEF NoRequestInLimbo
  <2>1. Wanted(q) /\ Kept(ledger.mark) /\ ledger.mark \in Nat
    BY MarkType DEF Whole, TrackInv, AllWanted, OnTrack
  <2>2. q \in Nat /\ q >= 1
    BY <2>1, ProtocolAssumption DEF Wanted
  <2>3. ~Held(q)
    BY DEF Held, Present, EpochsWith, Rowed
  <2> QED
    BY <2>1, <2>2, <2>3 DEF Kept
<1>2. Init => Whole
  BY FactsInit, RowInvInit, TrackInvInit DEF Whole
<1>3. Whole /\ [Next]_vars => Whole'
  BY FactsNext, RowInvNext, TrackInvNext DEF Whole
<1> QED
  BY <1>1, <1>2, <1>3, PTL DEF Spec

-----------------------------------------------------------------------------
(***************************************************************************)
(* And its tables. Beside the rows, which a replay may find written        *)
(* already, what an operator does depends on the connection and the        *)
(* pending requests; a row it would write a second time is the row there   *)
(* is, since in the run each request has one.                              *)
(***************************************************************************)
(* No live request has its row.                                            *)
Fresh(w) == \A q \in w.live : ~Terminal(w, q)

(* The view v against the run's view w: the same connection but for the    *)
(* count, the same live requests, pending rows and timeouts; its rows are  *)
(* among all, and it lacks none of the run's but those in older epochs.    *)
Mirrors(v, w, all, older) ==
  /\ Alike(v, w) /\ {"ttl"} \subseteq DOMAIN v /\ {"ttl"} \subseteq DOMAIN w
  /\ v.live = w.live /\ v.pend = w.pend /\ v.ttl = w.ttl
  /\ v.rows \subseteq all /\ w.rows \subseteq v.rows \cup older

(* Nothing of this changes but the connection.                             *)
Bare(v, x) ==
  /\ {"ttl"} \subseteq DOMAIN x
  /\ x.live = v.live /\ x.pend = v.pend /\ x.ttl = v.ttl /\ x.rows = v.rows

(* Then v and w stay as they are to each other, if the connections do.     *)
LEMMA BareMirrors ==
  ASSUME NEW all, NEW older, NEW v, NEW w, Mirrors(v, w, all, older),
         NEW x, NEW y, Bare(v, x), Bare(w, y), Alike(x, y)
  PROVE  Mirrors(x, y, all, older) /\ (Fresh(w) => Fresh(y))
BY DEF Mirrors, Bare, Fresh, Terminal, Settled

(* The view becomes x by settling these hits, and in its connection.       *)
Settles(v, x, hits, rows) == Bare(Settle(v, hits, rows), x)

(* Settle removes the same from both. A row that v has already is the one  *)
(* the run writes now, for each request has one row among all.             *)
LEMMA SettleMirrors ==
  ASSUME NEW all, OneEach(all), NEW older, NEW v, NEW w, Mirrors(v, w, all, older), Fresh(w),
         NEW hits, NEW rows, \A r \in rows : \E h \in hits : r.q = h.q,
         NEW x, NEW y, Settles(v, x, hits, rows), Settles(w, y, hits, rows), Alike(x, y),
         y.rows \subseteq all
  PROVE  Mirrors(x, y, all, older) /\ Fresh(y)
<1> DEFINE qs == {h.q : h \in hits}
           gone == {h.ts : h \in hits}
           added(u) == {r \in rows : r.q \in u.live /\ ~Terminal(u, r.q)}
<1>1. /\ x.live = v.live \ qs /\ x.pend = v.pend \ hits /\ x.ttl = {t \in v.ttl : t.ts \notin gone}
      /\ x.rows = v.rows \cup added(v)
  BY DEF Settles, Bare, Settle, Mirrors, Alike, HasTables
<1>2. /\ y.live = w.live \ qs /\ y.pend = w.pend \ hits /\ y.ttl = {t \in w.ttl : t.ts \notin gone}
      /\ y.rows = w.rows \cup added(w)
  BY DEF Settles, Bare, Settle, Mirrors, Alike, HasTables
<1>3. v.live = w.live /\ v.pend = w.pend /\ v.ttl = w.ttl /\ v.rows \subseteq all /\ w.rows \subseteq v.rows \cup older
  BY DEF Mirrors
<1>4. added(v) \subseteq added(w)
  BY <1>3 DEF Fresh
<1>5. x.rows \subseteq all
  BY <1>1, <1>2, <1>3, <1>4
<1>6. ASSUME NEW r \in added(w) PROVE r \in x.rows
  <2>1. CASE Terminal(v, r.q)
    <3>1. PICK s \in v.rows : s.q = r.q
      BY <2>1 DEF Terminal, Settled
    <3>2. s = r
      BY <1>2, <1>3, <1>6, <3>1 DEF OneEach
    <3> QED
      BY <1>1, <3>1, <3>2
  <2>2. CASE ~Terminal(v, r.q)
    BY <1>1, <1>3, <1>6, <2>2
  <2> QED
    BY <2>1, <2>2
<1>7. y.rows \subseteq x.rows \cup older
  BY <1>1, <1>2, <1>3, <1>6
<1>8. Fresh(y)
  <2> SUFFICES ASSUME NEW q \in y.live, NEW r \in y.rows, r.q = q PROVE FALSE
    BY DEF Fresh, Terminal, Settled
  <2>1. r \notin w.rows
    BY <1>2 DEF Fresh, Terminal, Settled
  <2>2. q \in qs
    BY <1>2, <2>1
  <2> QED
    BY <1>2, <2>2
<1>9. x.live = y.live /\ x.pend = y.pend /\ x.ttl = y.ttl
  BY <1>1, <1>2, <1>3
<1>10. {"ttl"} \subseteq DOMAIN x /\ {"ttl"} \subseteq DOMAIN y
  BY DEF Settles, Bare
<1> HIDE DEF qs, gone, added
<1> QED
  BY <1>5, <1>7, <1>8, <1>9, <1>10 DEF Mirrors

(* A reset and an epoch's flip.                                            *)
LEMMA CascadeMirrors ==
  ASSUME NEW all, OneEach(all), NEW older, NEW v, NEW w, Mirrors(v, w, all, older), Fresh(w), NEW p, NEW dir
  PROVE  /\ RstCascade(w, p).rows \subseteq all => Mirrors(RstCascade(v, p), RstCascade(w, p), all, older)
         /\ FlipEpoch(w, p, dir).rows \subseteq all =>
              /\ Mirrors(FlipEpoch(v, p, dir), FlipEpoch(w, p, dir), all, older)
              /\ Fresh(FlipEpoch(w, p, dir))
<1> DEFINE hits == AllPending(v)
           R == EndedRows(hits, "RstAbort", p)
           F == EndedRows(hits, "Unmatched", p)
<1>1. hits = AllPending(w)
  BY DEF Mirrors, Alike, Like, AllPending
<1>2. /\ \A r \in R : \E h \in hits : r.q = h.q
      /\ \A r \in F : \E h \in hits : r.q = h.q
  BY DEF EndedRows, Row
<1>3. /\ Alike(RstCascade(v, p), RstCascade(w, p))
      /\ Alike(FlipEpoch(v, p, dir), FlipEpoch(w, p, dir))
  BY CascadeAlike DEF Mirrors
<1>4. \A u : {"ttl"} \subseteq DOMAIN u /\ HasTables(u) /\ AllPending(u) = hits =>
        /\ Settles(u, RstCascade(u, p), hits, R)
        /\ Settles(u, FlipEpoch(u, p, dir), hits, F)
  <2> SUFFICES ASSUME NEW u, {"ttl"} \subseteq DOMAIN u, HasTables(u), AllPending(u) = hits
               PROVE  Settles(u, RstCascade(u, p), hits, R) /\ Settles(u, FlipEpoch(u, p, dir), hits, F)
    OBVIOUS
  <2> DEFINE a == Audited(Settle(u, hits, R), hits, "RstAbort")
             b == Audited(Settle(u, hits, F), hits, "Unmatched")
  <2>1. RstCascade(u, p) = [a EXCEPT !.conn.state = "Reset"]
    BY DEF RstCascade
  <2>2. FlipEpoch(u, p, dir) = [b EXCEPT !.conn = Rebirth(@, p, dir)]
    BY DEF FlipEpoch
  <2> HIDE DEF hits, R, F
  <2>3. Bare(Settle(u, hits, R), a) /\ HasTables(a)
    BY DEF Settle, Audited, Bare, HasTables
  <2>4. Bare(Settle(u, hits, F), b) /\ HasTables(b)
    BY DEF Settle, Audited, Bare, HasTables
  <2> HIDE DEF a, b
  <2>5. \A c : /\ [a EXCEPT !.conn = c].live = a.live /\ [a EXCEPT !.conn = c].pend = a.pend
               /\ [a EXCEPT !.conn = c].ttl = a.ttl /\ [a EXCEPT !.conn = c].rows = a.rows
               /\ DOMAIN [a EXCEPT !.conn = c] = DOMAIN a
    BY <2>3 DEF Bare, HasTables
  <2>6. \A c : /\ [b EXCEPT !.conn = c].live = b.live /\ [b EXCEPT !.conn = c].pend = b.pend
               /\ [b EXCEPT !.conn = c].ttl = b.ttl /\ [b EXCEPT !.conn = c].rows = b.rows
               /\ DOMAIN [b EXCEPT !.conn = c] = DOMAIN b
    BY <2>4 DEF Bare, HasTables
  <2> QED
    BY <2>1, <2>2, <2>3, <2>4, <2>5, <2>6 DEF Settles, Bare
<1>5. /\ Settles(v, RstCascade(v, p), hits, R) /\ Settles(w, RstCascade(w, p), hits, R)
      /\ Settles(v, FlipEpoch(v, p, dir), hits, F) /\ Settles(w, FlipEpoch(w, p, dir), hits, F)
  BY <1>1, <1>4 DEF Mirrors, Alike
<1> HIDE DEF hits, R, F
<1> QED
  BY <1>2, <1>3, <1>5, SettleMirrors

(* open_q: the same keys are free.                                         *)
LEMMA OpenQMirrors ==
  ASSUME NEW all, NEW older, NEW v, NEW w, Mirrors(v, w, all, older), NEW p, NEW end
  PROVE  Mirrors(OpenQ(v, p, end), OpenQ(w, p, end), all, older)
<1>1. Alike(OpenQ(v, p, end), OpenQ(w, p, end))
  BY OpenQAlike DEF Mirrors
<1>2. \A u : {"ttl"} \subseteq DOMAIN u /\ HasTables(u) => Bare(u, Bind(u, p)) /\ HasTables(Bind(u, p))
  BY DEF Bind, Bare, HasTables
<1> DEFINE put(u) == IF \E h \in u.pend : h.inc = u.conn.inc /\ h.end = end THEN u.pend
                     ELSE u.pend \cup {[inc |-> u.conn.inc, end |-> end, q |-> p.idx, ts |-> p.ts]}
           wait(u) == IF \E t \in u.ttl : t.ts = p.ts THEN u.ttl ELSE u.ttl \cup {[ts |-> p.ts, q |-> p.idx]}
<1>3. ASSUME NEW u, {"ttl"} \subseteq DOMAIN u, HasTables(u), NEW x, x = OpenQ(u, p, end)
      PROVE  /\ {"ttl"} \subseteq DOMAIN x /\ x.live = u.live \cup {p.idx} /\ x.pend = put(u) /\ x.ttl = wait(u)
             /\ x.rows = u.rows
  <2> DEFINE b == Bind(u, p)
  <2>1. Bare(u, b) /\ HasTables(b)
    BY <1>2, <1>3
  <2>2. x = [b EXCEPT !.live = b.live \cup {p.idx},
                      !.pend = IF \E h \in b.pend : h.inc = u.conn.inc /\ h.end = end THEN b.pend
                               ELSE b.pend \cup {[inc |-> u.conn.inc, end |-> end, q |-> p.idx, ts |-> p.ts]},
                      !.ttl = IF \E t \in b.ttl : t.ts = p.ts THEN b.ttl
                              ELSE b.ttl \cup {[ts |-> p.ts, q |-> p.idx]},
                      !.opened = b.opened \cup {p.idx}]
    BY <1>3, <2>1 DEF OpenQ, HasTables, Bare
  <2> HIDE DEF b
  <2> QED
    BY <2>1, <2>2 DEF HasTables, Bare
<1>4. put(v) = put(w) /\ wait(v) = wait(w)
  BY DEF Mirrors, Alike, Like
<1> DEFINE x == OpenQ(v, p, end)
           y == OpenQ(w, p, end)
<1>5. /\ {"ttl"} \subseteq DOMAIN x /\ x.live = v.live \cup {p.idx} /\ x.pend = put(v) /\ x.ttl = wait(v)
      /\ x.rows = v.rows
      /\ {"ttl"} \subseteq DOMAIN y /\ y.live = w.live \cup {p.idx} /\ y.pend = put(w) /\ y.ttl = wait(w)
      /\ y.rows = w.rows
  BY <1>3 DEF Mirrors, Alike
<1> HIDE DEF put, wait, x, y
<1>6. Mirrors(x, y, all, older)
  BY <1>1, <1>4, <1>5 DEF Mirrors, x, y
<1> QED
  BY <1>6 DEF x, y

(* consume_r.                                                              *)
LEMMA ConsumeMirrors ==
  ASSUME NEW all, OneEach(all), NEW older, NEW v, NEW w, Mirrors(v, w, all, older), Fresh(w), NEW p, NEW ack,
         ConsumeR(w, p, ack).rows \subseteq all
  PROVE  Mirrors(ConsumeR(v, p, ack), ConsumeR(w, p, ack), all, older)
<1> DEFINE hits == PendingUpto(v, ack + AckTol)
           M == {Row(h.q, "Matched", p.idx, Aggregate(hits, h.q)) : h \in hits}
<1>1. hits = PendingUpto(w, ack + AckTol)
  BY DEF Mirrors, Alike, Like, PendingUpto
<1>2. \A r \in M : \E h \in hits : r.q = h.q
  BY DEF Row
<1>3. Alike(ConsumeR(v, p, ack), ConsumeR(w, p, ack))
  BY ConsumeAlike DEF Mirrors
<1>4. ASSUME NEW u, {"ttl"} \subseteq DOMAIN u, HasTables(u), PendingUpto(u, ack + AckTol) = hits
      PROVE  Settles(u, ConsumeR(u, p, ack), hits, M)
  <2> DEFINE a == Settle(u, hits, M)
  <2>1. ConsumeR(u, p, ack) = [a EXCEPT !.conn.consumed = MaxOf(@, ack)]
    BY <1>4 DEF ConsumeR
  <2> HIDE DEF hits, M
  <2>2. HasTables(a) /\ {"ttl"} \subseteq DOMAIN a
    BY <1>4 DEF Settle, HasTables
  <2> HIDE DEF a
  <2>3. Bare(a, ConsumeR(u, p, ack))
    BY <2>1, <2>2 DEF HasTables, Bare
  <2> QED
    BY <2>3 DEF Settles, a
<1>5. Settles(v, ConsumeR(v, p, ack), hits, M) /\ Settles(w, ConsumeR(w, p, ack), hits, M)
  BY <1>1, <1>4 DEF Mirrors, Alike
<1> HIDE DEF hits, M
<1> QED
  BY <1>2, <1>3, <1>5, SettleMirrors

(* A packet that is matched.                                               *)
LEMMA MatchMirrors ==
  ASSUME NEW all, OneEach(all), NEW older, NEW v, NEW w, Mirrors(v, w, all, older), Fresh(w), NEW p, NEW dir,
         Match(w, p, dir).rows \subseteq all
  PROVE  Mirrors(Match(v, p, dir), Match(w, p, dir), all, older)
<1> DEFINE fed == FeedPacket(StreamOf(v.conn, dir), p.seq, p.len)
           x == [v EXCEPT !.conn = Advanced(v.conn, p, dir, fed.stream)]
           y == [w EXCEPT !.conn = Advanced(w.conn, p, dir, fed.stream)]
<1>1. fed = FeedPacket(StreamOf(w.conn, dir), p.seq, p.len)
  BY DEF Mirrors, Alike, Like, StreamOf
<1>2. /\ Match(v, p, dir) = IF dir = "C2S" THEN Request(x, p, fed) ELSE Response(x, p)
      /\ Match(w, p, dir) = IF dir = "C2S" THEN Request(y, p, fed) ELSE Response(y, p)
  BY <1>1 DEF Match
<1> HIDE DEF fed
<1>3. Mirrors(x, y, all, older) /\ Fresh(y)
  <2> DEFINE cv == Advanced(v.conn, p, dir, fed.stream)
             cw == Advanced(w.conn, p, dir, fed.stream)
  <2>1. Like(cv, cw)
    BY LikeAdvanced DEF Mirrors, Alike
  <2> HIDE DEF cv, cw
  <2>2. ASSUME NEW u, NEW c, {"ttl"} \subseteq DOMAIN u, HasTables(u)
        PROVE  Bare(u, [u EXCEPT !.conn = c]) /\ HasTables([u EXCEPT !.conn = c]) /\ [u EXCEPT !.conn = c].conn = c
    BY <2>2 DEF Bare, HasTables
  <2>3. Bare(v, x) /\ Bare(w, y) /\ Alike(x, y)
    BY <2>1, <2>2 DEF Mirrors, Alike, cv, cw
  <2> HIDE DEF x, y
  <2> QED
    BY <2>3, BareMirrors
<1> HIDE DEF x, y
<1>4. x.conn.consumed = y.conn.consumed /\ x.conn.c = y.conn.c
  BY <1>3 DEF Mirrors, Alike, Like
<1>5. Mirrors(Request(x, p, fed), Request(y, p, fed), all, older)
  <2> DEFINE end == fed.start + fed.new
  <2>1. CASE fed.new > 0 /\ end > x.conn.consumed
    <3>1. Request(x, p, fed) = OpenQ(x, p, end) /\ Request(y, p, fed) = OpenQ(y, p, end)
      BY <1>4, <2>1 DEF Request
    <3> HIDE DEF end
    <3> QED
      BY <1>3, <3>1, OpenQMirrors
  <2>2. CASE ~(fed.new > 0 /\ end > x.conn.consumed)
    BY <1>3, <1>4, <2>2 DEF Request
  <2> QED
    BY <2>1, <2>2
<1>6. Response(y, p).rows \subseteq all => Mirrors(Response(x, p), Response(y, p), all, older)
  <2> DEFINE ack == AbsOf(x.conn.c, p.ack)
  <2>1. ack = AbsOf(y.conn.c, p.ack)
    BY <1>4
  <2>2. CASE ack > x.conn.consumed /\ ack <= x.conn.c.abs + AckLeadCap
    <3>1. Response(x, p) = ConsumeR(x, p, ack) /\ Response(y, p) = ConsumeR(y, p, ack)
      BY <1>4, <2>1, <2>2 DEF Response
    <3> HIDE DEF ack
    <3> QED
      BY <1>3, <3>1, ConsumeMirrors
  <2>3. CASE ~(ack > x.conn.consumed /\ ack <= x.conn.c.abs + AckLeadCap)
    BY <1>3, <1>4, <2>1, <2>3 DEF Response
  <2> QED
    BY <2>2, <2>3
<1> QED
  BY <1>2, <1>5, <1>6

(* And all that is done for a packet.                                      *)
LEMMA IngestMirrors ==
  ASSUME NEW all, OneEach(all), NEW older, NEW v, NEW w, Mirrors(v, w, all, older), Fresh(w),
         HasRecs(v), HasRecs(w), NEW p, Ingest(w, p).rows \subseteq all
  PROVE  Mirrors(Ingest(v, p), Ingest(w, p), all, older)
<1> DEFINE L(x) == Located(Indexed(x, p), p)
           dir == IF L(v).conn.client = p.src THEN "C2S" ELSE "S2C"
           C(x) == IF EpochTriggered(L(x).conn, p, dir) THEN FlipEpoch(L(x), p, dir) ELSE L(x)
<1>1. Mirrors(L(v), L(w), all, older) /\ Fresh(L(w))
  <2>1. v.conn.client = w.conn.client
    BY DEF Mirrors, Alike, Like
  <2>2. Like(FreshConn(p.src, p.ts), FreshConn(p.src, p.ts))
    BY DEF Like, ConnFields, FreshConn
  <2>3. \A u : {"ttl"} \subseteq DOMAIN u /\ HasTables(u) =>
          /\ Bare(u, L(u)) /\ HasTables(L(u))
          /\ L(u).conn = IF u.conn.client = NoOne THEN FreshConn(p.src, p.ts) ELSE u.conn
    BY DEF Bare, HasTables, Located, Indexed
  <2> HIDE DEF L
  <2>4. Bare(v, L(v)) /\ Bare(w, L(w)) /\ Alike(L(v), L(w))
    BY <2>1, <2>2, <2>3 DEF Mirrors, Alike
  <2> QED
    BY <2>4, BareMirrors
<1>2. dir = (IF L(w).conn.client = p.src THEN "C2S" ELSE "S2C")
  BY <1>1 DEF Mirrors, Alike, Like
<1>3. /\ Ingest(v, p) = IF Has(p, "RST") THEN RstCascade(C(v), p) ELSE Match(C(v), p, dir)
      /\ Ingest(w, p) = IF Has(p, "RST") THEN RstCascade(C(w), p) ELSE Match(C(w), p, dir)
  BY <1>2 DEF Ingest
<1> HIDE DEF L, dir
<1>4. EpochTriggered(L(v).conn, p, dir) <=> EpochTriggered(L(w).conn, p, dir)
  BY <1>1 DEF EpochTriggered, StreamOf, Mirrors, Alike, Like
<1>5. HasTables(C(w))
  BY <1>1, CascadeAlike DEF Mirrors, Alike
<1>6. Ingest(w, p).rows = RstCascade(C(w), p).rows \/ Ingest(w, p).rows = Match(C(w), p, dir).rows
  BY <1>3
<1>7. C(w).rows \subseteq all
  <2>1. C(w).rows \subseteq RstCascade(C(w), p).rows /\ C(w).rows \subseteq Match(C(w), p, dir).rows
    BY <1>5, CascadeFollows, MatchFollows DEF Follows, Migrates
  <2> QED
    BY <1>6, <2>1
<1>8. Mirrors(C(v), C(w), all, older) /\ Fresh(C(w))
  <2>1. CASE EpochTriggered(L(v).conn, p, dir)
    <3>1. C(v) = FlipEpoch(L(v), p, dir) /\ C(w) = FlipEpoch(L(w), p, dir)
      BY <1>4, <2>1
    <3> QED
      BY <1>1, <1>7, <3>1, CascadeMirrors
  <2>2. CASE ~EpochTriggered(L(v).conn, p, dir)
    BY <1>1, <1>4, <2>2
  <2> QED
    BY <2>1, <2>2
<1> HIDE DEF C
<1> QED
  BY <1>3, <1>8, CascadeMirrors, MatchMirrors

-----------------------------------------------------------------------------
(***************************************************************************)
(* So where no scan, failure or torn live commit comes between, the        *)
(* protocol ends where the run does.                                       *)
(***************************************************************************)
(* After k records the run has all the rows it had before.                 *)
RunGrown(k) == {"ttl"} \subseteq DOMAIN Run[k] /\ \A j \in 0 .. k : Run[j].rows \subseteq Run[k].rows

(* It does, after each.                                                    *)
LEMMA RunGrows == \A k \in 0 .. Len(Log) : RunGrown(k)
<1> DEFINE T == {k \in Nat : k <= Len(Log) => RunGrown(k)}
<1>0. Len(Log) \in Nat
  BY ProtocolAssumption
<1>1. 0 \in T
  BY RunIs DEF RunUpto, RunGrown, EmptyView
<1>2. ASSUME NEW k \in T PROVE k + 1 \in T
  <2> SUFFICES ASSUME k + 1 <= Len(Log) PROVE RunGrown(k + 1)
    OBVIOUS
  <2> DEFINE v == Run[k]
             w == Run[k + 1]
             p == Log[k + 1]
  <2>1. RunGrown(k) /\ RunTables(k) /\ RunTables(k + 1)
    BY <1>0, <1>2, RunHasTables
  <2>2. w = Ingest(v, p)
    BY <1>0, RunIs DEF RunUpto
  <2>3. HasTables(v) /\ HasRecs(v) /\ Like(v.conn, v.conn) /\ {"ttl"} \subseteq DOMAIN v /\ OneEach(w.rows)
        /\ \A q : Terminal(v, q) => q \notin v.live
    BY <2>1 DEF RunTables, RunGrown
  <2> HIDE DEF v, w, p
  <2>4. v.rows \subseteq w.rows
    BY <2>2, <2>3, IngestFollows DEF Follows, Migrates
  <2>5. Mirrors(v, v, w.rows, {}) /\ Fresh(v)
    BY <2>3, <2>4 DEF Mirrors, Alike, Fresh
  <2>6. Mirrors(w, w, w.rows, {})
    BY <2>2, <2>3, <2>5, IngestMirrors
  <2>7. {"ttl"} \subseteq DOMAIN w
    BY <2>6 DEF Mirrors
  <2>8. \A j \in 0 .. k + 1 : j \in 0 .. k \/ j = k + 1
    BY <1>2
  <2>9. \A j \in 0 .. k + 1 : Run[j].rows \subseteq w.rows
    BY <2>1, <2>4, <2>8 DEF RunGrown, v, w
  <2> QED
    BY <2>7, <2>9 DEF RunGrown, w
<1> HIDE DEF T
<1>3. T = Nat
  <2>1. T \in SUBSET Nat
    BY DEF T
  <2> QED
    BY <1>1, <1>2, <2>1, SetInduction
<1> QED
  BY <1>0, <1>3 DEF T

(* The rows it ends with.                                                  *)
FinalRows == Run[Len(Log)].rows

(* What the views of the run have on the way there.                        *)
LEMMA RunEnds ==
  /\ OneEach(FinalRows)
  /\ \A k \in 0 .. Len(Log) : /\ Run[k].rows \subseteq FinalRows /\ Fresh(Run[k])
                              /\ HasTables(Run[k]) /\ HasRecs(Run[k]) /\ {"ttl"} \subseteq DOMAIN Run[k]
<1>1. Len(Log) \in Nat /\ Len(Log) \in 0 .. Len(Log)
  BY ProtocolAssumption
<1>2. OneEach(FinalRows)
  BY <1>1, RunHasTables DEF RunTables, FinalRows
<1>3. \A k \in 0 .. Len(Log) : Run[k].rows \subseteq FinalRows /\ {"ttl"} \subseteq DOMAIN Run[k]
  BY <1>1, RunGrows DEF RunGrown, FinalRows
<1>4. \A k \in 0 .. Len(Log) : Fresh(Run[k]) /\ HasTables(Run[k]) /\ HasRecs(Run[k])
  BY RunHasTables DEF RunTables, Fresh
<1> QED
  BY <1>2, <1>3, <1>4

(* The conditions of ReplayConverges: no scan, no failure, no resend, and  *)
(* crashes before the live commit only.                                    *)
Undiverted == plan.scans = {} /\ plan.crashAt \subseteq BeforeLive /\ plan.failAt = {} /\ ~plan.resend

(* The rows of the epochs before the newest.                               *)
OldRows == UNION {epochs[n].rows : n \in {m \in 1 .. Len(epochs) : m < Len(epochs)}}

(* The live database has the run's requests after k records.               *)
LiveAt(k) == live.live = Run[k].live /\ live.pend = Run[k].pend /\ live.ttl = Run[k].ttl

(* A connection as writeback_conns leaves it: it is a record, and its      *)
(* count is the number of pending rows.                                    *)
Counted(c, pend) == c = [x \in DOMAIN c |-> c[x]] /\ c.open = Cardinality(pend)

(* The rows written are the run's, none up to the watermark is missing,    *)
(* and between the transactions none of the batches taken.                 *)
RowsConverge ==
  /\ \A n \in 1 .. Len(epochs) : epochs[n].rows \subseteq FinalRows
  /\ Run[ledger.mark].rows \subseteq AllRows
  /\ ~Working => Run[pipe.taken].rows \subseteq AllRows

(* The live database is the run's after the batches taken, and at the time *)
(* of a crash at the watermark.                                            *)
LiveConverges ==
  /\ live = LiveOf(live) /\ Counted(live.conn, live.pend)
  /\ ~Working => LiveAt(pipe.taken)
  /\ Working /\ plan.crashAt # {} => LiveAt(ledger.mark)

(* The transaction is a batch, and mirrors the run after what was matched. *)
ViewConverges ==
  /\ txn.kind = "Batch"
  /\ Working => Mirrors(txn.view, Run[Upto], FinalRows, OldRows)
  /\ txn.stage \in {"Staged", "EpochDone"} => Counted(txn.view.conn, txn.view.pend)

(* The tables of the undisturbed process are the run's, after as many      *)
(* records as the source has given at most.                                *)
IdealRuns ==
  /\ ideal.upto \in 0 .. Len(Log) /\ ideal.view = Run[ideal.upto]
  /\ pipe.source <= ideal.upto + 1

(* The part of the invariant that is about the tables of the run.          *)
ConvInv ==
  /\ "scans" \in DOMAIN plan
  /\ Undiverted => RowsConverge /\ LiveConverges /\ ViewConverges /\ IdealRuns

(* It holds at the start.                                                  *)
LEMMA ConvInvInit == Init => ConvInv
<1> SUFFICES ASSUME Init PROVE ConvInv
  OBVIOUS
<1>1. "scans" \in DOMAIN plan
  BY ProtocolAssumption DEF Init
<1>2. /\ Len(epochs) = 1 /\ epochs[1] = EmptyEpoch /\ ~Working /\ live = LiveOf(EmptyView)
      /\ pipe.taken = 0 /\ ledger.mark = 0 /\ pipe.source = 1 /\ txn.kind = "Batch" /\ txn.stage = "Idle"
      /\ ideal.upto = 0 /\ ideal.view = EmptyView
  BY DEF Init, Working, Idle, Transaction
<1>3. Run[0] = EmptyView /\ Len(Log) \in Nat
  BY RunIs, ProtocolAssumption DEF RunUpto
<1>4. RowsConverge
  BY <1>2, <1>3 DEF RowsConverge, EmptyEpoch, EmptyView
<1>5. LiveConverges
  <2>1. live = LiveOf(live) /\ LiveAt(0) /\ live.conn = FreshConn(NoOne, 0) /\ live.pend = {}
    BY <1>2, <1>3 DEF LiveOf, LiveAt, EmptyView
  <2>2. Counted(FreshConn(NoOne, 0), {})
    BY FS_EmptySet DEF Counted, FreshConn
  <2> QED
    BY <1>2, <2>1, <2>2 DEF LiveConverges
<1>6. ViewConverges /\ IdealRuns
  BY <1>2, <1>3 DEF ViewConverges, IdealRuns
<1> QED
  BY <1>1, <1>4, <1>5, <1>6 DEF ConvInv

(* Where a step begins.                                                    *)
Converges == Whole /\ ConvInv /\ Undiverted

(* The parts of this.                                                      *)
LEMMA ConvergesHas ==
  ASSUME Converges
  PROVE  /\ Steadily /\ Facts /\ RowInv /\ InPlace /\ OnTrack /\ Replays
         /\ RowsConverge /\ LiveConverges /\ ViewConverges /\ IdealRuns /\ "scans" \in DOMAIN plan
<1>1. Steady
  BY DEF Converges, Undiverted, Steady, BeforeLive
<1>2. Steadily
  BY <1>1 DEF Converges, Steadily, Undiverted
<1> QED
  BY <1>2, SteadilyHas DEF Converges, ConvInv

(* All rows are those of the newest epoch and the old ones.                *)
LEMMA RowsSplit ==
  ASSUME Facts
  PROVE  /\ AllRows = OldRows \cup Last(epochs).rows
         /\ Len(epochs) \in Nat \ {0} /\ Last(epochs) = epochs[Len(epochs)]
<1>1. Len(epochs) \in Nat \ {0} /\ Last(epochs) = epochs[Len(epochs)]
  BY EpochsAre DEF Facts
<1>2. \A n \in 1 .. Len(epochs) : n < Len(epochs) \/ n = Len(epochs)
  BY <1>1
<1>3. Len(epochs) \in 1 .. Len(epochs)
  BY <1>1
<1> QED
  BY <1>1, <1>2, <1>3 DEF AllRows, OldRows

(* As the epochs grow so do the rows.                                      *)
LEMMA RowsGrow ==
  ASSUME Grows(epochs, epochs')
  PROVE  AllRows \subseteq AllRows'
<1>1. \A n \in 1 .. Len(epochs) : n \in 1 .. Len(epochs') /\ epochs[n].rows \subseteq epochs'[n].rows
  BY DEF Grows
<1> QED
  BY <1>1 DEF AllRows

(* A new transaction mirrors the run.                                      *)
LEMMA BegunMirrors ==
  ASSUME Converges, txn.stage = "Idle"
  PROVE  /\ Mirrors(Begun, Run[Upto], FinalRows, OldRows)
         /\ plan.crashAt # {} => LiveAt(ledger.mark)
<1>1. /\ Like(Begun.conn, Run[Upto].conn) /\ Upto = pipe.taken /\ Upto \in 0 .. Len(Log)
      /\ plan.crashAt # {} => ledger.mark = pipe.taken
  <2>1. Upto = pipe.taken /\ Upto \in Nat /\ pipe.taken <= Len(pipe.hot) /\ Len(pipe.hot) \in Nat
    BY ConvergesHas, UptoType
  <2>2. Len(pipe.hot) <= Len(Log) /\ Len(Log) \in Nat
    BY ConvergesHas, PlaceType
  <2> QED
    BY <2>1, <2>2, ConvergesHas, BegunOnTrack
<1>2. ~Working
  BY DEF Working
<1>3. HasTables(Begun) /\ HasTables(Run[Upto]) /\ {"ttl"} \subseteq DOMAIN Run[Upto] /\ {"ttl"} \subseteq DOMAIN Begun
  BY <1>1, RunEnds, BegunTables, ConvergesHas DEF Begun
<1>4. Begun.live = live.live /\ Begun.pend = live.pend /\ Begun.ttl = live.ttl /\ Begun.rows = Last(epochs).rows
  BY DEF Begun
<1>5. LiveAt(Upto)
  BY <1>1, <1>2, ConvergesHas DEF LiveConverges
<1>6. Begun.rows \subseteq FinalRows /\ Run[Upto].rows \subseteq Begun.rows \cup OldRows
  BY <1>1, <1>2, <1>4, ConvergesHas, RowsSplit DEF RowsConverge
<1> HIDE DEF Begun
<1> QED
  BY <1>1, <1>3, <1>4, <1>5, <1>6 DEF Mirrors, Alike, LiveAt

(* A transaction that begins or goes on keeps the invariant, if it mirrors *)
(* the run.                                                                *)
LEMMA ConvMoves ==
  ASSUME Converges, NEW w, Mirrors(w, Run[Upto'], FinalRows, OldRows),
         txn'.stage = "Staged" => Counted(w.conn, w.pend),
         plan.crashAt # {} => LiveAt(ledger.mark),
         txn'.view = w, txn'.stage \in {"Open", "Staged"}, txn'.kind = "Batch",
         pipe'.source = pipe.source, UNCHANGED <<live, epochs, ledger, plan, ideal>>
  PROVE  ConvInv'
<1>1. Working' /\ OldRows' = OldRows /\ AllRows' = AllRows
  BY DEF Working, OldRows, AllRows
<1>2. RowsConverge' /\ LiveConverges' /\ IdealRuns'
  BY <1>1, ConvergesHas DEF RowsConverge, LiveConverges, LiveAt, IdealRuns
<1>3. ViewConverges'
  BY <1>1 DEF ViewConverges
<1> QED
  BY <1>2, <1>3, ConvergesHas DEF ConvInv

(* A batch is taken.                                                       *)
LEMMA FlushConv == ASSUME Converges, Flush PROVE ConvInv'
<1>1. /\ txn' = Transaction("Open", "Batch", Begun) /\ UNCHANGED <<live, epochs, ledger, plan, ideal>>
      /\ txn.stage = "Idle" /\ pipe' = [pipe EXCEPT !.taken = Appended, !.matched = pipe.taken]
  BY DEF Flush
<1>2. txn'.view = Begun /\ txn'.stage = "Open" /\ txn'.kind = "Batch"
  BY <1>1 DEF Transaction
<1>3. Upto' = Upto /\ pipe'.source = pipe.source
  BY <1>1, <1>2, ConvergesHas, UptoType DEF Upto
<1> HIDE DEF Begun
<1> QED
  BY <1>1, <1>2, <1>3, BegunMirrors, ConvMoves

(* A packet is matched, and behind the last one the connection is written  *)
(* back.                                                                   *)
LEMMA IngestConv == ASSUME Converges, IngestNext PROVE ConvInv'
<1> DEFINE n == pipe.matched + 1
           v == txn.view
           w == txn'.view
           x == Ingest(v, Log[n])
<1>0. Facts /\ InPlace /\ ViewConverges /\ LiveConverges
  BY ConvergesHas
<1>1. /\ txn.stage = "Open" /\ pipe' = [pipe EXCEPT !.matched = n] /\ pipe.matched < pipe.taken
      /\ pipe.taken \in Nat /\ Upto = pipe.matched /\ Upto \in Nat /\ n \in 1 .. Len(pipe.hot) /\ ideal' = ideal
  BY <1>0, UptoType DEF IngestNext
<1>2. PacketAt(n) = Log[n] /\ n \in 1 .. Len(Log)
  BY <1>0, <1>1, PlaceType
<1>3. /\ txn'.kind = "Batch" /\ txn'.stage = (IF n = pipe.taken THEN "Staged" ELSE "Open")
      /\ w = IF n = pipe.taken THEN Writeback(x) ELSE x
  BY <1>0, <1>1, <1>2, UptoType DEF IngestNext, Transaction
<1>4. Upto' = n /\ pipe'.source = pipe.source
  BY <1>0, <1>1, <1>3, UptoType DEF Upto
<1>5. /\ Working /\ txn'.stage \in {"Open", "Staged"} /\ UNCHANGED <<live, epochs, ledger, plan>> /\ HasRecs(v)
  BY <1>0, NextPacket
<1>6. n - 1 = Upto /\ n - 1 \in 0 .. Len(Log) /\ n \in 0 .. Len(Log)
  BY <1>1, <1>2, ProtocolAssumption
<1>7. Mirrors(v, Run[n - 1], FinalRows, OldRows)
  BY <1>0, <1>5, <1>6 DEF ViewConverges
<1>8. Run[n] = Ingest(Run[n - 1], Log[n])
  BY <1>2, RunIs DEF RunUpto
<1> HIDE DEF n, v
<1>9. Mirrors(x, Run[n], FinalRows, OldRows)
  BY <1>5, <1>6, <1>7, <1>8, RunEnds, IngestMirrors
<1> HIDE DEF x
<1>10. HasTables(x) /\ Like(x.conn, Run[n].conn) /\ {"ttl"} \subseteq DOMAIN x /\ HasTables(Run[n])
  BY <1>9 DEF Mirrors, Alike
<1> DEFINE y == Writeback(x)
           c == [x.conn EXCEPT !.open = Cardinality(x.pend)]
<1>11. HasTables(y) /\ y.conn = c /\ Bare(x, y)
  BY <1>10 DEF Writeback, HasTables, Bare
<1>12. c = [z \in DOMAIN x.conn |-> IF z = "open" THEN Cardinality(x.pend) ELSE x.conn[z]]
  OBVIOUS
<1>13. DOMAIN x.conn = ConnFields
  BY <1>10 DEF Like
<1> HIDE DEF y, c
<1>14. DOMAIN c = ConnFields /\ \A z \in ConnFields : c[z] = IF z = "open" THEN Cardinality(x.pend) ELSE x.conn[z]
  BY <1>12, <1>13
<1>15. c = [z \in DOMAIN c |-> c[z]]
  BY <1>12
<1>16. Like(c, Run[n].conn)
  BY <1>10, <1>14 DEF Like, ConnFields
<1>17. Counted(y.conn, y.pend)
  BY <1>11, <1>14, <1>15 DEF Counted, Bare, ConnFields
<1>18. Mirrors(y, Run[n], FinalRows, OldRows)
  BY <1>9, <1>10, <1>11, <1>16 DEF Mirrors, Bare, Alike
<1>19. Mirrors(w, Run[n], FinalRows, OldRows) /\ (txn'.stage = "Staged" => Counted(w.conn, w.pend))
  BY <1>3, <1>9, <1>17, <1>18 DEF y
<1>20. plan.crashAt # {} => LiveAt(ledger.mark)
  BY <1>0, <1>5 DEF LiveConverges
<1> HIDE DEF w
<1>21. txn'.view = w
  BY DEF w
<1> QED
  BY <1>1, <1>3, <1>4, <1>5, <1>19, <1>20, <1>21, ConvMoves

(* The rows go to the newest epoch.                                        *)
LEMMA CommitEpochConv == ASSUME Converges, CommitEpoch PROVE ConvInv'
<1> DEFINE k == Len(epochs)
<1>0. Facts /\ RowInv /\ RowsConverge /\ LiveConverges /\ ViewConverges /\ IdealRuns
  BY ConvergesHas
<1>1. /\ txn.stage = "Staged" /\ txn' = [txn EXCEPT !.stage = "EpochDone"]
      /\ UNCHANGED <<live, ledger, plan, pipe, ideal>> /\ epochs' = [epochs EXCEPT ![k] = EpochOf(txn.view)]
  BY DEF CommitEpoch
<1>2. txn'.stage = "EpochDone" /\ txn'.view = txn.view /\ txn'.kind = txn.kind
  BY <1>0, <1>1, UptoType DEF RowInv
<1>3. /\ Len(epochs') = k /\ k \in Nat \ {0} /\ epochs'[k].rows = txn.view.rows
      /\ \A n \in 1 .. k : n < k => epochs'[n] = epochs[n]
  BY <1>0, <1>1, EpochsAre, ListCommitted DEF Facts, EpochOf
<1>4. AllRows \subseteq AllRows'
  BY <1>0, CommitEpochStory, RowsGrow
<1>5. OldRows' = OldRows
  BY <1>3 DEF OldRows
<1>6. Working /\ Working' /\ Upto' = Upto
  BY <1>1, <1>2 DEF Working, Upto
<1>7. Mirrors(txn.view, Run[Upto], FinalRows, OldRows) /\ txn.view.rows \subseteq FinalRows
  BY <1>0, <1>6 DEF ViewConverges, Mirrors
<1>8. \A n \in 1 .. k : epochs'[n].rows \subseteq FinalRows
  BY <1>0, <1>3, <1>7 DEF RowsConverge
<1>9. RowsConverge'
  BY <1>0, <1>1, <1>3, <1>4, <1>6, <1>8 DEF RowsConverge
<1>10. ViewConverges'
  BY <1>0, <1>1, <1>2, <1>5, <1>6, <1>7 DEF ViewConverges
<1>11. LiveConverges' /\ IdealRuns'
  BY <1>0, <1>1, <1>6 DEF LiveConverges, LiveAt, IdealRuns
<1> QED
  BY <1>1, <1>9, <1>10, <1>11, ConvergesHas DEF ConvInv

(* The live database is where the run is after the batch.                  *)
LEMMA CommitLiveConv == ASSUME Converges, CommitLive PROVE ConvInv'
<1>0. Facts /\ RowInv /\ RowsConverge /\ LiveConverges /\ ViewConverges /\ IdealRuns
  BY ConvergesHas
<1>1. /\ txn.stage = "EpochDone" /\ UNCHANGED <<epochs, ledger, plan, pipe, ideal>> /\ live' = LiveOf(txn.view)
      /\ txn' = [txn EXCEPT !.stage = IF txn.kind = "Scan" THEN "MarkDone" ELSE "LiveDone"]
  BY DEF CommitLive
<1>2. txn'.stage = "LiveDone" /\ txn'.kind = "Batch"
  BY <1>0, <1>1, UptoType DEF RowInv, ViewConverges
<1>3. Working /\ ~Working' /\ Upto = pipe.taken
  BY <1>0, <1>1, <1>2, UptoType DEF Working
<1>4. Mirrors(txn.view, Run[pipe.taken], FinalRows, OldRows) /\ Counted(txn.view.conn, txn.view.pend)
  BY <1>0, <1>1, <1>3 DEF ViewConverges
<1>5. txn.view.rows = Last(epochs).rows
  BY <1>0, CommitLiveStory
<1>6. Run[pipe.taken].rows \subseteq AllRows
  BY <1>0, <1>4, <1>5, RowsSplit DEF Mirrors
<1>7. AllRows' = AllRows
  BY <1>1 DEF AllRows
<1>8. RowsConverge'
  BY <1>0, <1>1, <1>6, <1>7 DEF RowsConverge
<1>9. LiveConverges'
  <2>1. /\ live'.conn = txn.view.conn /\ live'.live = txn.view.live /\ live'.pend = txn.view.pend
        /\ live'.ttl = txn.view.ttl /\ live' = LiveOf(live')
    BY <1>1 DEF LiveOf
  <2>2. LiveAt(pipe.taken)'
    BY <1>1, <1>4, <2>1 DEF LiveAt, Mirrors
  <2> QED
    BY <1>1, <1>3, <1>4, <2>1, <2>2 DEF LiveConverges
<1>10. ViewConverges' /\ IdealRuns'
  BY <1>0, <1>1, <1>2, <1>3 DEF ViewConverges, IdealRuns
<1> QED
  BY <1>1, <1>8, <1>9, <1>10, ConvergesHas DEF ConvInv

(* A new epoch has no rows, and the old ones keep theirs.                  *)
LEMMA RotateConv == ASSUME Converges, RotateEpoch PROVE ConvInv'
<1>0. Facts /\ RowsConverge /\ LiveConverges /\ ViewConverges /\ IdealRuns
  BY ConvergesHas
<1>1. /\ epochs' = Append(epochs, EmptyEpoch) /\ txn.stage = "Idle"
      /\ UNCHANGED <<live, ledger, pipe, txn, plan, ideal>>
  BY DEF RotateEpoch
<1>2. /\ Len(epochs) \in Nat /\ Len(epochs') = Len(epochs) + 1
      /\ \A n \in 1 .. Len(epochs) : epochs'[n] = epochs[n]
      /\ epochs'[Len(epochs) + 1] = EmptyEpoch
  BY <1>0, <1>1, EpochsAre, ListRotated DEF Facts
<1>3. AllRows \subseteq AllRows'
  BY <1>0, RotateStory, RowsGrow
<1>4. \A n \in 1 .. Len(epochs') : epochs'[n].rows \subseteq FinalRows
  <2>1. \A n \in 1 .. Len(epochs') : n \in 1 .. Len(epochs) \/ n = Len(epochs) + 1
    BY <1>2
  <2> QED
    BY <1>0, <1>2, <2>1 DEF RowsConverge, EmptyEpoch
<1>5. ~Working /\ ~Working'
  BY <1>1 DEF Working
<1>6. RowsConverge'
  BY <1>0, <1>1, <1>3, <1>4, <1>5 DEF RowsConverge
<1>7. LiveConverges' /\ ViewConverges' /\ IdealRuns'
  BY <1>0, <1>1, <1>5 DEF LiveConverges, LiveAt, ViewConverges, IdealRuns
<1> QED
  BY <1>1, <1>6, <1>7, ConvergesHas DEF ConvInv

(* A crash goes back to the watermark, and the live database is there.     *)
LEMMA CrashConv == ASSUME Converges, Crash PROVE ConvInv'
<1>0. Facts /\ InPlace /\ Replays /\ RowsConverge /\ LiveConverges /\ ViewConverges /\ IdealRuns /\ Undiverted
  BY ConvergesHas DEF Converges
<1>1. /\ txn.stage \in plan.crashAt /\ UNCHANGED <<live, epochs, ledger, ideal>> /\ txn' = Idle
      /\ plan' = [plan EXCEPT !.crashes = @ - 1] /\ pipe'.source = ledger.mark + 1 /\ pipe'.taken = ledger.mark
  BY <1>0 DEF Crash, Undiverted
<1>2. txn'.stage = "Idle" /\ txn'.kind = "Batch" /\ ~Working'
  BY <1>1 DEF Idle, Transaction, Working
<1>3. plan.crashAt # {} /\ txn.stage \in BeforeLive
  BY <1>0, <1>1 DEF Undiverted
<1>4. LiveAt(ledger.mark)
  <2>1. CASE Working
    BY <1>0, <1>3, <2>1 DEF LiveConverges
  <2>2. CASE ~Working
    <3>1. txn.stage = "Idle"
      BY <1>3, <2>2 DEF BeforeLive, Working
    <3>2. ledger.mark = pipe.taken
      BY <1>0, <1>3, <2>2, <3>1 DEF Replays
    <3> QED
      BY <1>0, <2>2, <3>2 DEF LiveConverges
  <2> QED
    BY <2>1, <2>2
<1>5. AllRows' = AllRows
  BY <1>1 DEF AllRows
<1>6. RowsConverge'
  BY <1>0, <1>1, <1>5 DEF RowsConverge
<1>7. LiveConverges' /\ ViewConverges'
  BY <1>0, <1>1, <1>2, <1>4 DEF LiveConverges, LiveAt, ViewConverges
<1>8. IdealRuns'
  <2>1. ledger.mark \in Nat /\ ledger.mark <= Len(pipe.hot) /\ Len(pipe.hot) \in Nat
    BY <1>0, UptoType
  <2>2. pipe.source = Len(pipe.hot) + 1 /\ ideal.upto \in Nat
    BY <1>0, ProtocolAssumption DEF InPlace, IdealRuns
  <2> QED
    BY <1>0, <1>1, <2>1, <2>2 DEF IdealRuns
<1>9. "scans" \in DOMAIN plan'
  BY <1>1, ConvergesHas
<1> QED
  BY <1>6, <1>7, <1>8, <1>9 DEF ConvInv

(* The source gives a record, to the undisturbed process too if it is new. *)
LEMMA PushConv == ASSUME Converges, Push PROVE ConvInv'
<1>0. Facts /\ RowsConverge /\ LiveConverges /\ ViewConverges /\ IdealRuns
  BY ConvergesHas
<1>1. /\ pipe'.taken = pipe.taken /\ pipe'.source = pipe.source + 1 /\ pipe.source <= Len(Log)
      /\ txn.stage = "Idle" /\ UNCHANGED <<live, epochs, ledger, txn, plan>>
      /\ ideal' = IF pipe.source <= ideal.upto THEN ideal
                  ELSE [upto |-> pipe.source, view |-> Ingest(ideal.view, Log[pipe.source])]
  BY <1>0, UptoType DEF Push
<1>2. ~Working /\ ~Working' /\ AllRows' = AllRows
  BY <1>1 DEF Working, AllRows
<1>3. IdealRuns'
  <2>0. pipe.source \in Nat \ {0} /\ Len(Log) \in Nat
    BY <1>0, ProtocolAssumption DEF Facts, Inv, Shape, PipeShape
  <2>1. CASE pipe.source <= ideal.upto
    BY <1>0, <1>1, <2>0, <2>1 DEF IdealRuns
  <2>2. CASE ~(pipe.source <= ideal.upto)
    <3>1. pipe.source = ideal.upto + 1 /\ pipe.source \in 1 .. Len(Log) /\ pipe.source - 1 = ideal.upto
      BY <1>0, <1>1, <2>0, <2>2 DEF IdealRuns
    <3>2. Run[pipe.source] = Ingest(Run[ideal.upto], Log[pipe.source])
      BY <3>1, RunIs DEF RunUpto
    <3>3. ideal'.upto = pipe.source /\ ideal'.view = Run[pipe.source]
      BY <1>0, <1>1, <2>2, <3>2 DEF IdealRuns
    <3> QED
      BY <1>1, <2>0, <3>1, <3>3 DEF IdealRuns
  <2> QED
    BY <2>1, <2>2
<1>4. RowsConverge' /\ LiveConverges' /\ ViewConverges'
  BY <1>0, <1>1, <1>2 DEF RowsConverge, LiveConverges, LiveAt, ViewConverges
<1> QED
  BY <1>1, <1>3, <1>4, ConvergesHas DEF ConvInv

(* The other steps.                                                        *)
LEMMA RestConv == ASSUME Converges, Otherwise, ~Crash, ~Push PROVE ConvInv'
<1>0. Facts /\ RowInv /\ RowsConverge /\ LiveConverges /\ ViewConverges /\ IdealRuns /\ plan.failAt = {}
  BY ConvergesHas DEF Converges, Undiverted
<1>1. CASE OpenRegistry \/ Build
  <2>1. UNCHANGED <<live, epochs, ledger, pipe, txn, plan, ideal>>
    BY <1>1 DEF OpenRegistry, Build, SnapshotLive, SnapshotEpoch, ListEpochs
  <2> QED
    BY <1>0, <2>1, ConvergesHas DEF ConvInv, RowsConverge, LiveConverges, LiveAt, ViewConverges, IdealRuns,
       Working, AllRows, OldRows, Upto
<1>2. CASE AdvanceWatermark \/ InsertAnomalies \/ UpsertMeta \/ UpsertArchive
  <2>1. UNCHANGED <<live, epochs, pipe, plan, ideal>> /\ txn.stage \notin {"Open", "Staged", "EpochDone"}
    BY <1>2 DEF AdvanceWatermark, InsertAnomalies, UpsertMeta, UpsertArchive
  <2>2. txn'.stage \notin {"Open", "Staged", "EpochDone"} /\ txn'.kind = "Batch"
    <3>1. CASE AdvanceWatermark
      BY <1>0, <3>1, UptoType DEF AdvanceWatermark, RowInv, ViewConverges
    <3>2. CASE txn' = NextLedgerStep
      BY <1>0, <2>1, <3>2, UptoType DEF NextLedgerStep, RowInv, ViewConverges, Idle, Transaction
    <3> QED
      BY <1>2, <3>1, <3>2 DEF InsertAnomalies, UpsertMeta, UpsertArchive
  <2>3. ~Working /\ ~Working' /\ AllRows' = AllRows
    BY <2>1, <2>2 DEF Working, AllRows
  <2>4. ledger'.mark = ledger.mark \/ ledger'.mark = pipe.taken
    BY <1>0, <1>2 DEF AdvanceWatermark, InsertAnomalies, UpsertMeta, UpsertArchive, MaxOf, Facts, Story, Fields
  <2>5. RowsConverge'
    BY <1>0, <2>1, <2>3, <2>4 DEF RowsConverge
  <2>6. LiveConverges' /\ ViewConverges' /\ IdealRuns'
    BY <1>0, <2>1, <2>2, <2>3 DEF LiveConverges, LiveAt, ViewConverges, IdealRuns
  <2> QED
    BY <2>1, <2>5, <2>6, ConvergesHas DEF ConvInv
<1>3. ~Fail
  BY <1>0 DEF Fail
<1> QED
  BY <1>1, <1>2, <1>3 DEF Otherwise

(* Every step keeps it.                                                    *)
LEMMA ConvInvNext == ASSUME Whole, ConvInv, [Next]_vars PROVE ConvInv'
<1>1. CASE ~Undiverted
  <2>1. /\ "scans" \in DOMAIN plan' /\ plan'.scans = plan.scans
        /\ plan'.crashAt = plan.crashAt /\ plan'.failAt = plan.failAt /\ plan'.resend = plan.resend
    <3>1. Facts /\ RowInv /\ "scans" \in DOMAIN plan /\ "resend" \in DOMAIN plan
      BY DEF Whole, ConvInv, Facts, Story, Fields
    <3>2. plan' = plan \/ Fail \/ Crash
      BY DEF Next, IngestThread, CommitStep, Push, Flush, IngestNext, Scan, CommitEpoch, CommitLive,
         AdvanceWatermark, InsertAnomalies, UpsertMeta, UpsertArchive, RotateEpoch, OpenRegistry, Build,
         SnapshotLive, SnapshotEpoch, ListEpochs, vars
    <3>3. plan' = plan \/ \E k : plan' = [plan EXCEPT !.failures = k] \/ plan' = [plan EXCEPT !.crashes = k]
      BY <3>2 DEF Fail, Crash
    <3>4. "scans" \in DOMAIN plan' /\ plan'.scans = plan.scans /\ plan'.resend = plan.resend
      BY <3>1, <3>3
    <3> QED
      BY <3>1, <3>4, PlanKept
  <2>2. ~Undiverted'
    BY <1>1, <2>1 DEF Undiverted
  <2> QED
    BY <2>1, <2>2 DEF ConvInv
<1>2. CASE Undiverted /\ UNCHANGED vars
  BY <1>2 DEF vars, ConvInv, Undiverted, RowsConverge, LiveConverges, LiveAt, ViewConverges, IdealRuns,
     Working, AllRows, OldRows, Upto
<1>3. CASE Undiverted /\ Next
  <2>1. Converges
    BY <1>3 DEF Converges
  <2>2. ~\E now \in plan.scans : Scan(now)
    BY <1>3 DEF Undiverted
  <2> QED
    BY <1>3, <2>1, <2>2, FlushConv, IngestConv, CommitEpochConv, CommitLiveConv, RotateConv, CrashConv,
       PushConv, RestConv
       DEF Next, IngestThread, CommitStep, Otherwise
<1> QED
  BY <1>1, <1>2, <1>3

(* When all is committed the run is at its end.                            *)
LEMMA DoneConverges ==
  ASSUME Converges, Done
  PROVE  AllRows = ideal.view.rows /\ live = LiveOf(Writeback(ideal.view))
<1> DEFINE N == Len(Log)
           R == Run[N]
<1>0. Facts /\ InPlace /\ OnTrack /\ RowsConverge /\ LiveConverges /\ IdealRuns /\ N \in Nat
  BY ConvergesHas, ProtocolAssumption
<1>1. txn.stage = "Idle" /\ pipe.source > N /\ ledger.mark = Len(pipe.hot)
  BY DEF Done, Idle, Transaction, Appended
<1>2. ~Working
  BY <1>1 DEF Working
<1>3. /\ pipe.source = Len(pipe.hot) + 1 /\ Len(pipe.hot) <= N /\ Len(pipe.hot) \in Nat
      /\ ledger.mark <= pipe.taken /\ pipe.taken <= Len(pipe.hot) /\ pipe.taken \in Nat
  BY <1>0, <1>1, PlaceType, UptoType DEF InPlace
<1>4. pipe.taken = N
  BY <1>0, <1>1, <1>3
<1>5. ideal.upto = N /\ ideal.view = R
  BY <1>0, <1>1, <1>3 DEF IdealRuns
<1>6. AllRows = R.rows
  <2>1. R.rows \subseteq AllRows
    BY <1>0, <1>2, <1>4 DEF RowsConverge
  <2>2. AllRows \subseteq R.rows
    BY <1>0 DEF RowsConverge, AllRows, FinalRows
  <2> QED
    BY <2>1, <2>2
<1> DEFINE c == live.conn
           d == [R.conn EXCEPT !.open = Cardinality(R.pend)]
<1>7. /\ live.live = R.live /\ live.pend = R.pend /\ live.ttl = R.ttl /\ Like(c, R.conn)
      /\ c = [x \in DOMAIN c |-> c[x]] /\ c.open = Cardinality(R.pend)
  BY <1>0, <1>2, <1>4 DEF LiveConverges, LiveAt, Counted, OnTrack
<1>8. live = [conn |-> c, live |-> R.live, pend |-> R.pend, ttl |-> R.ttl]
  BY <1>0, <1>7 DEF LiveConverges, LiveOf
<1>9. HasTables(R) /\ {"ttl"} \subseteq DOMAIN R
  BY <1>0, RunEnds
<1> HIDE DEF N, R
<1>10. LiveOf(Writeback(R)) = [conn |-> d, live |-> R.live, pend |-> R.pend, ttl |-> R.ttl]
  BY <1>9 DEF Writeback, LiveOf, HasTables
<1>11. c = d
  <2>1. d = [x \in DOMAIN R.conn |-> IF x = "open" THEN Cardinality(R.pend) ELSE R.conn[x]]
    OBVIOUS
  <2>2. DOMAIN c = ConnFields /\ DOMAIN R.conn = ConnFields
    BY <1>7 DEF Like
  <2>3. \A x \in ConnFields : c[x] = IF x = "open" THEN Cardinality(R.pend) ELSE R.conn[x]
    BY <1>7 DEF Like, ConnFields
  <2> HIDE DEF c, d
  <2> QED
    BY <1>7, <2>1, <2>2, <2>3
<1> QED
  BY <1>5, <1>6, <1>8, <1>10, <1>11

(* Replay converges: whatever crashes come before the commits of the live  *)
(* database, with rotations in between and batches cut anew, when the      *)
(* whole log is committed the databases are those of a process that        *)
(* nothing disturbed (open_or_recover, load_watermark, QrMatcher::commit). *)
THEOREM ReplayTheorem == Spec => []ReplayConverges
<1>1. Whole /\ ConvInv => ReplayConverges
  BY DoneConverges DEF ReplayConverges, Converges, Undiverted
<1>2. Init => Whole /\ ConvInv
  BY FactsInit, RowInvInit, TrackInvInit, ConvInvInit DEF Whole
<1>3. Whole /\ ConvInv /\ [Next]_vars => Whole' /\ ConvInv'
  BY FactsNext, RowInvNext, TrackInvNext, ConvInvNext DEF Whole
<1> QED
  BY <1>1, <1>2, <1>3, PTL DEF Spec
=============================================================================
