--------------------------- MODULE CommitProtocol ---------------------------
(***************************************************************************)
(* How sovVault commits what it matches (BatchPipeline and commit_batch in *)
(* src/src/batch.rs, QrMatcher::commit in src/src/qr.rs, the scan of       *)
(* anomaly.rs, the epochs of db.rs) and what a query session that runs     *)
(* beside it sees (query.rs).  Records are appended to a hot file and      *)
(* gathered into a batch; a batch is matched in two open transactions and  *)
(* committed in steps: the epoch database, the live database, the          *)
(* watermark in the ledger, and then, best effort, the audit events, the   *)
(* fingerprints and the archive in the ledger.  A restart truncates the    *)
(* hot file to the watermark.                                              *)
(*                                                                         *)
(* Log is what the device recorded.  A packet is named by its place in the *)
(* hot file.  After a restart either the same records come again from the  *)
(* watermark on, as the comments of batch.rs have it, or the source sends  *)
(* the whole segment again, as a new process gets it through LiveIngest    *)
(* (plan.resend), and the places of the records change.                    *)
(***************************************************************************)
EXTENDS QrEngine, SequencesExt

CONSTANTS
  Log,          \* the packets in the order of capture
  BatchSize,    \* BatchPipeline.batch_size
  Plans         \* what may happen to a process, one of which a behaviour is

Stage == {"Idle", "Open", "Staged", "EpochDone", "LiveDone", "MarkDone", "AuditDone",
          "MetaDone"}

(* The steps of the ledger that only warn when they fail.                  *)
BestEffort == {"MarkDone", "AuditDone", "MetaDone"}

ASSUME ProtocolAssumption ==
  /\ Log \in Seq(Packets)
  /\ \A n \in 1 .. Len(Log) : Log[n].idx = n
  /\ BatchSize \in Nat \ {0}
  /\ Plans \subseteq
       [fixedCuts: BOOLEAN,     \* batches end at BatchSize records or with the log
        scans: SUBSET Nat,      \* when the timeout scan may run
        crashAt: SUBSET Stage, crashes: Nat,
        failAt: SUBSET Stage, failures: Nat,
        resend: BOOLEAN,        \* after a crash the log is sent from its beginning
        reads: BOOLEAN,         \* another process opens a query session
        epochs: Nat \ {0}]      \* bound

VARIABLES
  live,     \* the live database as committed
  epochs,   \* the epoch databases as committed, the current one last
  ledger,   \* SQLite: the watermark, the audit events, the hits of each kind of
            \* fingerprint, the archive
  pipe,     \* the hot file as the records in it, the next record of the log, how
            \* many records batches have taken and matched
  txn,      \* the commit under way
  plan,     \* the plan, with the crashes and failures that are left
  ideal,    \* the tables a process would have that nothing disturbs
  session   \* the query session of another process

vars == <<live, epochs, ledger, pipe, txn, plan, ideal, session>>

EmptyEpoch == [rows |-> {}, opened |-> {}, recs |-> {}]

LiveOf(v) == [conn |-> v.conn, live |-> v.live, pend |-> v.pend, ttl |-> v.ttl]
EpochOf(v) == [rows |-> v.rows, opened |-> v.opened, recs |-> v.recs]

(* What a new transaction pair sees: live and the current epoch.           *)
Begun ==
  [conn |-> live.conn, live |-> live.live, pend |-> live.pend, ttl |-> live.ttl,
   rows |-> Last(epochs).rows, opened |-> Last(epochs).opened,
   recs |-> Last(epochs).recs, audit |-> {}, meta |-> {}, archive |-> {}]

Transaction(stage, kind, view) == [stage |-> stage, kind |-> kind, view |-> view]

Idle == Transaction("Idle", "Batch", EmptyView)

NoSession == [phase |-> "None", known |-> 0, live |-> {}, there |-> {},
              snap |-> EmptyEpoch, listed |-> 0]

Init ==
  /\ live = LiveOf(EmptyView)
  /\ epochs = <<EmptyEpoch>>
  /\ ledger = [mark |-> 0, audit |-> {}, hits |-> [k \in ProtocolKind |-> 0],
               archive |-> {}]
  /\ pipe = [hot |-> <<>>, source |-> 1, taken |-> 0, matched |-> 0]
  /\ txn = Idle
  /\ ideal = [upto |-> 0, view |-> EmptyView]
  /\ plan \in Plans
  /\ session = NoSession

Appended == Len(pipe.hot)

(* The n-th record of the hot file as the engine sees it.                  *)
PacketAt(n) == [Log[pipe.hot[n]] EXCEPT !.idx = n]

-----------------------------------------------------------------------------
(* The call that fills the batch also flushes it: nothing but a crash      *)
(* comes between.                                                          *)
BatchFull == Appended - pipe.taken >= BatchSize

(* push_record appends the record to the hot file and to the batch.        *)
Push ==
  /\ txn.stage = "Idle" /\ ~BatchFull
  /\ pipe.source <= Len(Log)
  /\ pipe' = [pipe EXCEPT !.hot = Append(@, pipe.source), !.source = @ + 1]
  /\ ideal' = IF pipe.source <= ideal.upto THEN ideal
              ELSE [upto |-> pipe.source, view |-> Ingest(ideal.view, Log[pipe.source])]
  /\ UNCHANGED <<live, epochs, ledger, txn, plan, session>>

(* flush takes the batch and opens the transactions.  Besides a full       *)
(* batch, a file that is full and a sealed segment flush.                  *)
Flush ==
  /\ txn.stage = "Idle"
  /\ pipe.taken < Appended
  /\ plan.fixedCuts => BatchFull \/ pipe.source > Len(Log)
  /\ pipe' = [pipe EXCEPT !.taken = Appended, !.matched = pipe.taken]
  /\ txn' = Transaction("Open", "Batch", Begun)
  /\ UNCHANGED <<live, epochs, ledger, plan, ideal, session>>

(* stage_lmdb matches the records of the batch one by one; behind the last *)
(* one commit writes the connection back.                                  *)
IngestNext ==
  /\ txn.stage = "Open"
  /\ pipe' = [pipe EXCEPT !.matched = @ + 1]
  /\ LET view == Ingest(txn.view, PacketAt(pipe'.matched))
     IN  txn' = IF pipe'.matched = pipe.taken
                THEN Transaction("Staged", "Batch", Writeback(view))
                ELSE Transaction("Open", "Batch", view)
  /\ UNCHANGED <<live, epochs, ledger, plan, ideal, session>>

(* scan_pending_ttl has a transaction pair of its own and no watermark.    *)
Scan(now) ==
  /\ txn.stage = "Idle" /\ ~BatchFull
  /\ txn' = Transaction("Staged", "Scan", ScanPendingTtl(Begun, now))
  /\ LiveOf(txn'.view) # live
  /\ UNCHANGED <<live, epochs, ledger, pipe, plan, ideal, session>>

CommitEpoch ==
  /\ txn.stage = "Staged"
  /\ epochs' = [epochs EXCEPT ![Len(epochs)] = EpochOf(txn.view)]
  /\ txn' = [txn EXCEPT !.stage = "EpochDone"]
  /\ UNCHANGED <<live, ledger, pipe, plan, ideal, session>>

CommitLive ==
  /\ txn.stage = "EpochDone"
  /\ live' = LiveOf(txn.view)
  /\ txn' = [txn EXCEPT !.stage = IF txn.kind = "Scan" THEN "MarkDone" ELSE "LiveDone"]
  /\ UNCHANGED <<epochs, ledger, pipe, plan, ideal, session>>

(* Mutant: the watermark goes first.                                       *)
AdvanceWatermarkFirst ==
  /\ txn.stage = "Staged" /\ txn.kind = "Batch"
  /\ ledger' = [ledger EXCEPT !.mark = MaxOf(@, pipe.taken)]
  /\ UNCHANGED <<live, epochs, pipe, txn, plan, ideal, session>>

AdvanceWatermark ==
  /\ txn.stage = "LiveDone"
  /\ ledger' = [ledger EXCEPT !.mark = MaxOf(@, pipe.taken)]
  /\ txn' = [txn EXCEPT !.stage = "MarkDone"]
  /\ UNCHANGED <<live, epochs, pipe, plan, ideal, session>>

(* Where the ledger goes on: each list of events has a loop of its own,    *)
(* and the scan has only the first.                                        *)
NextLedgerStep ==
  CASE txn.stage = "MarkDone" /\ txn.view.meta # {} -> [txn EXCEPT !.stage = "AuditDone"]
    [] txn.stage # "MetaDone" /\ txn.view.archive # {} -> [txn EXCEPT !.stage = "MetaDone"]
    [] OTHER -> Idle

(* Mutant: the events of the timeout scan are dropped.                     *)
InsertBatchAnomalies ==
  /\ txn.stage = "MarkDone"
  /\ ledger' = [ledger EXCEPT !.audit = IF txn.kind = "Batch" THEN @ \cup txn.view.audit ELSE @]
  /\ txn' = NextLedgerStep
  /\ UNCHANGED <<live, epochs, pipe, plan, ideal, session>>

InsertAnomalies ==
  /\ txn.stage = "MarkDone"
  /\ ledger' = [ledger EXCEPT !.audit = @ \cup txn.view.audit]
  /\ txn' = NextLedgerStep
  /\ UNCHANGED <<live, epochs, pipe, plan, ideal, session>>

(* ext_meta_upsert, for each fingerprint of the batch: a hit of its kind.  *)
UpsertMeta ==
  /\ txn.stage = "AuditDone"
  /\ ledger' = [ledger EXCEPT !.hits = [k \in ProtocolKind |->
                  @[k] + Cardinality({e \in txn.view.meta : e.hint = k})]]
  /\ txn' = NextLedgerStep
  /\ UNCHANGED <<live, epochs, pipe, plan, ideal, session>>

(* upsert_conn_archive widens the window the archive has.                  *)
UpsertArchive ==
  /\ txn.stage = "MetaDone"
  /\ LET windows == ledger.archive \cup txn.view.archive
     IN  ledger' = [ledger EXCEPT !.archive =
                      {[first |-> Min({w.first : w \in windows}),
                        last |-> Max({w.last : w \in windows})]}]
  /\ txn' = NextLedgerStep
  /\ UNCHANGED <<live, epochs, pipe, plan, ideal, session>>

(* rotate_epoch runs from the tick, with no transaction open.              *)
RotateEpoch ==
  /\ txn.stage = "Idle" /\ ~BatchFull
  /\ Len(epochs) < plan.epochs
  /\ Last(epochs).recs # {}
  /\ epochs' = Append(epochs, EmptyEpoch)
  /\ UNCHANGED <<live, ledger, pipe, txn, plan, ideal, session>>

(* A commit fails: flush returns the error, which is logged, and the batch *)
(* it has taken is not put back.  A best-effort step that fails is skipped.*)
Fail ==
  /\ txn.stage \in plan.failAt
  /\ plan.failures > 0
  /\ txn' = IF txn.stage \in BestEffort THEN NextLedgerStep ELSE Idle
  /\ plan' = [plan EXCEPT !.failures = @ - 1]
  /\ UNCHANGED <<live, epochs, ledger, pipe, ideal, session>>

(* Mutant: the tail behind the watermark is kept and not read again.       *)
CrashKeepsTail ==
  /\ txn.stage \in plan.crashAt
  /\ plan.crashes > 0
  /\ pipe' = [pipe EXCEPT !.taken = Appended]
  /\ txn' = Idle
  /\ plan' = [plan EXCEPT !.crashes = @ - 1]
  /\ UNCHANGED <<live, epochs, ledger, ideal, session>>

(* Mutant: the replay starts from the beginning of the file.               *)
CrashFromStart ==
  /\ txn.stage \in plan.crashAt
  /\ plan.crashes > 0
  /\ pipe' = [hot |-> <<>>, source |-> 1, taken |-> 0, matched |-> 0]
  /\ txn' = Idle
  /\ plan' = [plan EXCEPT !.crashes = @ - 1]
  /\ UNCHANGED <<live, epochs, ledger, ideal, session>>

(* The process dies and restarts: open_or_recover truncates the hot file   *)
(* to the watermark.                                                       *)
Crash ==
  /\ txn.stage \in plan.crashAt
  /\ plan.crashes > 0
  /\ pipe' = [hot |-> SubSeq(pipe.hot, 1, ledger.mark),
              source |-> IF plan.resend THEN 1 ELSE ledger.mark + 1,
              taken |-> ledger.mark, matched |-> ledger.mark]
  /\ txn' = Idle
  /\ plan' = [plan EXCEPT !.crashes = @ - 1]
  /\ UNCHANGED <<live, epochs, ledger, ideal, session>>

(* Mutant: the live database is committed first.                           *)
LiveThenEpoch ==
  \/ /\ txn.stage = "Staged"
     /\ live' = LiveOf(txn.view)
     /\ txn' = [txn EXCEPT !.stage = "EpochDone"]
     /\ UNCHANGED <<epochs, ledger, pipe, plan, ideal, session>>
  \/ /\ txn.stage = "EpochDone"
     /\ epochs' = [epochs EXCEPT ![Len(epochs)] = EpochOf(txn.view)]
     /\ txn' = [txn EXCEPT !.stage = IF txn.kind = "Scan" THEN "MarkDone" ELSE "LiveDone"]
     /\ UNCHANGED <<live, ledger, pipe, plan, ideal, session>>
  \/ AdvanceWatermark
  \/ InsertAnomalies

CommitStep ==
  CommitEpoch \/ CommitLive \/ AdvanceWatermark \/ InsertAnomalies \/ UpsertMeta \/ UpsertArchive

IngestThread == Push \/ Flush \/ IngestNext \/ CommitStep

-----------------------------------------------------------------------------
(* A query session of another process.  Its registry takes the newest      *)
(* epoch there is for the current one; build takes a snapshot of the live  *)
(* database, then one of that epoch, and then lists the epochs there are.  *)
OpenRegistry ==
  /\ plan.reads /\ session.phase = "None"
  /\ session' = [session EXCEPT !.phase = "Registered", !.known = Len(epochs)]
  /\ UNCHANGED <<live, epochs, ledger, pipe, txn, plan, ideal>>

OpenedIn(list) == UNION {list[n].opened : n \in 1 .. Len(list)}

(* For the property below: the requests both databases have by now.        *)
There ==
  {q \in OpenedIn(epochs) :
     q \in live.live \/ \E n \in 1 .. Len(epochs) : \E r \in epochs[n].rows : r.q = q}

SnapshotLive ==
  /\ session.phase = "Registered"
  /\ session' = [session EXCEPT !.phase = "Live", !.live = live.live,
                    !.there = There]
  /\ UNCHANGED <<live, epochs, ledger, pipe, txn, plan, ideal>>

SnapshotEpoch ==
  /\ session.phase = "Live"
  /\ session' = [session EXCEPT !.phase = "Current", !.snap = epochs[session.known]]
  /\ UNCHANGED <<live, epochs, ledger, pipe, txn, plan, ideal>>

(* Mutant: the list ends with the registry's epoch.                        *)
ListKnown ==
  /\ session.phase = "Current"
  /\ session' = [session EXCEPT !.phase = "Built", !.listed = session.known]
  /\ UNCHANGED <<live, epochs, ledger, pipe, txn, plan, ideal>>

ListEpochs ==
  /\ session.phase = "Current"
  /\ session' = [session EXCEPT !.phase = "Built", !.listed = Len(epochs)]
  /\ UNCHANGED <<live, epochs, ledger, pipe, txn, plan, ideal>>

(* Mutant: the epoch first.                                                *)
BuildEpochFirst ==
  \/ /\ session.phase = "Registered"
     /\ session' = [session EXCEPT !.phase = "Live", !.there = There,
                       !.snap = epochs[session.known]]
     /\ UNCHANGED <<live, epochs, ledger, pipe, txn, plan, ideal>>
  \/ /\ session.phase = "Live"
     /\ session' = [session EXCEPT !.phase = "Current", !.live = live.live]
     /\ UNCHANGED <<live, epochs, ledger, pipe, txn, plan, ideal>>
  \/ ListEpochs

Build == SnapshotLive \/ SnapshotEpoch \/ ListEpochs

(* The epochs as the session reads them: of the one it takes for the       *)
(* current one its snapshot, and the others as they are when it opens them.*)
SessionEpochs ==
  [n \in 1 .. session.listed |-> IF n = session.known THEN session.snap ELSE epochs[n]]

Next ==
  \/ IngestThread
  \/ \E now \in plan.scans : Scan(now)
  \/ RotateEpoch
  \/ Fail
  \/ Crash
  \/ OpenRegistry
  \/ Build

Spec == Init /\ [][Next]_vars

(* The ingest thread goes on as long as the process lives, and a segment   *)
(* is sealed behind its last record, so the last batch is flushed too.     *)
(* This is weak fairness of IngestThread with its ENABLED written out; the *)
(* scan, which moves txn too, finds something to do finitely often only.   *)
ThreadReady == txn.stage # "Idle" \/ pipe.source <= Len(Log) \/ pipe.taken < Appended

FairSpec ==
  Spec /\ ([]<>~ThreadReady \/ []<><<ThreadReady /\ plan' = plan>>_<<pipe, txn>>)

-----------------------------------------------------------------------------
AllRows == UNION {epochs[n].rows : n \in 1 .. Len(epochs)}
AllRecs == UNION {epochs[n].recs : n \in 1 .. Len(epochs)}
AllOpened == UNION {epochs[n].opened : n \in 1 .. Len(epochs)}

EpochsWith(q) == {n \in 1 .. Len(epochs) : \E r \in epochs[n].rows : r.q = q}

(* The status of a request by its live row, or else by the oldest epoch    *)
(* that has a row for it; None if there is none.                           *)
StatusBy(pending, list, q) ==
  LET having == {n \in 1 .. Len(list) : \E r \in list[n].rows : r.q = q}
  IN  IF q \in pending THEN "Pending"
      ELSE IF having = {} THEN "None"
      ELSE (CHOOSE r \in list[Min(having)].rows : r.q = q).status

(* Mutant: only the current epoch is looked at.                            *)
LookupCurrent(q) == StatusBy(live.live, <<Last(epochs)>>, q)

(* qr_by_idx: the live database first, then the epochs from the oldest.    *)
Lookup(q) == StatusBy(live.live, epochs, q)

(* batch_statuses, over what the session reads.                            *)
Scanned(q) == StatusBy(session.live, SessionEpochs, q)

Done ==
  /\ txn = Idle
  /\ pipe.source > Len(Log)
  /\ ledger.mark = Appended

Undisturbed == plan.crashAt = {} /\ plan.failAt = {}

-----------------------------------------------------------------------------
(* LMDB first, SQLite last: whatever the moment of the crash, no record    *)
(* behind the watermark is missing from the index, since no replay will    *)
(* bring it back (commit_batch).                                           *)
MarkedIsIndexed ==
  \A n \in 1 .. ledger.mark : [ts |-> PacketAt(n).ts, idx |-> n] \in AllRecs

(* Epoch first, live second: at no moment has a request left the live      *)
(* database without its terminal row being in an epoch, unless a replay    *)
(* will open it again (QrMatcher::commit).                                 *)
NoRequestInLimbo ==
  ~plan.resend =>
    \A q \in AllOpened :
      q \in live.live \/ EpochsWith(q) # {} \/ q > ledger.mark

(* No commit is torn: no crash between the epoch's commit and the          *)
(* watermark, no failed live commit after the epoch's, and where there are *)
(* crashes no watermark that fails to be written and leaves a committed    *)
(* batch to be matched again.                                              *)
Untorn ==
  /\ plan.crashAt \cap {"EpochDone", "LiveDone"} = {} /\ "EpochDone" \notin plan.failAt
  /\ plan.crashAt # {} => "LiveDone" \notin plan.failAt

(* Migration is idempotent: a request has one terminal row in all epochs,  *)
(* if no commit is torn, or if the epoch is never rotated.  After a torn   *)
(* commit and a rotation the check for a row looks into the new epoch only *)
(* and the code writes a second one (migrate_terminal, scan_pending_ttl).  *)
OneTerminalRow ==
  Untorn \/ plan.epochs = 1 =>
    \A q \in 1 .. Appended :
      Cardinality(EpochsWith(q)) <= 1 /\ Cardinality({r \in AllRows : r.q = q}) <= 1

(* Replay converges: if every crash fell before the commit of the live     *)
(* database, then when the whole log is committed the rows and the pending *)
(* requests are those of a run that nothing disturbed.                     *)
BeforeLive == {"Idle", "Open", "Staged", "EpochDone"}

ReplayConverges ==
  Done /\ plan.scans = {} /\ plan.crashAt \subseteq BeforeLive /\ plan.failAt = {} /\ ~plan.resend =>
    /\ AllRows = ideal.view.rows
    /\ live = LiveOf(Writeback(ideal.view))

(* While the process lives, each request that ended by a timeout,          *)
(* unmatched or aborted has its audit event once its batch is committed    *)
(* (commit_batch and ttl_scan insert the events after the tables).         *)
AuditFollowsVerdict ==
  txn.stage = "Idle" /\ Undisturbed =>
    \A r \in AllRows :
      r.status # "Matched" => [q |-> r.q, status |-> r.status] \in ledger.audit

(* What is counted and archived beside the tables agrees with them.  The   *)
(* count of open requests never falls below the pending rows, and is their *)
(* number when nothing went wrong (qr_open).                               *)
OpenIsCounted ==
  /\ live.conn.open >= Cardinality(live.pend)
  /\ Undisturbed => live.conn.open = Cardinality(live.pend)

(* A connection bound by a rule leaves one fingerprint, however often it   *)
(* is born again and whatever is replayed (open_q, ext_meta_upsert).       *)
HitsCountBindings ==
  Resolve(live.conn.client) # {} =>
    \A k \in ProtocolKind \ {Unknown} :
        /\ ledger.hits[k] <= 1
        /\ txn.stage = "Idle" /\ Undisturbed /\ AllOpened # {} /\ live.conn.hint = k => ledger.hits[k] = 1

(* A connection that was reset is archived with a window that holds all    *)
(* its requests (upsert_conn_archive).                                     *)
ArchiveCoversRequests ==
  txn.stage = "Idle" /\ Undisturbed /\ live.conn.state = "Reset" =>
    \E a \in ledger.archive : \A q \in AllOpened : PacketAt(q).ts \in a.first .. a.last

SideTablesFollow == OpenIsCounted /\ HitsCountBindings /\ ArchiveCoversRequests

(* A session beside the ingest sees one story though it takes its          *)
(* snapshots and its list of epochs at different moments and reads the     *)
(* newer epochs later still: whenever it is asked, a verdict it reports is *)
(* the verdict, and it knows a status of every request both databases had  *)
(* at its first snapshot (build).                                          *)
SessionMissesNothing ==
  session.phase = "Built" =>
    /\ \A q \in session.there : Scanned(q) # "None"
    /\ \A q \in OpenedIn(SessionEpochs) :
         Scanned(q) \in Status => \E r \in AllRows : r.q = q /\ r.status = Scanned(q)

(* What a lookup reports of a request behind the watermark follows the     *)
(* life cycle of a request; one beyond it may have to be opened again, and *)
(* after a resend its place is another record's.                           *)
Lifecycle ==
  INSTANCE QrLifecycle WITH
    Requests <- 1 .. Len(Log),
    Verdict <- Status,
    status <- [q \in 1 .. Len(Log) |->
                 IF q <= ledger.mark /\ ~plan.resend THEN Lookup(q) ELSE "None"]

LifecycleSpec == Lifecycle!Spec

(* The whole log is committed in the end, however often the process dies,  *)
(* unless a commit fails.                                                  *)
EventuallyCommitted == plan.failAt \subseteq BestEffort => <>[]Done
=============================================================================
