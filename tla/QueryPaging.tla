---------------------------- MODULE QueryPaging ----------------------------
(***************************************************************************)
(* Queries over the epoch databases (src/src/query.rs): a session prunes   *)
(* the epochs by a time window, takes a snapshot of the current one, opens *)
(* the others as it comes to them, and returns the rows in pages, a cursor *)
(* saying where the next page starts.  The service writes and rotates the  *)
(* epochs meanwhile (maybe_rotate_epoch), reader and service being         *)
(* processes of their own.                                                 *)
(*                                                                         *)
(* A row is a key of RECORD_TS, a time and a packet's index; the rows of   *)
(* QR_TIME and CONN_QR are kept and paged the same way.  All records       *)
(* belong to one connection.                                               *)
(***************************************************************************)
EXTENDS Integers, FiniteSets, FiniteSetsExt

CONSTANTS
  MaxTs,       \* bound: times are 1 .. MaxTs
  MaxRecords,  \* bound: records written
  MaxEpoch,    \* bound: epochs are 0 .. MaxEpoch
  Scenarios    \* what is asked, and what may happen beside it

ASSUME PagingAssumption ==
  /\ {MaxTs, MaxRecords, MaxEpoch} \subseteq Nat
  /\ Scenarios \subseteq
       [limit: Nat \ {0},     \* Page.limit
        forward: BOOLEAN,     \* Page.forward
        byConn: BOOLEAN,      \* a session of open_for_conn, else of open_with_window
        reordered: BOOLEAN,   \* records may be captured behind later ones
        epochs: 0 .. MaxEpoch,\* bound: the last epoch
        crashes: Nat,         \* bound: crashes of the service behind the epoch's
                              \* commit and before the watermark
        failed: Nat,          \* bound: rotations that fail after making the directory
        dropped: SUBSET Nat]  \* the packets a status filter, or a request that is
                              \* in no database, keeps from the answer

Time == 1 .. MaxTs
EpochNum == 0 .. MaxEpoch
Key == [ts : Time, idx : 1 .. MaxRecords]
Row == [epoch : EpochNum, key : Key]

(* What stands for None: no value of the code is equal to it.              *)
NoCursor == [epoch |-> 0, key |-> [ts |-> 0, idx |-> 0]]
NoBounds == [min |-> MaxTs + 1, max |-> 0]
NoConn == [first |-> MaxTs + 1, last |-> 0]

VARIABLES
  scenario, \* never changes
  epochs,   \* the keys in each epoch's database
  current,  \* the service's epoch_num
  made,     \* the highest epoch that has a directory
  bounds,   \* the epochs table of the ledger: the times of a frozen epoch
  batch,    \* the records of a commit whose epoch is committed and live is not
  conn,     \* first_ts and last_ts of the connection's state
  seen,     \* for the promise: the records live has been committed with
  redo,     \* what the source sends again after a crash
  session,  \* the reader's session
  cursor,   \* the next page starts behind it
  got,      \* the rows returned so far
  count     \* records, crashes and failed rotations so far

service == <<scenario, epochs, current, made, bounds, batch, conn, seen, redo, count>>
reader == <<scenario, session, cursor, got>>
vars == <<service, reader>>

AllTime == [from |-> 1, to |-> MaxTs]
Windows == {w \in [from : Time, to : Time] : w.from <= w.to}

(* phase: "Closed", "Opened" (the registry), "Windowed", "Paging", "Done". *)
NoSession == [phase |-> "Closed", last |-> 0, pruning |-> AllTime,
              window |-> AllTime, promised |-> {}, targets |-> {}, snap |-> {},
              again |-> FALSE]

Init ==
  /\ scenario \in Scenarios
  /\ epochs = [e \in EpochNum |-> {}]
  /\ current = 0 /\ made = 0
  /\ bounds = [e \in EpochNum |-> NoBounds]
  /\ batch = {} /\ conn = NoConn /\ seen = {}
  /\ redo = {}
  /\ session = NoSession /\ cursor = NoCursor /\ got = {}
  /\ count = [records |-> 0, crashes |-> 0, failed |-> 0]

-----------------------------------------------------------------------------
(* A batch of one record: the epoch's transaction is committed first       *)
(* (commit).                                                               *)
Write(ts) ==
  /\ redo = {} /\ batch = {}
  /\ count.records < MaxRecords
  /\ scenario.reordered \/ conn = NoConn \/ ts >= conn.last
  /\ LET key == [ts |-> ts, idx |-> count.records + 1]
     IN  /\ epochs' = [epochs EXCEPT ![current] = @ \cup {key}]
         /\ batch' = {key}
  /\ count' = [count EXCEPT !.records = @ + 1]
  /\ UNCHANGED <<current, made, bounds, conn, seen, redo, reader>>

(* Then live's.  last_ts is the time of the record that was handled last,  *)
(* whatever came before (ingest).                                          *)
Handled(ts) == IF conn = NoConn THEN [first |-> ts, last |-> ts]
               ELSE [conn EXCEPT !.last = ts]

CommitLive ==
  /\ \E k \in batch : conn' = Handled(k.ts)
  /\ seen' = seen \cup batch
  /\ batch' = {}
  /\ UNCHANGED <<epochs, current, made, bounds, redo, count, reader>>

(* The service dies after the epoch's commit, on either side of live's,    *)
(* and before the watermark, and opens the highest epoch again.            *)
Crash ==
  /\ redo = {} /\ count.crashes < scenario.crashes
  /\ \E k \in epochs[current] : k.idx = count.records /\ redo' = {k}
  /\ batch' = {}
  /\ current' = made
  /\ count' = [count EXCEPT !.crashes = @ + 1]
  /\ UNCHANGED <<epochs, made, bounds, conn, seen, reader>>

(* The source sends the record again, and NO_OVERWRITE keeps it from the   *)
(* epoch it is in already; the commit of live follows as ever.             *)
Replay ==
  /\ redo # {}
  /\ epochs' = [epochs EXCEPT ![current] = @ \cup redo]
  /\ batch' = redo
  /\ redo' = {}
  /\ UNCHANGED <<current, made, bounds, conn, seen, count, reader>>

(* maybe_rotate_epoch: the boundaries go to the ledger, then rotate_epoch  *)
(* makes the next database and switches to it.  An empty epoch has none.   *)
TimesOf(e) == {k.ts : k \in epochs[e]}

BoundsOf(e) ==
  IF epochs[e] = {} THEN NoBounds
  ELSE [min |-> Min(TimesOf(e)), max |-> Max(TimesOf(e))]

Freeze == bounds' = [bounds EXCEPT ![current] = BoundsOf(current)]

Highest == Max({made, current + 1})

Rotate ==
  /\ batch = {} /\ current < scenario.epochs
  /\ Freeze
  /\ current' = current + 1
  /\ made' = Highest
  /\ UNCHANGED <<epochs, batch, conn, seen, redo, count, reader>>

(* open_env has made the directory and open_dbis fails: the service stays  *)
(* where it is until the next tick.                                        *)
RotateFails ==
  /\ batch = {} /\ current < scenario.epochs /\ count.failed < scenario.failed
  /\ Freeze
  /\ made' = Highest
  /\ count' = [count EXCEPT !.failed = @ + 1]
  /\ UNCHANGED <<epochs, current, batch, conn, seen, redo, reader>>

-----------------------------------------------------------------------------
(* prune_targets_by_window: an epoch goes when its times miss the window;  *)
(* the current one and one without a row in the ledger stay.               *)
Kept(e, last, w) ==
  \/ e = last
  \/ bounds[e] = NoBounds
  \/ ~(bounds[e].max < w.from \/ bounds[e].min > w.to)

Within(k, w) == k.ts \in w.from .. w.to

(* DbRegistry::open_with: the reader takes the highest epoch there is for  *)
(* the current one, and keeps to it.                                       *)
OpenRegistry ==
  /\ session.phase = "Closed"
  /\ session' = [NoSession EXCEPT !.phase = "Opened", !.last = made]
  /\ UNCHANGED <<service, cursor, got>>

(* The query proper begins here: promised is what is on disk by now, as    *)
(* far as the window the epochs are pruned by is to know of it.            *)
Begin(pruning, scan, known) ==
  /\ session.phase = "Opened"
  /\ session' = [session EXCEPT
       !.phase = "Windowed", !.pruning = pruning, !.window = scan,
       !.promised = {r \in Row : /\ r.key \in epochs[r.epoch] \cap known
                                 /\ Within(r.key, scan)}]
  /\ UNCHANGED <<service, cursor, got>>

OpenWithWindow == ~scenario.byConn /\ \E w \in Windows : Begin(w, w, Key)

(* conn_window: the live state of the connection gives the window that the *)
(* epochs are pruned by, and nothing is pruned if it has none; the scan    *)
(* itself has no window.  The window is that of the last commit of live.   *)
OpenForConn ==
  /\ scenario.byConn
  /\ IF conn = NoConn THEN Begin(AllTime, AllTime, Key)
     ELSE Begin([from |-> conn.first, to |-> conn.last], AllTime, seen)

(* QuerySession::build: the snapshot, the list of epochs and its pruning.  *)
Build ==
  /\ session.phase = "Windowed"
  /\ session' = [session EXCEPT
       !.phase = "Paging", !.snap = epochs[session.last],
       !.targets = {e \in 0 .. made : Kept(e, session.last, session.pruning)}]
  /\ UNCHANGED <<service, cursor, got>>

-----------------------------------------------------------------------------
Content(e) == IF e = session.last THEN session.snap ELSE epochs[e]

KeyBefore(a, b) == a.ts < b.ts \/ (a.ts = b.ts /\ a.idx < b.idx)
Before(r, s) == r.epoch < s.epoch \/ (r.epoch = s.epoch /\ KeyBefore(r.key, s.key))

InScan ==
  {r \in Row : /\ r.epoch \in session.targets
               /\ r.key \in Content(r.epoch)
               /\ Within(r.key, session.window)}

(* Mutant: the cursor's own row is read again.                             *)
AheadOrAt(r) ==
  /\ IF scenario.forward THEN r.epoch >= cursor.epoch ELSE r.epoch <= cursor.epoch
  /\ cursor # NoCursor /\ r.epoch = cursor.epoch =>
       \/ r = cursor
       \/ IF scenario.forward THEN KeyBefore(cursor.key, r.key) ELSE KeyBefore(r.key, cursor.key)

(* parse_cursor reads no cursor as epoch 0 (NoCursor's); the epochs before *)
(* it (behind it, backward) are passed over, and in its own epoch a page   *)
(* starts behind its key, if there is one.                                 *)
Ahead(r) ==
  /\ IF scenario.forward THEN r.epoch >= cursor.epoch ELSE r.epoch <= cursor.epoch
  /\ cursor # NoCursor /\ r.epoch = cursor.epoch =>
       IF scenario.forward THEN KeyBefore(cursor.key, r.key) ELSE KeyBefore(r.key, cursor.key)

Sooner(r, s) == IF scenario.forward THEN Before(r, s) ELSE Before(s, r)

(* page_rows_epochs and paged: the first limit rows ahead of the cursor;   *)
(* there is more if the page is full.                                      *)
FirstRows(rows, some) ==
  /\ Cardinality(some) = Min({scenario.limit, Cardinality(rows)})
  /\ \A r \in some, s \in rows \ some : Sooner(r, s)

LastRow(rows) == CHOOSE r \in rows : \A s \in rows \ {r} : Sooner(s, r)

(* scan_conn_qr and scan_time_qr ask batch_statuses for the status of the  *)
(* requests of a page and drop what the filter does not let pass; cursor   *)
(* and has_more come from the page as it was before.                       *)
Passing(some) == {r \in some : r.key.idx \notin scenario.dropped}

(* Mutant: there is more if as many rows have passed as fit in a page.     *)
PageOfPassing ==
  /\ session.phase = "Paging"
  /\ LET rows == {r \in InScan : Ahead(r)}
     IN  \E some \in SUBSET rows :
           /\ FirstRows(rows, some)
           /\ got' = got \cup Passing(some)
           /\ cursor' = IF some = {} THEN cursor ELSE LastRow(some)
           /\ session' = [session EXCEPT
                !.phase = IF Cardinality(Passing(some)) >= scenario.limit THEN "Paging" ELSE "Done",
                !.again = @ \/ some \cap got # {}]
  /\ UNCHANGED service

Page ==
  /\ session.phase = "Paging"
  /\ LET rows == {r \in InScan : Ahead(r)}
     IN  \E some \in SUBSET rows :
           /\ FirstRows(rows, some)
           /\ got' = got \cup Passing(some)
           /\ cursor' = IF some = {} THEN cursor ELSE LastRow(some)
           /\ session' = [session EXCEPT
                !.phase = IF Cardinality(some) >= scenario.limit THEN "Paging" ELSE "Done",
                !.again = @ \/ some \cap got # {}]
  /\ UNCHANGED service

Close ==
  /\ session.phase = "Done"
  /\ session' = NoSession /\ cursor' = NoCursor /\ got' = {}
  /\ UNCHANGED service

Service == (\E ts \in Time : Write(ts)) \/ CommitLive \/ Crash \/ Replay \/ Rotate \/ RotateFails
Reader == OpenRegistry \/ OpenWithWindow \/ OpenForConn \/ Build \/ Page \/ Close

Next == Service \/ Reader
Spec == Init /\ [][Next]_vars

(* A reader goes on while pages are full.                                  *)
FairSpec == Spec /\ WF_vars(Page)

-----------------------------------------------------------------------------
(* What a scan is complete for: no rotation has failed half way; a scan    *)
(* that goes backward has one epoch to go through, since its first page,   *)
(* without a cursor, begins in epoch 0 whatever epochs there are; and one  *)
(* by connection sees its records in the order they were captured in,      *)
(* since last_ts is the last one's.                                        *)
Askable ==
  /\ scenario.failed = 0 /\ (scenario.forward \/ scenario.epochs = 0)
  /\ scenario.byConn => ~scenario.reordered

(* A scan as in Askable that has come to its end has returned every row    *)
(* that was there when it began and that the filter lets pass, whatever    *)
(* was written and rotated meanwhile, however the pages fell on the        *)
(* epochs, and whichever epochs were pruned.  By connection, the rows that *)
(* were there are those both databases had: one of a batch whose commit of *)
(* live is still to come, or after a crash is to be replayed, may lie in   *)
(* an epoch that is rotated and pruned (conn_window).                      *)
ScanIsComplete ==
  Askable /\ session.phase = "Done" => Passing(session.promised) \subseteq got

(* No page repeats a row of an earlier one: the cursor excludes what was   *)
(* returned (scan_epoch_range).                                            *)
NoRowTwice == ~session.again

(* Every scan comes to an end: each page moves the cursor, and the epochs  *)
(* behind the newest are frozen, so the pages run out.                     *)
ScanEnds == session.phase = "Paging" ~> session.phase = "Done"
=============================================================================
