# sovVault in TLA+

sovVault takes network captures from probes, rebuilds the byte streams of their
segment files, matches requests with responses, and keeps the result in LMDB
databases with a SQLite ledger beside them. This directory models the parts of
`src/src/` that decide what is kept and what is lost, checks them with TLC, and
proves with TLAPS all safety properties of the reassembly engine, of the live ingest
around it, of the translation of sequence numbers and of the hot files, the agreement of
the match engine's tables, the order of the keys, nearly all safety properties of the
commit with its refinement of the life cycle of a request, and the safety of the paging.

## 1. The system

```
 source --chunks, seals--> LiveIngest --> Reassembler --bytes--> WAL decoder
                              ^  |ticks                            | records
                              |  +-- refills, TTL scan, rotation   v
                           GapQuery                          BatchPipeline
                                                             |          |
                                             HotFileWriter <-+          v
                                             files, rows         QrMatcher: SeqStream,
                                                  |              connection, requests
                                                  v                     |
                                        Ledger (SQLite) <--watermark-- live LMDB, epoch LMDBs
                                                                        ^
                                                     QuerySession ------+
```

| Component | State | Operations | What is hard |
|---|---|---|---|
| Reassembler (`reassembly.rs`) | segments with a cursor and waiting chunks, three byte counters, quarantine, clock | `place_chunk`, `seal`, `set_now` | any order, overlap and duplicates; one call evicts, quarantines, inserts and drains; counters are subtracted unchecked |
| LiveIngest (`ingest/zenoh.rs`) | refills in flight, decoders, pipelines | `on_batch`, `on_chunk`, `on_seal`, `on_tick` | seals on a subscription of their own, lost chunks, late or double answers, bounded retries |
| SeqStream (`qr.rs`) | raw and absolute head of a stream | `reset_baseline`, `abs_of`, `feed_packet` | 32-bit wrap, reordering, retransmission, joining midway |
| QrMatcher (`qr.rs`) and TTL scan (`anomaly.rs`) | connection state, pending requests, timeout rows, verdicts | `ingest`, `scan_pending_ttl` | five-tuple reuse, late resets and SYNs, partial acknowledgements, a timeout beside the answer |
| BatchPipeline (`batch.rs`) and the commit (`qr.rs`, `db.rs`, `ledger.rs`) | the batch, two transactions, watermark, audit rows, epochs | `push_record`, `flush`, `commit_batch`, scan, rotation, replay | a crash or a failure between four commits; a rotation between a crash and its replay |
| HotFileWriter (`batch.rs`, `ledger.rs`) | segment files, their ledger rows, the handle | `open_or_recover`, `append`, `rotate` | a crash between sealing one row and inserting the next; truncation and offsets used again |
| QuerySession (`query.rs`) | snapshots, pruned epochs, cursor | open, pages, lookup | the service writes, rotates and fails while a reader pages |
| WAL scan (`walscan.rs`), offline ingest (`ingest/offline.rs`), the live decoder (`zenoh.rs`) | a read position and what is left of the last read | `scan_reader`, `scan_all`, `feed` | reads and chunks cut records anywhere; damage; a file that grows or is cut back under the reader |
| Export (`export.rs`, `replay_scan` of `query.rs`) | open files, counters | `PcapSink::record`, `WalResolver::load` | a row that outlives its record |
| Keys and locators (`id.rs`, key builders of `db.rs`) | none | encoding, range bounds | fixed widths, order of bytes against order of meaning |
| Metadata (`meta.rs`, `qr.rs`) | the rule bound to a connection, fingerprints | `resolve`, `bind_and_extract`, `ext_meta_upsert` | once per connection although packets, births and replays repeat |
| Decrypt, config, main, util | none that outlives a call | parsing, formatting | not modelled, see 7 |

One thread runs the ingest loop, so a handler is never interleaved with another
handler; what is interleaved is the network, the ticks, crashes and failures at
each commit, and readers, which are processes of their own.

What makes each part correct:

- Reassembler: bytes are handed on once, in order and without holes; nothing
  that could be handed on waits; budgets bound what waits; quarantine is final.
- LiveIngest: decoder and cursor move together; every refill ends; a segment
  whose seal comes behind one of its chunks is healed or given up, and what is
  released was pushed to the pipeline.
- SeqStream: absolute numbers are true positions; bytes are new once.
- QrMatcher: each request has one pair and at most one verdict, a true one;
  tables agree with each other and with the audit events.
- Commit: what is behind the watermark is indexed; a replay converges; one
  verdict in all epochs.
- HotFileWriter: one open row, an index that tells the file, and recovery always
  possible.
- QuerySession: a scan returns all that was there, once; a session that takes its
  two snapshots at two moments and lists the epochs at a third misses no request that
  both databases had when it was opened.
- Readers of files: a scan takes the records before the first damage and none
  behind it; the chunked decoder agrees with it; an export counts each row once.
- Keys: keys compare as what they mean, a range holds what it should, and a
  row that is written is read back.

## 2. Modules

| Module | Models | Extends | Runs |
|---|---|---|---|
| `Reassembly` | `reassembly.rs` | | `MCReassembly` |
| `ReassemblyProofs` | theorems about it (types, order, caps, counters, evictions, quarantine) and about `LiveIngest` | `LiveIngest`, `SumProofs`, `TLAPS` | |
| `SumProofs` | lemmas: sums over finite sets | `Functions`, `TLAPS` | |
| `LiveIngest` | `zenoh.rs` around the engine, source and network | `Reassembly` | `MCLiveIngest` |
| `SeqStream` | the translator of `qr.rs` as operators | | |
| `StreamTracking` | the translator fed by a sender and a tap | `SeqStream` | `MCStreamTracking` |
| `StreamProofs` | theorems about it | `StreamTracking`, `TLAPS` | |
| `QrEngine` | `ingest`, `scan_pending_ttl` and the end of a batch as operators on the tables | `SeqStream` | |
| `QrMatch` | the engine fed with a TCP conversation | `QrEngine` | `MCQrMatch` |
| `QrMatchProofs` | theorems about it | `QrMatch`, `TLAPS` | |
| `QrLifecycle` | abstract: what a lookup reports of a request over time | | |
| `CommitProtocol` | batches, two transactions, ledger, crash, replay, epochs, a session beside them; implements `QrLifecycle` | `QrEngine` | `MCCommitProtocol` |
| `CommitProofs` | theorems about it | `CommitProtocol`, `SumProofs`, `TLAPS` | |
| `HotFile` | files, rows, recovery, barriers | | `MCHotFile` |
| `HotFileProofs` | theorems about it | `HotFile`, `TLAPS` | |
| `QueryPaging` | sessions, pruning, cursors, pages and filters beside a writing service | | `MCQueryPaging` |
| `PagingProofs` | theorems about it | `QueryPaging`, `TLAPS` | |
| `Keys` | locators, keys, range bounds, the row of a request, as operators | | |
| `WalReaders` | the scan, the decoder and the export over files that are written meanwhile | `Keys` | `MCWalReaders` |
| `ReadersProofs` | theorems about `Keys` and `WalReaders` | `WalReaders`, `SumProofs`, `TLAPS` | |

The engine is written once, in `QrEngine`, as operators from tables to tables.
`QrMatch` commits each packet at once and has the two ends beside it, so a
verdict can be compared with what happened. `CommitProtocol` applies the same
operators to a fixed log in batches and is concerned with where a commit breaks
off. `HotFile` has what `CommitProtocol` leaves out, the files, and `WalReaders`
has those who read them. `Keys` has the code's widths as constants, so what is
proved of them holds for 2^16, 2^32, 2^48 and 2^64, while `WalReaders` evaluates
the same operators with small ones.

### State and code

- `Reassembly`: `buf` is the struct `Reassembler` (`segs`, `conn` for
  `conn_pending`, `global`, `quarantined`, `streak` and `window` for `evict`);
  `events` is the return value. A chunk's bytes are its offsets. The loop of
  `drain_contiguous` is the relation `Popped`, which fixes the popped chunks and
  the cursor they leave, and needs no recursion. Ties between
  eviction victims follow the HashMap's order in the code and are free here.
- `LiveIngest`: `refills` is the map of `RefillState`; the tick walks over the
  keys it found (`visiting`), one step each. `decoders` counts the bytes fed,
  `stored` is what was pushed; of what a drain has decoded it may lose any part
  (`Droppings`), since a pipeline that cannot be opened drops all of it and a failed push
  its record. That `feed` clears a residue that grows over WAL_RESIDUAL_CAP is not
  here but in `WalReaders`: it takes a record longer than a segment of these bounds. `wire`, `queries` and `Answer` stand for the source
  and the network, which are not in the repository: replies to a query are
  discarded by the code, so an answer is a publication like the first one.
  `known` is a record of what became of each segment.
- `StreamTracking`: raw numbers are modulo `SeqSpace`, a small even number in
  place of 2^32, with the signed difference of `diff`; the assumption on the window says a
  segment lies less than half the space behind, as with real TCP.
- `QrEngine`: a `view` has the rows of LIVE_CONN_STATE, LIVE_QR_PAIR,
  LIVE_QR_PENDING, LIVE_PENDING_TTL and EPOCH_QR_PAIR. Keys keep the fields the
  code builds them from, since two requests may share a key of PENDING_TTL. A
  packet carries the `kind` its payload would be recognised as; `MetaBinds` is the list of rules
  by port, and `Bind` what a first request makes of both. `Writeback` is the end
  of a batch, which sets the count of open requests anew.
- `CommitProtocol`: `txn.stage` says how far the commits have come: the epoch
  database, the live one, the watermark, and three best-effort steps of the
  ledger (audit events, fingerprints, archived connections). `Crash` drops what
  is not committed. `pipe.hot` lists which packet of the log lies at each place of the
  recorded files: after a restart that sends the whole segment again a
  packet lies at two. `session` is a reader: `known` is the epoch its registry takes for
  the current one, `live` and `snap` are its two snapshots, and `listed` says how
  many epochs there were when `build` listed the directories, behind both. `there`
  are the requests both databases had at the first snapshot, of which the property
  speaks. `ideal` is a run nothing disturbs.
- `HotFile`: `todo` is what is left of the handler at work, a list of steps on
  disk and databases; `Crash` and `Fail` strike before a step, and `Die` is what a
  crash and a panic have in common.
- `QueryPaging`: `session.phase` splits opening a session where the code reads
  from different places: the registry, the connection's window, the directories and
  the ledger. A record is committed in two steps, first in its epoch, then, as
  `CommitLive`, in the connection's state; `batch` is what lies between them, and `seen`
  remembers for the property what live has been committed with. A historical epoch is read as it is when a page comes to it. What
  a status filter keeps from the answer is a set of packets (`dropped`), since the
  filter looks at a page after it is cut.
- `Keys`: a key stands for the number its bytes spell, the row of a request for its
  sequence of words.
- `WalReaders`: a file is a list of blocks, each good, with a damaged header or
  with a wrong checksum; positions are bytes. A read or a chunk brings any
  number of bytes up to a bound. The writer appends, and when it restarts it cuts its file back to the
  watermark and writes what is sent then, `resent`. The export goes through the
  epochs and, in each, through the rows of its window by key, as the range scan of
  `replay_epoch_range` does. A scenario is assumed to be one that was recorded
  (`Recorded`): the watermark is where a record ends, no further than what is written, and a row
  is made of the record at its place. `HotFile` shows both of the writer
  (`LeftFileIsCommitted`, `IndexTellsTheFile`); here they are assumed, since
  `WalReaders` begins with the files as they are.

### Scenarios

What the environment may do is a rigid variable chosen in `Init` from a constant
set: `tap` (`StreamTracking`), `talk` (`QrMatch`), `plan` (`CommitProtocol`),
`faults` (`HotFile`), `scenario` (`QueryPaging`), `scene` (`WalReaders`), `net`
(`LiveIngest`). One run covers all members of
its set, and a property that only holds under some of them says so in its own
text, as `~talk.partial => ...` or `plan.failAt = {} => ...`. The counters of
crashes and failures that are left live in `plan`, `scene` and `HotFile`'s `faults`
and count down. `tap.joined` is the length of the packet at which a capture begins in the
middle of a stream, 0 if it begins with the SYN, and `talk.midway` the same for a
conversation.
The members are defined in the MC modules.

Definitions with "Mutant:" above them are deliberate errors, each a variant of
the definition that follows it. No specification uses them; `PROJECT.json`
names the property that each of them breaks.

## 3. Runs that pass

| Run | Shows |
|---|---|
| `reassembly` | two devices overrun all budgets while the clock moves: counters are consistent (no unchecked subtraction underflows), a segment keeps to its cap, nothing ready waits, quarantine is final and comes from a burst within a window, L3 evicts last, the cursor moves only with the bytes |
| `live_ingest` | a segment against small budgets, with two chunks lost and answers in time, one lost, one doubled and answers late, a seal that overtakes its segment, or pushes that fail: the overshoot of L2.5 is bounded and the decoder stays aligned throughout; while no push fails, what is released was pushed in whole, and once when nothing is doubled or late; a seal behind one of its chunks heals or is settled |
| `stream_tracking` | from the SYN or joined midway, in order through wraps, new bytes are exactly those captured first; out of order the head is true and a number ahead of it is translated right |
| `qr_verdict` | three generations: tables agree with each other, verdicts are true, exactly the requests sent are opened, an answered one is settled; with partial acknowledgements and late resets the last still holds, and with late SYNs the tables still agree |
| `qr_timeout` | timeouts are patient and every request settles, also when the capture begins with a request |
| `commit_protocol` | crashes, failures of the ledger, scans, rotations and a full resend between the commits: the watermark covers only what is indexed, no request is in limbo, one verdict, counts, fingerprints and archive follow the tables, a session misses nothing, the life cycle `QrLifecycle` is implemented, replay converges, the log gets committed |
| `hot_file` | crashes and failures at every step: one open row, index and file agree, a file that is left is committed, the pipeline comes back |
| `query_paging` | scans by time and by connection, filtered or not, beside the two commits of a batch, a crash between or behind them, and rotations, one of which may fail: complete where `Askable`, without repetition, finite |
| `wal_readers` | every cut of the bytes into reads and chunks, over all files of up to four blocks, and beside a writer that restarts: a scan is exact, the decoder agrees with it, an export is faithful, also where a summary cannot be decoded |

`CHECK_DEADLOCK FALSE` is set in all configurations but that of `Reassembly`,
because their bounds (records, packets, crashes, epochs) let the model stop.

### Bounds

| Runs | Bounds | Why they are enough |
|---|---|---|
| `reassembly` | two devices with a segment of 4 bytes each, chunks of 1 or 2, caps of 3, 1 and 3, quarantine after two evictions in a window of 0, the clock at 0 and 1 | overlaps, replacements at one offset, a chunk that bridges a hole, evictions among both devices, each cap met by itself, a burst and two evictions that are none |
| `live_ingest` | one segment of 6 bytes in chunks of up to 2, records of 3, budgets of 6, 2 and 9, 3 rounds, 2 losses or 1 with a double, an overtaking seal with answers in time and, with failing pushes, with late ones | records span chunks; losses exhaust the rounds; refills run the budget down to an error and to quarantine |
| `stream_tracking` | 16 raw numbers, segments up to 3, a window of 4, start numbers on both sides of each half, 34 numbers in order, 9 out of order, 12 and 7 when joined midway | every kind of wrap: within a segment, between two, within a retransmission |
| `qr_verdict` | 16 raw numbers, three generations, 11 packets (9 with late resets, 8 with late SYNs), payloads of up to 3 | two requests pending at once, three generations over an incarnation number modulo 2, a wrap within a generation |
| `qr_timeout` | two generations, 8 packets (5 midway), a clock to 15 (10 midway), timeouts of 4 and 2 | a deadline passed and one not, with a FIN and without; the second request a midway capture opens |
| `commit_protocol` | a log of eleven packets, two generations, a rule that matches and one that does not, batches of up to four, three crashes or two failures, three epochs without a fault, beside a session and with a crash that tears no commit, two with failures of the ledger | each crash window with a batch before and after it, batches cut anew, a rotation between any two batches, each snapshot and the listing of the epochs at any step |
| `hot_file` | seven records of 1 to 3 units, files of 2, two crashes anywhere or three outside an opening, two failures, one crash with two failures outside the watermarks' transaction, five files | a record that does not fit, one longer than a file, a crash during recovery |
| `query_paging` | up to four records, three epochs, two times, pages of one or two, two of the records filtered, one crash by time with two epochs and by connection with three, a backward scan over one epoch and over two | pages that end within an epoch and on its end, equal times, a page of which nothing passes, a rotation at every step of a reader |
| `wal_readers` | headers of 2 bytes, reads of up to 3, a decoder that holds 6, all files of up to 4 blocks of five shapes, one restart | a header, a record and a checksum cut by a read; a damaged header longer and shorter than what a read brings; a record the decoder cannot hold; the same and other records written after a restart |

### Fairness

- `LiveIngest`: the loop selects fairly between channel and timer, so delivery
  and ticks go on; that a source answers is an assumption about the source.
- `QrMatch`: time passes and the ticks of `on_tick` scan.
- `CommitProtocol`: the single thread goes on with its handler. `FairSpec` writes
  weak fairness of `IngestThread` out with its enabling condition `ThreadReady`, which is
  cheaper to evaluate than ENABLED of the matching engine and means the same.
- `HotFile`: a handler runs to its end, and data keeps coming, so a pipeline that
  is not there is opened.
- `QueryPaging`: a reader goes on while pages are full (`stream_qrs`).

No run assumes strong fairness or anything of the order of deliveries. Two of the
four scenarios of `live_ingest` have answers arrive before the next tick
(`net.prompt`), and in two a seal follows one of its segment's chunks
(`net.inOrder`); the liveness properties name what they need of both. `WalReaders` has no liveness property: how often a reader is
scheduled is no matter of this code.

## 4. Runs that refute

Each checks what a comment or a document of the repository says, and TLC shows a
behaviour of the code where it fails. `PROJECT.json` quotes the lines under
`findings`.

| Run | Statement refuted |
|---|---|
| `qr_acknowledged` | a response settles only the requests it acknowledges: a number behind the head is read as the head |
| `commit_lost_batch` | a commit that fails leaves the watermark, and the next round replays from there: the batch is gone, and the next one moves the watermark over it |
| `hot_lost_file` | recovery never meets the old file: a crash between the new file and its row leaves a file that `create_new` finds at every later attempt |

### What lies outside the properties' conditions

Conditions in the properties, and bounds of the scenarios, exclude behaviours
that the code does have. They are not checked as errors, since most are trade-offs, but a
reader should know of them:

- Reassembly: L2.5 and L3 are not hard gates, one eviction is followed by the
  insertion whatever the sizes (`OvershootBounded` says by how much for L2.5). A
  chunk that replaces one at its offset is charged again until the segment
  drains or is dropped. The chunk at hand is inserted even if the eviction has just
  quarantined its device. A cap of 0 lets nothing wait. The clock moves only in `set_now`,
  which the service does not call, so there an eviction never expires.
- LiveIngest: a chunk that arrives after a release begins the segment anew, though
  `zenoh.rs:10` calls the refill idempotent: it takes no more than a query that is answered
  when the chunks it asked for have come late and completed the segment. Its records are
  then stored twice (`ReleasedIsStored` has the condition). A refill
  sends again what already waits and is charged for it, so with tight budgets
  rounds run out. Seals have a subscription of their own (`zenoh.rs:703`): one that overtakes all chunks of its segment
  finds no segment, reports no gap and is forgotten (`zenoh.rs:219`), so that nothing asks for what
  is lost of the segment and nothing releases it. Both liveness properties exclude this in
  their text, and both are violated without the condition. A record whose push fails, or whose
  pipeline cannot be opened (`zenoh.rs:332`), is logged and lost, and the segment is
  released all the same (`ReleasedIsStored` has the condition).
- Configuration: a connection cap of 0 is documented as no limit
  (`config.example.toml:28`) and is a cap of no bytes in the check.
- SeqStream: a stream joined midway counts its first packet twice when it is sent
  again; a first capture behind the head is not new.
- QrMatch: a late RST aborts the requests of the current generation. It may also make the engine
  miss requests: the state is Reset, so the SYN-ACK of the current handshake is taken for one of another
  epoch, and the flip leaves the client's stream without a baseline. Until the next segment an acknowledgement
  is then read as an absolute number, which `abs_of` accepts below ACK_LEAD_CAP (2^26,
  `qr.rs:58`) when the initial number is small; a generation that follows without a flip hides
  its requests below that number. `AnsweredIsSettled` has the condition. A SYN sent
  again after data is a new generation: bytes sent again then are requests once more, and the next real
  generation begins without a flip, because the state is SynSent already. A second
  handshake with another number before the first is done
  keeps the old baseline; two requests of one connection at one instant share a timeout row.
  The request that a midway capture begins with, sent again, opens a second request with the same end,
  which has no pending row and which only the timeout ends, possibly in a later
  generation; `Patience` speaks of requests that really were asked.
  Nothing compares the number of pending requests with a budget.
- CommitProtocol: after a crash behind the live commit, the replay reads numbers
  behind the head; if batches are cut anew it may match differently. A rotation between a
  crash and its replay, or a timeout scan, lets a request have a verdict in each of two epochs,
  since only the current epoch is asked (`qr.rs:764`, `anomaly.rs:116`). A restart of the live ingest sends
  a segment from its beginning, whatever the comment in `batch.rs:14` says of
  the watermark; the records are recorded a second time at new places, and only
  the properties that name `plan.resend` hold for less then. The count of open requests drifts when a
  timeout scan meets rows that an interrupted commit left behind, until the next batch sets it
  anew.
  A record below a full batch waits for the seal of its segment: there is no
  timer for commits. A connection that no rule matches is asked for again by every request.
- HotFile: what the source sends again after a crash is not determined by the repository;
  the model sends again all that lies behind no watermark. If the transaction of the watermarks fails or
  is the last, entries of the index are left that no watermark came to, and they are not
  overwritten. They stay true as long as the same record is written at the same place again, which it
  is unless a write fails later (`CommitIsWhole`): after three failures, of the
  watermarks, of a seal and of a write, TLC finds an entry that tells another
  record. A failed flush leaves a sealed file with
  records that are not indexed. A failed seal leaves no handle, and the next append
  panics (`Panic`).
- QueryPaging (what `Askable` leaves out, which is part of `ScanIsComplete`): `query.rs:25` speaks of paging
  in both directions, but the first page of a query without cursor begins in epoch 0 in both, so
  that a backward scan misses all newer epochs; the code and its comment differ here, and
  the run has such a scan for its other properties. A rotation that
  fails half way makes a reader take the empty directory for the current epoch. A
  connection's window is the time of the record handled last, so that a late
  record moves its end back. And two more: a session by connection prunes by the window live was last
  committed with, which lacks the batch between its two commits, and after a crash
  there lacks it until the replay; if the epoch is rotated meanwhile, it is pruned with the
  batch in it, so that the property promises by connection only what live has been committed
  with. After a crash and a rotation a record may lie in two epochs, so that a scan returns it in two
  rows. A commit of live that fails without a crash is `CommitProtocol`'s and not here.
- WalReaders: how many bytes a scan reports as read and as dirty depends on the
  reads, if it stops at a damaged header. A reader that is in the middle of the hot
  file when the writer dies, and goes on after other records were written from the watermark on, has
  records that the file no longer holds, or starts the next at a place where none
  starts: `ScanIsExact` and `DecoderFollowsScan` say what holds of the hot file only
  as long as it is `Unaltered`, not cut back or written with the same records again. The decoder clears all it has when it holds too
  much, and takes whatever comes next for the start of a record, until the
  segment is released. A row whose summary cannot be decoded is passed over without being counted
  (`query.rs:647`). A row whose place was written with another record is exported with that
  record. A file that the ledger knows and the disk lacks ends the export,
  though `export.rs:42` speaks of counting it.
- Keys: a request's row with more aggregates than 16 bits can count is written
  with the count cut off and cannot be decoded (`PairRoundTrip` has the
  condition).

## 5. Proofs

What is proved holds for every value of the constants that satisfies the
assumptions stated in the modules.

| Module | Theorem | Property |
|---|---|---|
| `ReassemblyProofs` | `TypeCorrect` | `TypeOK` |
| | `DrainComplete` | `NoReadyChunkWaits` |
| | `SegmentCap` | `SegmentWithinCap`, if a chunk fits the cap (`MaxLen <= L2Cap`) |
| | `CursorTheorem` | `CursorFollowsAppends` |
| | `AccountingTheorem` | `AccountingConsistent` |
| | `QuarantineTheorem` | `QuarantineOnlyShrinks` |
| | `BurstTheorem` | `QuarantineNeedsBurst`, if the threshold is above 1 |
| | `LastResortTheorem` | `GlobalEvictionIsLastResort` |
| | `OvershootTheorem` | `OvershootBounded` |
| | `PoppedTiles` | about the relation `Popped`, not of a run |
| | `IngestUsesEngine` | `LiveIngest` implements `Reassembly`'s `Spec` |
| | `DecoderTheorem` | `DecoderFollowsCursor` |
| | `ReleasedTheorem` | `ReleasedIsStored` |
| `StreamProofs` | `TranslationTheorem` | `TranslationIsTrue` |
| | `NewTheorem` | `NewIsFirstSeen` |
| | `FedIs` | about `FeedPacket`, not of a run |
| `QrMatchProofs` | `MatchTypes` | the types of all variables, not of a run |
| | `IngestAgrees` | about the handler of one packet, not of a run |
| | `TablesTheorem` | `TablesAgree`, if the handshake is captured (`HandshakeCaptured`) |
| | `TtlTheorem` | `TtlCoversLive`, if time passes between packets (`0 \notin Steps`) |
| `CommitProofs` | `MarkedTheorem` | `MarkedIsIndexed`, if no commit of a database fails (`DatabasesCommit`) |
| | `LifecycleTheorem` | `LifecycleSpec`: the protocol implements `QrLifecycle` |
| | `SessionTheorem` | `SessionMissesNothing` |
| | `AuditTheorem` | `AuditFollowsVerdict` |
| | `OneRowTheorem` | `OneTerminalRow`, whose condition is that no commit is torn (`Untorn`) or the epoch is never rotated |
| | `LimboTheorem` | `NoRequestInLimbo`, if the watermark follows what is committed and no commit of a database fails (`Steady`) |
| | `ReplayTheorem` | `ReplayConverges` |
| `HotFileProofs` | `OneOpenRowTheorem` | `OneOpenRow` |
| | `LeftFileTheorem` | `LeftFileIsCommitted` |
| | `IndexTheorem` | `IndexTellsTheFile` |
| `PagingProofs` | `NoRowTwiceTheorem` | `NoRowTwice` |
| | `ScanTheorem` | `ScanIsComplete`, whose condition is `Askable` |
| `ReadersProofs` | `ScanTheorem` | `ScanIsExact` |
| | `DecoderScanTheorem` | `DecoderFollowsScan` |
| | `ExportTheorem` | `ExportIsFaithful` |
| | `IdxRoundTrip`, `TimeKeyOrder`, `WindowIsARange`, `PendingIsIsolated`, `PairRoundTrip` | about operators, not of a run |

**Reassembly.** The inductive invariant is `Inv`: the type, `NoReadyChunkWaits` and the cap. The
type alone is not enough for the others, and the cap alone is not inductive: an
insertion may quarantine its own device first, after which the segment's charge
starts again from nothing. The lemma that carries the proof is about evictions:
whatever a sequence of evictions does to a buffer, cursors stay, nothing starts
to wait, and charges grow in no segment (`Evicted`, which is reflexive and
transitive, `RemoveChunkEvicts`, `QuarantineEvicts`, `DevEvictionEvicts`,
`GlobalEvictionEvicts`). `AcceptStep` composes it with the insertion and the
drain; `PlaceStep`, `SealStep` and `NextInv` have one step per action.
`CursorTheorem` is an action property and uses the same invariant. The condition
`MaxLen <= L2Cap` is needed: a chunk at the cursor is charged without a look at
the cap before it drains.

**Sums and budgets.** The counters of the engine are sums over devices and over
chunks, and a sum is a fold, that is, a recursion over subsets. The provers cannot
instantiate an induction rule over predicates, but they can use one over sets:
a property of naturals or of subsets of a finite set is a set of them
(`SetInduction`, `FiniteInduction`). From it `SumProofs` shows that the fold has exactly one
value whichever member it takes out first, and what a change of one term does.
`Dev` is finite by an assumption of `Reassembly`.

`Charged` is the invariant of the budgets: every device is charged the sum of its
segments, the global counter is the sum of the devices', the chunks of a segment lie at distinct
offsets, and no segment is charged less than it holds. The last two are what
makes it inductive: a drain takes off the bytes between the cursors, and
`PoppedTiles` shows that the chunks it pops have exactly that many, so that no
subtraction goes below 0. `QuarantineTheorem`, `BurstTheorem` and `LastResortTheorem` are about
steps and need it, since a release subtracts from the counter of a quarantined device. The
overshoot is bounded by an invariant with two parts (`OvershootInv`): the
charge stays within one chunk per eviction and one more, and the slack, what is charged
beyond what waits, within one chunk per eviction. The second is needed where a
chunk finds nothing left to evict and is inserted over the cap.

**Live ingest.** Each step of the ingest is a call of the engine or leaves it alone
(`IngestUsesEngine`), so the engine's theorems hold in the ingest, `OvershootBounded` of its run
among them. For the decoders the cursor's theorem is not enough: that an Append is among the
events does not say that it is the only one. `PlaceTells` and `SealTells` say that the
events of a call tell of every segment exactly what happened to its cursor, and `BytesNat`
that what the decoder is fed is the way the cursor went. While no push fails, what is stored are the records
the decoder has completed, which at the release are all of them (`Recorded`); the decoder is
where it should be whether a push fails or not.

That nothing is stored behind them is a matter of what is still on its way, and takes
two arguments (`OnceEach`). Before its seal a segment arrives in pieces that the source cut
once, so no piece to come lies behind the cursor, and none is left when the cursor is at the end: a
drain tiles its way with pieces and steps over none that does not wait (`PoppedSkips`). After
its seal the segment is released by a tick only, which waits until
queries are answered and answers delivered. The attempt showed that this needs
answers in time, and not only a network that doubles nothing: the run had no
scenario with late answers and no doubles, and a condition that only excluded the
doubles. The property now has both, and says of all other
behaviours that the records come first, whatever follows them.

**Streams.** Everything comes down to one fact about remainders: as long as a number lies less
than half the range from the head, the difference of their raw numbers, taken as signed, is
the difference of the numbers (`RemainderIs`, `DiffIs`, `AheadIs`). `FedIs` draws from it what
`feed_packet` does with a packet that lies so near. The invariant, `StreamInv`, keeps every
packet near: what was sent reaches no further than the window and one segment ahead of
the head, which `TrackingAssumption` has below half the range. TCP guarantees that
with its windows of at most 2^30; without it `abs_of` could not tell ahead from behind.

**The tables of the match engine.** `Agree` is the inductive invariant. `TablesAgree` alone is not
inductive: insertions are under NO_OVERWRITE, so a new request whose key is taken
would be live without a row. `Reached` says that whatever is pending ends at the head of the client's stream or
below it, and above what was consumed; a new request ends where the head
moves to (`Feeds`), so its key is free. The handler is a chain of operators on the tables:
each has a lemma of what it changes and one that the tables agree
afterwards, `MatchAgrees` and `IngestAgrees` put them together for a packet with any flags,
numbers and sender, and `NextTakes` reduces the actions of the conversation to
packets, scans and time. The only demand of `IngestAgrees` on the
traffic is that payload does not come before the client's stream has its baseline. The
conversation guarantees it if it is captured from its handshake on and no copy
of a SYN-ACK or of an acknowledgement comes late (`HandshakeCaptured`); without that the engine
opens a twin that no row leads to, as described in section 4, so the condition is a fact
about the code and not of the proof. All conversations of `qr_verdict` satisfy it, those with late
resets and late SYNs included.

`TtlInv` is the invariant of the timeout list: its times and its requests are one
to one. Two packets at one instant would share a row, of which NO_OVERWRITE keeps the first, so the theorem asks
that time passes between packets; that the code does not guarantee, and section 4 says so.
It holds in midway captures too.

**Commit.** `MarkedIsIndexed` speaks of the watermark, which moves last, so it is
not inductive. `Inv` says of each stage of the transaction what is known by
then: the first places of the log, up to the watermark, are indexed in some epoch, and those
up to the end of the batch that is being matched are indexed in an epoch or in the view
that is about to be committed (`Covered`). `Shape` has the fields and bounds of
the pipeline and the ledger that this needs. That the
engine changes the index only by the row of the packet at hand
(`IngestIndexes`, from one lemma per operator of the engine) is all the proof knows of matching. The
condition is the finding `commit_lost_batch`.

The other theorems of the protocol know more of matching, but all in one relation.
`Follows` says of two views that rows are only added, that a request leaves
the live ones only with a row, that none gets a second one, that only the packet at hand is
opened, and that each new verdict but a match has its event. Every operator of the
engine follows (`SettleMigrates`, `CascadeFollows`, `MatchFollows`, `IngestFollows`,
`ScanFollows`), whatever the tables are: no condition on the traffic
is needed. `Story` is the invariant it keeps through the protocol: a transaction
goes on from the committed rows (`Ongoing`), and what it has made live is beyond the watermark, also in a replay that
finds rows without the live database that belongs to them. `LifecycleTheorem` follows, since a
lookup asks the live database, then the epochs from the oldest on, and only the newest is ever
written (`VerdictStays`): what was found stays found, and what enters the
live database is behind the watermark only later. It has no condition: failed commits, torn commits and
resends are included. `SessionTheorem` adds what a session knows after each
of its two snapshots and after the listing (`SessionInv`): a request both databases had at the first is
pending there, or has a row in some epoch by then; the row is in the second snapshot or in
another epoch (`Placed`), and the list, which comes last, has all those epochs. It has no condition
either. `AuditTheorem` adds that the events of all verdicts
are in the ledger or in the transaction that has yet to reach it (`AuditInv`).

`RowInv` is the invariant of one row. Where no commit is torn, a request is live or has its row,
in one epoch, and both databases know only what lies behind the batch; at
the time of a crash only what lies behind the watermark, so what is replayed was in
neither. With a torn commit the rows are found again, but in the newest
epoch only, so that a rotation or a scan in between gives a second row (section 4): the property then asks for one epoch.

`LimboTheorem` needs that a replay opens again what it opened before. Whether a
packet opens a request depends on the connection, and not on the tables, and what it does to the
connection neither (`IngestTwins`). `Run` is the run over the whole
log that nothing disturbs, and `TrackInv` says that the connection of the live database
and that of the transaction are the run's after as many records, that
each request the run has opened up to there is known, and that at the time of a crash the live
database is at the watermark. A crash between the live commit and the watermark breaks that
last part: the replay begins from a connection ahead of it, and may read numbers otherwise.
TLC finds `NoRequestInLimbo` true there too as long as the batches are cut the same,
which is not proved. That no commit of a database fails is asked because the run would
have to leave out what a lost batch held.

`ReplayTheorem` compares the tables with the same run. `Mirrors` says that a view has
the run's live requests, pending rows and timeouts, that its rows are among those
the run ends with, and that it lacks none of the run's but what lies in older epochs.
`SettleMirrors` is the heart: where the run writes a row and the replay finds one,
it is the same row, since the run has one row for each request. `ConvInv` carries this through the
transactions, and says that at the time of a crash the live database is the run's at the
watermark. The theorem is for any number of epochs, which the run of TLC is not: a
rotation between a crash and its replay has a row written twice, but the same one.

**HotFile.** A row is inserted by a step that does not look whether another is
open; that none is follows from where the step stands in its handler. `Balanced`
says that each insertion of a list of steps has the sealing of the open row
before it, with no other insertion and no `Reserve`, which may add steps, in
between; `Ready` lets the first insertion stand without. `Inv` says that the handler at
work is balanced, or is ready and no row is open, and that the open row is the
writer's whenever the handler may yet seal one (`Ownership`). Faults empty the
list and keep the rows.

`LeftFileTheorem` and `IndexTheorem` rest on what is left of a handler being one of finitely
many lists (`Plans`), so that where it stands says what is still to come (`AtStep`). `Base`
holds whatever fails: what is gathered lies in the file at hand up to where the
writer stands (`Gathered`), and no two rows share a file (`Placed`). Where no step fails,
`Reached` adds that the batch is empty whenever the watermark is at the end of the file, and that a
seal only comes then. The truth of the index needs more, for entries that a
crash left behind the watermark come true when the watermark passes them, which may be a
restart later. `Course` says why they do: the records lie in the files one after the other,
so the place of a record is the sum of the lengths since the file's first
(`Where`, whose existence is `LayingExists`), and a restart writes each record where it
lay before (`RestartsAt`). `Stuck` is the state `hot_lost_file` leads to, in which
nothing is written any more. Where steps fail there is no course; then all that is indexed lies
behind a watermark (`Settled`), unless the watermarks' own transaction is what fails.

**Paging.** What was returned is not ahead of the cursor (`Behind`), and a page
takes only what is ahead. That this survives a page needs that rows are ordered
and that a page has a last row (`EndRows`, from the
well-foundedness of the naturals), and that the cursor moves forward
(`CursorMoves`); the service does not touch the reader, whatever it does.

`ScanTheorem` needs what the service does, too. Its invariant, `Complete`, says of
the disk that the epochs behind the current one have the boundaries of all their
records in the ledger and the others none (`Frozen`), and that a connection's window
spans the records live was committed with (`Spanned`), which needs that the record in a batch or to be replayed
is the newest there is (`Numbered`); and of the session that every promised row
is on disk and in the pruning window until the list of epochs is built, and from then
on in the scan, and returned or ahead of the cursor (`Promise`). Pruning keeps the epoch of a
promised row because its boundaries enclose the row's time (`EndTimes`); a page that is
not full holds all that is ahead (`WholePage`, by the cardinality of finite
sets), and what it does not hold comes after its last row (`StaysAhead`).
`Askable`, the property's condition, leaves out what section 4 says of the code: a rotation that fails half
way, a backward scan over more than one epoch, and the window of a connection with a late
record. TLC finds a scan that misses rows in each of the three, and in a scan by connection that is
promised what live has not been committed with.

**Keys.** Keys are numbers with digits of given widths, so the theorems come down
to one lemma about the order of such numbers (`OverOrder`, `OverBound`,
`OverDivision`). They hold for the widths of the code as for any others.
`WalReaders` evaluates the same operators, and `WindowIsARange` is what its
`InWindow` and `QueryPaging`'s `Within` rest on; its second part says of the range of one
connection that it holds no row of another.

**Readers.** All three rest on where blocks end. `EndsOf` is a recursive function; that
it exists and has the equations one expects is an induction over the length of the
file, done on the set of lengths for which it holds (`EndingExists`, `EndsFacts`).
From it, blocks end in order (`EndsOrder`), and the good records before the first
damage are an initial segment whose length has a simple description (`GoodToIs`).
The heart is `Decodes`: a reader that has taken the good records up to some bytes,
decodes again and gets those up to more bytes, wherever the cut between the two
was. So the invariant of the scan and of the decoder is one predicate, `Amid`:
the records taken are the intact ones of what was read, and the place is where they end. It is
kept by a read, and kept by the writer, who changes nothing that was read
unless other records are written.

`BadHeaderIs` says when a scan stops early. For the decoder it remains that it gives up
only for a cause: without a damage, what is left of a segment is less than one
record, so that too much of it means a record too long.

Of the export the invariant counts the rows passed and says that those before the
key it is at are all among them (`ExportInv`; keys are unique in an epoch, so that nothing
is stepped over). A row passed keeps its packet whatever the writer does:
the watermark is where a record ends, so a place before it holds the same record after a
restart (`MarkIs`, `PlaceIs`), and a row that is sound at one time is sound at all
times (`SoundIs`). In an unaltered file every place holds
the record it was to hold, and by `Recorded` that is the row's. A file once altered stays
so, since a second restart writes the same as the first (`Disked`, `Kept`).

The attempt changed two properties: they did not say that a file must not be
written differently while it is read, and the run had no scenario in which it is.
Now it has (`ScanOther`), and they do.

Out of reach of the provers, and checked by TLC only: everything under fairness
(`EventuallyCommitted`, `EveryRequestSettles`, `WriterComesBack`, `EverySealHeals`,
`EverySealSettles`, `ScanEnds`).

Only model-checked so far, though within reach: `VerdictIsTrue`,
`AnsweredIsSettled` and `Patience` of `QrMatch`, and `SideTablesFollow` of
`CommitProtocol`. Of the last, the count of open
requests depends on the traffic: two requests with one end have one pending row.

## 6. What is next

1. Proofs: `VerdictIsTrue` and `AnsweredIsSettled`, from `MatchState` and the arithmetic
   of raw numbers modulo SeqSpace.
2. Composition: `LiveIngest` with the pipelines of `HotFile` (the seal as the
   file barrier), and an abstract stream that is delivered once and in order, which
   `Reassembly` implements for each segment.
3. Models: the aggregates of `query.rs` as folds over a scan, and the
   registration of rules in `ledger.rs`, if they come to interact with the rest.

## 7. Not modelled

- Parsing and formatting: the extraction of fingerprints from payload bytes (`meta.rs`; the
  kind of a payload is given with the packet), frame synthesis and filter
  expressions (`export.rs`), the layout of values (`db.rs`, `connection.rs`;
  the row of a request is in `Keys`), configuration, command line, `util.rs`,
  decryption. A chunk that cannot be decrypted is a lost chunk.
- The aggregates of `query.rs` (stats, top lists), sums over a scan; the
  registration of rules (`meta_binds`) and the listings of `ledger.rs`, single statements of SQL.
- `finalize`: the end of the service does for each pipeline what a seal does.
- A collision of connection hashes, a write cut short inside a record, overflow of
  16-bit generation numbers beyond the small modulus of the runs.
- Channel capacities: a full channel delays frames, as the network does.
- Audit events are best effort (`batch.rs:135`; the plan in
  `doc/09_sovVault_实施方案.md` says so too): a crash may lose them, and
  `AuditFollowsVerdict` is checked without crashes. Fingerprints and archived
  connections are of the same kind, and `SideTablesFollow` says which part
  holds in any case.
