---------------------------- MODULE WalReaders ----------------------------
(***************************************************************************)
(* The readers of what sovVault recorded: the scan of the files on disk    *)
(* (src/src/walscan.rs, ingest/offline.rs), the decoder of a segment that  *)
(* arrives in chunks (WalStreamDecoder in ingest/zenoh.rs) and the export  *)
(* of indexed packets (export.rs, replay_scan in query.rs).  They run      *)
(* beside the process that writes, which may die, cut its last file back   *)
(* to the watermark and write on.                                          *)
(*                                                                         *)
(* A file is a sequence of blocks.  A block is a record as it was written, *)
(* its header damaged, or its checksum wrong; ts names the record and kind *)
(* tells what the export's filter makes of it.  Positions are bytes.       *)
(***************************************************************************)
EXTENDS Keys, SequencesExt

CONSTANTS
  HeaderSize,   \* WAL_HEADER_SIZE
  ResidualCap,  \* WAL_RESIDUAL_CAP
  ReadSize,     \* bound on what one read or one chunk brings
  Scenarios     \* of which a behaviour is one

BlockState == {"Good", "BadHeader", "BadCrc"}

(* The summary of a record fails the filter, its flags fail it, or neither.*)
Kind == {"SummaryFails", "FlagsFail", "Passes"}

Block == [len : Nat \ {0}, state : BlockState, ts : Time, kind : Kind]

(* A row of RECORD_TS: its key and what its summary tells the filter, if   *)
(* it can be decoded.                                                      *)
Row == [ts : Time, idx : Idxs, kind : Kind \cup {"NoSummary"}]

WalFile == [blocks : Seq(Block),
            known : BOOLEAN,       \* the ledger has its path
            there : BOOLEAN]       \* it is on the disk

Scenario == [job : {"Scan", "Decode", "Export"},
             files : Seq(WalFile) \ {<<>>},
             size : Nat,        \* how much of the last file is written at first
             crashes : Nat,     \* bound
             mark : Nat,        \* the watermark of the last file
             resent : Seq(Block),   \* what is written behind it after a crash
             epochs : Seq(SUBSET Row),
             from : Time, to : Time]

(* Where the i-th block ends; the 0-th ends at 0.                          *)
EndsOf(blocks) ==
  LET end[i \in 0 .. Len(blocks)] == IF i = 0 THEN 0 ELSE end[i - 1] + blocks[i].len
  IN  end

(* The block that starts at a position, as the set of its number.          *)
StartingAt(blocks, at) == {i \in 1 .. Len(blocks) : EndsOf(blocks)[i - 1] = at}

BytesOf(blocks) == EndsOf(blocks)[Len(blocks)]

KeyOf(row) == TimeKey(row.ts, row.idx)

(* A record is written before the watermark is raised to where it ends,    *)
(* and a row is made of the record at its place (HotFile shows as much).   *)
Recorded(s) ==
  LET last == Last(s.files).blocks
  IN  /\ s.mark <= s.size /\ s.size <= BytesOf(last)
      /\ \E i \in 0 .. Len(last) : EndsOf(last)[i] = s.mark
      /\ \A n \in DOMAIN s.epochs : \A row \in s.epochs[n] :
           /\ \A other \in s.epochs[n] : KeyOf(other) = KeyOf(row) => other = row
           /\ FileOf(row.idx) \in DOMAIN s.files =>
                LET blocks == s.files[FileOf(row.idx)].blocks
                IN  \A i \in StartingAt(blocks, OffsetOf(row.idx)) :
                      /\ blocks[i].ts = row.ts
                      /\ row.kind # "NoSummary" =>
                           (blocks[i].kind = "SummaryFails" <=> row.kind = "SummaryFails")

ASSUME ReadersAssumption ==
  /\ {HeaderSize, ResidualCap, ReadSize} \subseteq Nat \ {0}
  /\ \A s \in Scenarios : s \in Scenario /\ Recorded(s)

VARIABLES
  scene,    \* the scenario, with the crashes that are left
  disk,     \* per file: its blocks, those to come included, and its size
  scan,     \* OfflineScanner and scan_reader
  decoder,  \* WalStreamDecoder, fed with the first file
  export    \* PcapSink, WalResolver and the place in the replay

vars == <<scene, disk, scan, decoder, export>>

-----------------------------------------------------------------------------
(* The blocks that end by a position.                                      *)
UpTo(blocks, at) ==
  SubSeq(blocks, 1, Cardinality({i \in 1 .. Len(blocks) : EndsOf(blocks)[i] <= at}))

Fresh(file, last) ==
  [blocks |-> file.blocks, known |-> file.known, there |-> file.there,
   size |-> IF last THEN scene.size ELSE EndsOf(file.blocks)[Len(file.blocks)]]

NewScan(n, results) ==
  [file |-> n, read |-> 0, at |-> 0, records |-> <<>>, results |-> results]

Init ==
  /\ scene \in Scenarios
  /\ disk = [n \in 1 .. Len(scene.files) |-> Fresh(scene.files[n], n = Len(scene.files))]
  /\ scan = NewScan(1, <<>>)
  /\ decoder = [fed |-> 0, at |-> 0, records |-> <<>>, cleared |-> FALSE]
  /\ export = [epoch |-> 1, after |-> -1, rows |-> <<>>, failed |-> FALSE,
               packets |-> <<>>, filtered |-> 0, unresolved |-> 0]

(* decode_stream: the whole good records from a position on, up to the     *)
(* first that is damaged or not all there.                                 *)
DecodeStream(blocks, at, upto) ==
  LET end == EndsOf(blocks)
      whole == {i \in 1 .. Len(blocks) :
                  /\ end[i] <= upto
                  /\ \E j \in StartingAt(blocks, at) :
                       j <= i /\ \A k \in j .. i : blocks[k].state = "Good"}
  IN  IF whole = {} THEN [records |-> <<>>, at |-> at]
      ELSE [records |-> SubSeq(blocks, Min(whole), Max(whole)), at |-> end[Max(whole)]]

(* bad_header: a whole header is there and it is none.                     *)
BadHeader(blocks, at, upto) ==
  /\ upto - at >= HeaderSize
  /\ ~\E i \in StartingAt(blocks, at) : blocks[i].state # "BadHeader"

-----------------------------------------------------------------------------
(* The writer appends to the last file, and after a restart it cuts it     *)
(* back to the watermark and appends what is sent then.                    *)
Write(n) ==
  /\ disk[Len(disk)].size + n <= EndsOf(Last(disk).blocks)[Len(Last(disk).blocks)]
  /\ disk' = [disk EXCEPT ![Len(disk)].size = @ + n]
  /\ UNCHANGED <<scene, scan, decoder, export>>

WriterRestarts ==
  /\ scene.crashes > 0
  /\ Last(disk).size >= scene.mark
  /\ scene' = [scene EXCEPT !.crashes = @ - 1]
  /\ disk' = [disk EXCEPT ![Len(disk)].size = scene.mark,
                ![Len(disk)].blocks = UpTo(Last(disk).blocks, scene.mark) \o scene.resent]
  /\ UNCHANGED <<scan, decoder, export>>

-----------------------------------------------------------------------------
Scanning == scene.job = "Scan" /\ scan.file <= Len(disk)

Scanned == disk[scan.file].blocks

(* The scan of a file ends, and the next file is opened.                   *)
FileScanned(read, early) ==
  scan' = NewScan(scan.file + 1,
            Append(scan.results,
              [records |-> scan.records, total |-> read, dirty |-> read - scan.at,
               early |-> early]))

(* Mutant: what is not decoded of the read is dropped.                     *)
ScanReadForgets(n) ==
  /\ Scanning
  /\ scan.read + n <= disk[scan.file].size
  /\ LET read == scan.read + n
     IN  IF BadHeader(Scanned, scan.at, read)
         THEN FileScanned(read, TRUE)
         ELSE scan' = [scan EXCEPT !.read = read, !.at = read,
                         !.records = @ \o DecodeStream(Scanned, scan.at, read).records]
  /\ UNCHANGED <<scene, disk, decoder, export>>

(* A read, of as many bytes as the system likes to give.  What is there is *)
(* first looked at for a damaged header.                                   *)
ScanRead(n) ==
  /\ Scanning
  /\ scan.read + n <= disk[scan.file].size
  /\ LET read == scan.read + n
         decoded == DecodeStream(Scanned, scan.at, read)
     IN  IF BadHeader(Scanned, scan.at, read)
         THEN FileScanned(read, TRUE)
         ELSE scan' = [scan EXCEPT !.read = read, !.at = decoded.at,
                                   !.records = @ \o decoded.records]
  /\ UNCHANGED <<scene, disk, decoder, export>>

ScanEof ==
  /\ Scanning
  /\ scan.read >= disk[scan.file].size
  /\ FileScanned(scan.read, BadHeader(Scanned, scan.at, scan.read))
  /\ UNCHANGED <<scene, disk, decoder, export>>

-----------------------------------------------------------------------------
Stream == disk[1].blocks

(* Mutant: what is left of the chunk is dropped with what was decoded.     *)
FeedForgets(n) ==
  /\ scene.job = "Decode" /\ decoder.fed + n <= disk[1].size
  /\ LET fed == decoder.fed + n
     IN  decoder' = [decoder EXCEPT !.fed = fed, !.at = fed,
                       !.records = @ \o DecodeStream(Stream, decoder.at, fed).records]
  /\ UNCHANGED <<scene, disk, scan, export>>

(* A chunk goes behind what the last one left.  When that becomes too much *)
(* all of it goes, and whatever comes next is taken for a record's start.  *)
Feed(n) ==
  /\ scene.job = "Decode" /\ decoder.fed + n <= disk[1].size
  /\ LET fed == decoder.fed + n
         decoded == DecodeStream(Stream, decoder.at, fed)
     IN  decoder' = IF fed - decoder.at > ResidualCap
                    THEN [decoder EXCEPT !.fed = fed, !.at = fed, !.cleared = TRUE]
                    ELSE [decoder EXCEPT !.fed = fed, !.at = decoded.at,
                                         !.records = @ \o decoded.records]
  /\ UNCHANGED <<scene, disk, scan, export>>

-----------------------------------------------------------------------------
(* The rows of an epoch that lie in the window.  One whose summary cannot  *)
(* be decoded is passed over without a trace.                              *)
InWindow(n) ==
  {r \in scene.epochs[n] : /\ r.kind # "NoSummary"
                           /\ InRange(KeyOf(r), TsBounds(scene.from, scene.to))}

(* replay_scan goes through the epochs, and through the rows of each by    *)
(* key.                                                                    *)
Exporting ==
  scene.job = "Export" /\ ~export.failed /\ export.epoch \in DOMAIN scene.epochs

Ahead == {r \in InWindow(export.epoch) : KeyOf(r) > export.after}

NextEpoch ==
  /\ Exporting /\ Ahead = {}
  /\ export' = [export EXCEPT !.epoch = @ + 1, !.after = -1]
  /\ UNCHANGED <<scene, disk, scan, decoder>>

Known(idx) == FileOf(idx) \in DOMAIN disk /\ disk[FileOf(idx)].known

(* Mutant: the checksum is not compared.                                   *)
LoadUnchecked(idx) ==
  LET file == disk[FileOf(idx)]
  IN  IF ~Known(idx) THEN {}
      ELSE {file.blocks[i] : i \in {j \in StartingAt(file.blocks, OffsetOf(idx)) :
              EndsOf(file.blocks)[j] <= file.size /\ file.blocks[j].state # "BadHeader"}}

(* load: the record at the place the locator names, if there is one.  A    *)
(* file the ledger does not know reads as an empty one.                    *)
Load(idx) ==
  LET file == disk[FileOf(idx)]
  IN  IF ~Known(idx) THEN {}
      ELSE {file.blocks[i] : i \in {j \in StartingAt(file.blocks, OffsetOf(idx)) :
              EndsOf(file.blocks)[j] <= file.size /\ file.blocks[j].state = "Good"}}

(* A file the ledger knows and the disk does not have.                     *)
Unopenable(idx) == Known(idx) /\ ~disk[FileOf(idx)].there

(* The row is done with.                                                   *)
Passed(row) ==
  [export EXCEPT !.after = KeyOf(row), !.rows = Append(export.rows, row)]

(* PcapSink::record: the summary decides first, then the record is read,   *)
(* and its flags decide last.  A file that cannot be opened ends it all.   *)
Record(row) ==
  /\ Exporting
  /\ row \in Ahead /\ \A other \in Ahead : KeyOf(row) <= KeyOf(other)
  /\ LET passes == row.kind # "SummaryFails"
     IN  \/ ~passes /\ export' = [Passed(row) EXCEPT !.filtered = @ + 1]
         \/ passes /\ Unopenable(row.idx) /\ export' = [export EXCEPT !.failed = TRUE]
         \/ /\ passes /\ ~Unopenable(row.idx) /\ Load(row.idx) = {}
            /\ export' = [Passed(row) EXCEPT !.unresolved = @ + 1]
         \/ /\ passes /\ ~Unopenable(row.idx)
            /\ \E r \in Load(row.idx) :
                 export' = IF r.kind = "FlagsFail"
                           THEN [Passed(row) EXCEPT !.filtered = @ + 1]
                           ELSE [Passed(row) EXCEPT
                                   !.packets = Append(@, [row |-> row, record |-> r])]
  /\ UNCHANGED <<scene, disk, scan, decoder>>

Next ==
  \/ \E n \in 1 .. ReadSize : Write(n) \/ ScanRead(n) \/ Feed(n)
  \/ WriterRestarts
  \/ ScanEof
  \/ NextEpoch
  \/ \E row \in UNION ToSet(scene.epochs) : Record(row)

Spec == Init /\ [][Next]_vars

-----------------------------------------------------------------------------
(* The records before the first damage, as far as they are all there.      *)
Intact(blocks, upto) ==
  LET good == {i \in 1 .. Len(blocks) :
                 EndsOf(blocks)[i] <= upto /\ \A k \in 1 .. i : blocks[k].state = "Good"}
  IN  SubSeq(blocks, 1, Cardinality(good))

(* The last file is to hold what it was to hold at first: it was not cut   *)
(* back, or the same records are written again.                            *)
Unaltered == Last(disk).blocks = Last(scene.files).blocks

(* However the reads are cut, and while the file grows or is cut back, a   *)
(* scan takes the records before the first damage and none behind it, and  *)
(* what it read is those and the dirty tail; it stops early just when a    *)
(* whole damaged header is in the tail, and else reads to the end          *)
(* (scan_reader).  Of the file that is cut back this holds unless other    *)
(* records are written then.                                               *)
ScanIsExact ==
  \A n \in DOMAIN scan.results : Unaltered \/ n < Len(disk) =>
    LET r == scan.results[n]
        blocks == disk[n].blocks
        good == Intact(blocks, r.total)
    IN  /\ r.records = good
        /\ r.total = BytesOf(good) + r.dirty
        /\ r.early <=> /\ Len(good) < Len(blocks)
                       /\ blocks[Len(good) + 1].state = "BadHeader"
                       /\ r.dirty >= HeaderSize
        /\ n < Len(disk) /\ ~r.early => r.total = disk[n].size

(* However a segment is cut into chunks, its decoder returns what a scan   *)
(* would, and it only gives up a segment that has a damage, or a record    *)
(* that with a chunk exceeds what it may keep (WalStreamDecoder::feed).    *)
DecoderFollowsScan ==
  Unaltered \/ Len(disk) > 1 =>
  IF decoder.cleared
  THEN \E i \in 1 .. Len(Stream) :
         /\ EndsOf(Stream)[i - 1] < decoder.fed
         /\ Stream[i].state # "Good" \/ Stream[i].len + ReadSize > ResidualCap
  ELSE decoder.records = Intact(Stream, decoder.fed)

(* A row whose record passes the filter and lies where no restart cuts.    *)
Sound(row) ==
  \E r \in Load(row.idx) :
    /\ r.ts = row.ts /\ r.kind = "Passes"
    /\ row.kind = "Passes" /\ (FileOf(row.idx) = Len(disk) => OffsetOf(row.idx) < scene.mark)

(* An export damaged anywhere is still whole elsewhere: no row of an epoch *)
(* it has left is missed if its summary can be decoded, and each of those  *)
(* is counted once; a row whose record is sound and passes the filter has  *)
(* its packet, and a packet is a good record that passes; unless other     *)
(* records are written after a restart, it is also its row's record        *)
(* (replay_epoch_range, PcapSink::record, WalResolver::load).              *)
ExportIsFaithful ==
  LET rows == ToSet(export.rows)
      packets == ToSet(export.packets)
  IN  /\ \A n \in 1 .. export.epoch - 1 : InWindow(n) \subseteq rows
      /\ Len(export.packets) + export.filtered + export.unresolved = Len(export.rows)
      /\ \A row \in rows : Sound(row) => \E p \in packets : p.row = row
      /\ \A p \in packets :
           /\ p.record.state = "Good" /\ p.record.kind # "FlagsFail"
           /\ Unaltered => p.record.ts = p.row.ts /\ p.record.kind = "Passes"
=============================================================================
