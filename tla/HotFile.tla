------------------------------ MODULE HotFile -------------------------------
(***************************************************************************)
(* The hot files of one device (HotFileWriter and BatchPipeline in         *)
(* src/src/batch.rs, the table files of src/src/ledger.rs).  Records are   *)
(* appended to segment_NNNN.wal files, each registered as a row of the     *)
(* ledger with a state and a watermark; at most one file is open, and a    *)
(* batch is committed before its file is left.  A handler is a list of     *)
(* steps on the disk, the databases and the ledger, at each of which it    *)
(* may fail or the process may die.                                        *)
(***************************************************************************)
EXTENDS SequencesExt

CONSTANTS
  Records,      \* the length of each record, in the order the source sends
  FileSize,     \* segment_size
  BatchSize,    \* batch_size
  Faults,       \* what may go wrong, one of which a behaviour is subject to
  MaxFiles      \* bound: a segment is sealed only while there are fewer files

Step == {"Commit", "Mark", "Seal", "Create", "Insert", "Reserve", "Write"}

ASSUME HotFileAssumption ==
  /\ Records \in Seq(Nat \ {0})
  /\ {FileSize, BatchSize} \subseteq Nat \ {0}
  /\ Faults \subseteq [crashAt: SUBSET (Step \cup {"Idle"}), crashes: Nat,
                      failAt: SUBSET Step, failures: Nat]
  /\ MaxFiles \in Nat

VARIABLES
  disk,      \* number of a segment file -> its units, each the record's number
  rows,      \* the table files: the n-th row has file_id n
  writer,    \* up: the pipeline exists; file: the handle is there
  batch,     \* BatchPipeline.pending
  indexed,   \* RECORD_TS: which record lies at which idx
  next,      \* the record the source sends next
  todo,      \* the steps left of the handler at work
  faults     \* where the process may die and steps may fail, and how often yet

vars == <<disk, rows, writer, batch, indexed, next, todo, faults>>

Down == [up |-> FALSE, file |-> FALSE, seq |-> 0, id |-> 0, off |-> 0]

Init ==
  /\ disk = [s \in {} |-> <<>>]
  /\ rows = <<>>
  /\ writer = Down
  /\ batch = <<>>
  /\ indexed = {}
  /\ next = 1
  /\ todo = <<>>
  /\ faults \in Faults

Idle == todo = <<>>
At(step) == todo # <<>> /\ Head(todo) = step

Flushing == IF batch = <<>> THEN <<>> ELSE <<"Commit", "Mark">>
Rotation == <<"Seal", "Create", "Insert">>

-----------------------------------------------------------------------------
(* Mutant: the state is not recorded, so no row is found.                  *)
NoOpenRows == {}

(* open_file_for_dev: the newest row that is open.                         *)
OpenRows == {id \in 1 .. Len(rows) : rows[id].state = "Open"}

(* open_or_recover goes on in the open file behind its watermark, and      *)
(* starts with file 0 when there is none.                                  *)
Resumed(id) == [up |-> TRUE, file |-> TRUE, seq |-> rows[id].seq,
                id |-> id, off |-> rows[id].mark]

(* Mutant: the file is opened anew.                                        *)
RecoverFromStart ==
  LET id == Max(OpenRows)
  IN  /\ disk' = [disk EXCEPT ![rows[id].seq] = <<>>]
      /\ writer' = [Resumed(id) EXCEPT !.off = 0]
      /\ todo' = <<>>

Recover ==
  LET id == Max(OpenRows)
  IN  /\ disk' = [disk EXCEPT ![rows[id].seq] = SubSeq(@, 1, rows[id].mark)]
      /\ writer' = Resumed(id)
      /\ todo' = <<>>

OpenOrRecover ==
  /\ ~writer.up /\ Idle
  /\ \/ /\ OpenRows # {}
        /\ Recover
     \/ /\ OpenRows = {}
        /\ todo' = <<"Create", "Insert">>
        /\ UNCHANGED <<disk, writer>>
  /\ UNCHANGED <<rows, batch, indexed, next, faults>>

(* push_record: a record that does not fit makes the batch be committed    *)
(* and the file be left first.                                             *)
OverBoundary == writer.off > 0 /\ writer.off + Records[next] > FileSize

(* Mutant: the file is left with the batch uncommitted.                    *)
PushUnflushed ==
  /\ writer.up /\ Idle
  /\ next <= Len(Records)
  /\ todo' = (IF OverBoundary THEN Rotation ELSE <<>>) \o <<"Reserve", "Write">>
  /\ UNCHANGED <<disk, rows, writer, batch, indexed, next, faults>>

Push ==
  /\ writer.up /\ Idle
  /\ next <= Len(Records)
  /\ todo' = (IF OverBoundary THEN Flushing \o Rotation ELSE <<>>)
                \o <<"Reserve", "Write">>
  /\ UNCHANGED <<disk, rows, writer, batch, indexed, next, faults>>

(* finish: a sealed segment commits the batch and leaves the file.         *)
Finish ==
  /\ writer.up /\ Idle
  /\ Len(rows) < MaxFiles
  /\ todo' = Flushing \o Rotation
  /\ UNCHANGED <<disk, rows, writer, batch, indexed, next, faults>>

-----------------------------------------------------------------------------
(* append leaves the file too when the record does not fit, which after    *)
(* push_record only a record longer than a file does not.                  *)
Reserve ==
  /\ At("Reserve")
  /\ todo' = (IF writer.off + Records[next] > FileSize THEN Rotation ELSE <<>>) \o Tail(todo)
  /\ UNCHANGED <<disk, rows, writer, batch, indexed, next, faults>>

Written(content, off, n) == SubSeq(content, 1, off) \o [k \in 1 .. Records[n] |-> n]

Write ==
  LET end == writer.off + Records[next]
      gathered == Append(batch, [id |-> writer.id, off |-> writer.off, n |-> next])
  IN  /\ At("Write") /\ writer.file
      /\ disk' = [disk EXCEPT ![writer.seq] = Written(@, writer.off, next)]
      /\ writer' = [writer EXCEPT !.off = end]
      /\ batch' = gathered
      /\ next' = next + 1
      /\ todo' = IF Len(gathered) >= BatchSize THEN <<"Commit", "Mark">> ELSE <<>>
      /\ UNCHANGED <<rows, indexed, faults>>

(* The index is written with NO_OVERWRITE.                                 *)
Commit ==
  /\ At("Commit")
  /\ indexed' = indexed \cup
       {e \in Range(batch) : ~\E i \in indexed : i.id = e.id /\ i.off = e.off}
  /\ todo' = Tail(todo)
  /\ UNCHANGED <<disk, rows, writer, batch, next, faults>>

(* stage_sqlite raises the watermark of each file of the batch.            *)
Marked(id) == {e.off + Records[e.n] : e \in {b \in Range(batch) : b.id = id}}

Mark ==
  /\ At("Mark")
  /\ rows' = [id \in DOMAIN rows |->
                [rows[id] EXCEPT !.mark = Max({@} \cup Marked(id))]]
  /\ batch' = <<>>
  /\ todo' = Tail(todo)
  /\ UNCHANGED <<disk, writer, indexed, next, faults>>

(* Mutant: the row stays open.                                             *)
SealForgotten ==
  /\ At("Seal")
  /\ writer' = [writer EXCEPT !.file = FALSE, !.seq = @ + 1]
  /\ todo' = Tail(todo)
  /\ UNCHANGED <<disk, rows, batch, indexed, next, faults>>

(* rotate closes the file and sets its row to sealed; ensure_open creates  *)
(* the next one, which must not exist, and registers it.                   *)
Seal ==
  /\ At("Seal")
  /\ rows' = [rows EXCEPT ![writer.id].state = "Sealed"]
  /\ writer' = [writer EXCEPT !.file = FALSE, !.seq = @ + 1]
  /\ todo' = Tail(todo)
  /\ UNCHANGED <<disk, batch, indexed, next, faults>>

Create ==
  /\ At("Create")
  /\ writer.seq \notin DOMAIN disk
  /\ disk' = [s \in DOMAIN disk \cup {writer.seq} |->
                IF s = writer.seq THEN <<>> ELSE disk[s]]
  /\ todo' = Tail(todo)
  /\ UNCHANGED <<rows, writer, batch, indexed, next, faults>>

Insert ==
  /\ At("Insert")
  /\ rows' = Append(rows, [seq |-> writer.seq, state |-> "Open", mark |-> 0])
  /\ writer' = [writer EXCEPT !.up = TRUE, !.file = TRUE, !.id = Len(rows'), !.off = 0]
  /\ todo' = Tail(todo)
  /\ UNCHANGED <<disk, batch, indexed, next, faults>>

-----------------------------------------------------------------------------
(* A step fails: the handler returns the error, its caller logs it.  A     *)
(* commit that fails has lost its batch, and a push that fails its record, *)
(* as an opening that fails has lost what there was to push.               *)
Abandoned ==
  /\ batch' = IF Head(todo) \in {"Commit", "Mark"} THEN <<>> ELSE batch
  /\ next' = IF next <= Len(Records) /\ ("Write" \in Range(todo) \/ ~writer.up)
             THEN next + 1 ELSE next
  /\ todo' = <<>>

(* The handle is taken before the row is set and the number moves after.   *)
Fail ==
  /\ todo # <<>> /\ Head(todo) \in faults.failAt
  /\ faults.failures > 0
  /\ Abandoned
  /\ writer' = [writer EXCEPT !.file = @ /\ Head(todo) # "Seal"]
  /\ faults' = [faults EXCEPT !.failures = @ - 1]
  /\ UNCHANGED <<disk, rows, indexed>>

(* create_new finds the file there.                                        *)
AlreadyExists ==
  /\ At("Create")
  /\ writer.seq \in DOMAIN disk
  /\ Abandoned
  /\ UNCHANGED <<disk, rows, writer, indexed, faults>>

(* The source sends again what lies behind no watermark.                   *)
Committed ==
  UNION {Range(SubSeq(disk[rows[id].seq], 1, rows[id].mark)) : id \in 1 .. Len(rows)}

Die ==
  /\ writer' = Down
  /\ batch' = <<>>
  /\ todo' = <<>>
  /\ next' = 1 + Max({0} \cup Committed)
  /\ UNCHANGED <<disk, rows, indexed>>

Crash ==
  /\ writer.up \/ ~Idle
  /\ (IF Idle THEN "Idle" ELSE Head(todo)) \in faults.crashAt
  /\ faults.crashes > 0
  /\ faults' = [faults EXCEPT !.crashes = @ - 1]
  /\ Die

(* append unwraps the handle.                                              *)
Panic ==
  /\ At("Write") /\ ~writer.file
  /\ UNCHANGED faults
  /\ Die

Work == Reserve \/ Write \/ Commit \/ Mark \/ Seal \/ Create \/ Insert
          \/ AlreadyExists \/ Panic

Next == OpenOrRecover \/ Push \/ Finish \/ Work \/ Fail \/ Crash

Spec == Init /\ [][Next]_vars

(* Data keeps arriving for the device, so an absent pipeline is opened, and *)
(* a handler that has begun runs to its end.                               *)
FairSpec == Spec /\ WF_vars(OpenOrRecover) /\ WF_vars(Work)

-----------------------------------------------------------------------------
(* A restart has one file to go on with: the ledger never has two open     *)
(* files of a device.                                                      *)
OneOpenRow == Cardinality(OpenRows) <= 1

(* No step fails; or nothing fails or stops between the transaction of the *)
(* index and that of the watermarks.  An entry the watermarks never came   *)
(* to is not overwritten, so that a later record at its idx, which only a  *)
(* failed write puts there, would be taken for it.                         *)
CommitIsWhole == faults.failAt = {} \/ "Mark" \notin faults.failAt \cup faults.crashAt

(* No watermark lies beyond the end of its file, whatever was truncated,   *)
(* and every record behind a watermark is the one its idx was indexed as,  *)
(* unless a step fails between the two transactions of a commit.           *)
IndexTellsTheFile ==
  /\ \A id \in 1 .. Len(rows) : rows[id].mark <= Len(disk[rows[id].seq])
  /\ CommitIsWhole =>
       \A e \in indexed :
         e.off < rows[e.id].mark => disk[rows[e.id].seq][e.off + 1] = e.n

(* A batch is committed before its file is left (push_record's barrier):   *)
(* all that is gathered lies in the file being written, so a transaction   *)
(* never spans two files; and unless a step fails, a sealed file is        *)
(* indexed as a whole, since no recovery opens it again.                   *)
LeftFileIsCommitted ==
  /\ \A e \in Range(batch) : e.id = writer.id
  /\ faults.failAt = {} =>
       \A id \in 1 .. Len(rows) :
         rows[id].state = "Sealed" => rows[id].mark = Len(disk[rows[id].seq])

(* After a crash the device's pipeline comes back (open_or_recover), if no *)
(* crash falls between the row that is sealed and the next one.            *)
WriterComesBack ==
  faults.crashAt \cap {"Create", "Insert"} = {} /\ faults.failAt = {} => []<>writer.up

-----------------------------------------------------------------------------
(* A statement of the code that a run refutes: whatever the moment of a    *)
(* crash, the pipeline comes back, for open_or_recover is there so that    *)
(* create_new does not meet the old file (batch.rs:357).                   *)
WriterAlwaysComesBack == []<>writer.up
=============================================================================
