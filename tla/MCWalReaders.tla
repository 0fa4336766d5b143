--------------------------- MODULE MCWalReaders ---------------------------
(* TLC instances of WalReaders: headers of 2 bytes, reads of up to 3.      *)
EXTENDS WalReaders

Rec(ts, len, state, kind) == [len |-> len, state |-> state, ts |-> ts, kind |-> kind]
Good(ts, len) == Rec(ts, len, "Good", "Passes")
BadCrc(ts, len) == Rec(ts, len, "BadCrc", "Passes")
BadMagic(ts, len) == Rec(ts, len, "BadHeader", "Passes")

Wal(blocks) == [blocks |-> blocks, known |-> TRUE, there |-> TRUE]

Quiet(job, files, size) ==
  [job |-> job, files |-> files, size |-> size, crashes |-> 0, mark |-> 0,
   resent |-> <<>>, epochs |-> <<>>, from |-> 0, to |-> TimeRange - 1]

(* Three files: intact, damaged in the middle, damaged at the end; the     *)
(* last is being written and cut back once.                                *)
ScanDamaged ==
  [Quiet("Scan",
         <<Wal(<<Good(1, 3), Good(2, 2)>>),
           Wal(<<Good(3, 2), BadCrc(4, 3), Good(5, 2)>>),
           Wal(<<Good(6, 3), BadMagic(7, 2), Good(8, 2)>>)>>, 4)
     EXCEPT !.crashes = 1, !.mark = 3,
            !.resent = <<BadMagic(7, 2), Good(8, 2)>>]

ScanWritten ==
  [Quiet("Scan", <<Wal(<<BadMagic(1, 1)>>), Wal(<<Good(2, 3), Good(3, 2), Good(4, 3)>>)>>, 5)
     EXCEPT !.crashes = 1, !.mark = 3, !.resent = <<Good(3, 2), Good(4, 3)>>]

ScanOther == [ScanWritten EXCEPT !.resent = <<Good(5, 2), BadMagic(6, 3)>>]

(* Every file of up to 4 blocks of these, scanned or decoded.              *)
Shape == {<<2, "Good">>, <<4, "Good">>, <<3, "BadCrc">>, <<1, "BadHeader">>, <<3, "BadHeader">>}

FileOfShapes(shapes) ==
  Wal([i \in 1 .. Len(shapes) |-> Rec(i, shapes[i][1], shapes[i][2], "Passes")])

ShortFiles == {FileOfShapes(shapes) : shapes \in SeqOf(Shape, 4) \ {<<>>}}

Read(job, file) == Quiet(job, <<file>>, EndsOf(file.blocks)[Len(file.blocks)])

(* A record that the decoder cannot hold.                                  *)
LongRecord == Wal(<<Good(1, 2), Good(2, 9), Good(3, 2)>>)

EachRead ==
  {Read(job, file) : job \in {"Scan", "Decode"}, file \in ShortFiles \cup {LongRecord}}

RowFor(ts, file, offset, kind) == [ts |-> ts, idx |-> Idx(file, offset), kind |-> kind]

(* The rows of two epochs: of a sound file with records of every kind and  *)
(* a damaged one, of a file that is being written, and of one the ledger   *)
(* does not know; and a row whose summary is broken.                       *)
Sealed ==
  Wal(<<Rec(1, 2, "Good", "SummaryFails"), Rec(2, 2, "Good", "FlagsFail"),
        BadCrc(3, 3), Good(4, 2), Good(9, 2)>>)
Hot == Wal(<<Good(5, 2), Good(6, 3), Good(7, 2)>>)

ExportBeside(resent) ==
  [Quiet("Export", <<Sealed, Hot>>, 7)
     EXCEPT !.crashes = 1, !.mark = 2, !.resent = resent,
            !.epochs = <<{RowFor(1, 1, 0, "SummaryFails"), RowFor(2, 1, 2, "Passes"),
                          RowFor(3, 1, 4, "Passes"), RowFor(4, 1, 7, "Passes"),
                          RowFor(4, 3, 0, "NoSummary")},
                         {RowFor(5, 2, 0, "Passes"), RowFor(6, 2, 2, "Passes"),
                          RowFor(7, 2, 5, "Passes"), RowFor(8, 3, 0, "Passes"),
                          RowFor(9, 1, 9, "Passes")}>>,
            !.to = 8]

FileLost ==
  [Quiet("Export", <<Sealed, [Hot EXCEPT !.there = FALSE]>>, 7)
     EXCEPT !.epochs = <<{RowFor(4, 1, 7, "Passes"), RowFor(5, 2, 0, "Passes"),
                          RowFor(6, 2, 2, "Passes")}>>]

AllScenarios ==
  {ScanDamaged, ScanWritten, ScanOther, FileLost,
   ExportBeside(<<Good(6, 3), Good(7, 2)>>),
   ExportBeside(<<Good(9, 2), Good(5, 3), Rec(7, 2, "Good", "FlagsFail")>>)} \cup EachRead
=============================================================================
