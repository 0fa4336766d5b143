----------------------------- MODULE MCQrMatch -----------------------------
(* TLC instances of QrMatch.                                               *)
EXTENDS QrMatch

MCEnds == {Client, Server}
Ports == [e \in MCEnds |-> 0]
NoRules == <<>>

Whole == [midway |-> FALSE, partial |-> FALSE, late |-> {}, len |-> 2, sent |-> 3,
          packets |-> 11, time |-> 11]
PartialAcks ==
  [Whole EXCEPT !.partial = TRUE, !.late = {{"RST"}}, !.len = 3, !.sent = 4,
                !.packets = 9, !.time = 9]
LateSyns == [Whole EXCEPT !.late = {{"SYN"}}, !.packets = 8, !.time = 8]
Short == [Whole EXCEPT !.len = 1, !.sent = 2, !.packets = 8, !.time = 15]
Midway == [Short EXCEPT !.midway = TRUE, !.packets = 5, !.time = 10]

Verdicts == {Whole, PartialAcks, LateSyns}
Timeouts == {Short, Midway}
OnlyPartial == {[PartialAcks EXCEPT !.late = {}]}
=============================================================================
