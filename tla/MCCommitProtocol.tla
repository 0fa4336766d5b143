-------------------------- MODULE MCCommitProtocol --------------------------
(* TLC instances of CommitProtocol: short logs of one connection, 16 raw   *)
(* sequence numbers.                                                       *)
EXTENDS CommitProtocol, TLC

CONSTANTS Client, Server, Http

MCEnds == {Client, Server}

(* The first rule is for another port; the second makes http of all that   *)
(* is sent to the server.                                                  *)
Ports == [e \in MCEnds |-> IF e = Client THEN 4000 ELSE 80]
TwoRules ==
  <<[port |-> 443, fingerprint |-> {}], [port |-> 80, fingerprint |-> {Http}]>>

Calm == [fixedCuts |-> FALSE, scans |-> {100}, crashAt |-> {}, crashes |-> 0,
         failAt |-> {}, failures |-> 0, resend |-> FALSE, reads |-> FALSE, epochs |-> 3]

(* Nothing goes wrong and the epoch rotates twice; a session beside that;  *)
(* the ledger fails behind both databases; crashes before the commit of    *)
(* live, with batches cut anew; crashes anywhere, with batches cut the   *)
(* same and timeout scans; a crash after which all is sent again; a crash  *)
(* that tears no commit, and two rotations.                                *)
AnyPlan ==
  {Calm,
   [Calm EXCEPT !.reads = TRUE, !.fixedCuts = TRUE],
   [Calm EXCEPT !.failAt = {"LiveDone", "AuditDone"}, !.failures = 2, !.epochs = 2],
   [Calm EXCEPT !.scans = {}, !.epochs = 1,
                !.crashAt = {"Idle", "Open", "Staged", "EpochDone"}, !.crashes = 3],
   [Calm EXCEPT !.fixedCuts = TRUE, !.crashAt = Stage, !.crashes = 2, !.epochs = 1],
   [Calm EXCEPT !.scans = {}, !.fixedCuts = TRUE, !.resend = TRUE,
                !.crashAt = {"Idle", "Staged", "EpochDone", "LiveDone"}, !.crashes = 1,
                !.epochs = 1],
   [Calm EXCEPT !.fixedCuts = TRUE, !.crashAt = {"Idle", "Open", "Staged", "MarkDone"},
                !.crashes = 1]}

(* The commit of the databases fails once.                                 *)
LostBatch == {[Calm EXCEPT !.scans = {}, !.failAt = {"Staged"}, !.failures = 1, !.epochs = 1]}

Syn(n, isn) == Packet(n, n, Client, {"SYN"}, isn, 0, 0, Unknown)
SynAck(n, ack) == Packet(n, n, Server, {"SYN", "ACK"}, 1, ack, 0, Unknown)
Ask(n, seq, len) == Packet(n, n, Client, {"ACK"}, seq, 0, len, Unknown)
Answer(n, ack) == Packet(n, n, Server, {"ACK"}, 1, ack, 1, Unknown)
Rst(n) == Packet(n, n, Client, {"RST"}, 0, 0, 0, Unknown)

(* Two generations, the first with a request that stays unanswered, the    *)
(* second reset.                                                           *)
TwoGenerations ==
  <<Syn(1, 14), SynAck(2, 15), Ask(3, 15, 1), Answer(4, 0), Ask(5, 0, 1),
    Syn(6, 5), SynAck(7, 6), Ask(8, 6, 2), Answer(9, 8), Ask(10, 8, 1), Rst(11)>>
=============================================================================
