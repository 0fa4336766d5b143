------------------------------ MODULE MCHotFile -----------------------------
(* TLC instances of HotFile: files of two units, records of one to three.  *)
EXTENDS HotFile

Lengths == <<1, 1, 1, 2, 3, 1, 1>>

Crashes(steps, n) == [crashAt |-> steps, crashes |-> n, failAt |-> {}, failures |-> 0]
Failures(steps, n) == [crashAt |-> {}, crashes |-> 0, failAt |-> steps, failures |-> n]

Opening == {"Create", "Insert"}
Mixed == [crashAt |-> (Step \cup {"Idle"}) \ {"Mark"}, crashes |-> 1,
          failAt |-> Step \ {"Reserve", "Mark"}, failures |-> 2]
AnyFault ==
  {Crashes(Step \cup {"Idle"}, 2),
   Crashes((Step \cup {"Idle"}) \ Opening, 3),
   Failures(Step \ {"Reserve"}, 2),
   Mixed}
CrashWhileOpening == {Crashes({"Create"}, 1)}
=============================================================================
