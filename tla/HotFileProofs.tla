--------------------------- MODULE HotFileProofs ----------------------------
(* Theorems about HotFile, for all records, file and batch sizes and       *)
(* faults.                                                                 *)
EXTENDS HotFile, SequenceTheorems, FiniteSetTheorems, WellFoundedInduction, TLAPS

(***************************************************************************)
(* Lists of steps.  A row is only inserted when none is open: the step     *)
(* that seals the open one comes first in the list, or none is open; and   *)
(* nothing in between makes another row or looks whether it is needed.     *)
(***************************************************************************)
Passed == {"Insert", "Reserve"}

SealedFirst(t, i) ==
  \E j \in 1 .. i - 1 : t[j] = "Seal" /\ \A k \in j + 1 .. i - 1 : t[k] \notin Passed

FirstInsert(t, i) == \A k \in 1 .. i - 1 : t[k] \notin Passed

Balanced(t) == \A i \in 1 .. Len(t) : t[i] = "Insert" => SealedFirst(t, i)

(* Of a list whose first insertion needs no seal.                          *)
Ready(t) == \A i \in 1 .. Len(t) : t[i] = "Insert" => SealedFirst(t, i) \/ FirstInsert(t, i)

LEMMA NoInsertBalanced ==
  ASSUME NEW t, \A i \in 1 .. Len(t) : t[i] # "Insert"
  PROVE  Balanced(t)
BY DEF Balanced

LEMMA RotationBalanced == Rotation \in Seq(Step) /\ Balanced(Rotation)
<1>1. Rotation \in Seq(Step) /\ Len(Rotation) = 3
  BY DEF Rotation, Step
<1>2. Rotation[1] = "Seal" /\ Rotation[2] = "Create" /\ Rotation[3] = "Insert"
  BY DEF Rotation
<1>3. SealedFirst(Rotation, 3)
  BY <1>2 DEF SealedFirst, Passed
<1>4. \A i \in 1 .. 3 : i = 1 \/ i = 2 \/ i = 3
  OBVIOUS
<1> QED
  BY <1>1, <1>2, <1>3, <1>4 DEF Balanced

LEMMA ConcatBalanced ==
  ASSUME NEW s \in Seq(Step), NEW t \in Seq(Step), Balanced(s), Balanced(t)
  PROVE  s \o t \in Seq(Step) /\ Balanced(s \o t)
<1>1. /\ s \o t \in Seq(Step) /\ Len(s \o t) = Len(s) + Len(t)
      /\ Len(s) \in Nat /\ Len(t) \in Nat
      /\ \A i \in 1 .. Len(s) + Len(t) :
           (s \o t)[i] = IF i <= Len(s) THEN s[i] ELSE t[i - Len(s)]
  BY ConcatProperties, LenProperties
<1>2. ASSUME NEW i \in 1 .. Len(s) + Len(t), (s \o t)[i] = "Insert"
      PROVE  SealedFirst(s \o t, i)
  <2>1. CASE i <= Len(s)
    <3>1. i \in 1 .. Len(s) /\ s[i] = "Insert"
      BY <1>1, <1>2, <2>1
    <3>2. PICK j \in 1 .. i - 1 : s[j] = "Seal" /\ \A k \in j + 1 .. i - 1 : s[k] \notin Passed
      BY <3>1 DEF Balanced, SealedFirst
    <3>3. \A k \in 1 .. i : (s \o t)[k] = s[k]
      BY <1>1, <3>1
    <3>4. (s \o t)[j] = "Seal" /\ \A k \in j + 1 .. i - 1 : (s \o t)[k] \notin Passed
      BY <3>1, <3>2, <3>3
    <3> QED
      BY <3>4 DEF SealedFirst
  <2>2. CASE ~ (i <= Len(s))
    <3> DEFINE n == Len(s)
    <3>1. i - n \in 1 .. Len(t) /\ t[i - n] = "Insert"
      BY <1>1, <1>2, <2>2
    <3>2. PICK j \in 1 .. i - n - 1 :
            t[j] = "Seal" /\ \A k \in j + 1 .. i - n - 1 : t[k] \notin Passed
      BY <3>1 DEF Balanced, SealedFirst
    <3>3. \A k \in n + 1 .. i : (s \o t)[k] = t[k - n]
      BY <1>1, <3>1
    <3>4. n + j \in 1 .. i - 1 /\ (s \o t)[n + j] = "Seal"
      BY <1>1, <3>1, <3>2, <3>3
    <3>5. \A k \in n + j + 1 .. i - 1 : (s \o t)[k] \notin Passed
      BY <1>1, <3>1, <3>2, <3>3
    <3> QED
      BY <3>4, <3>5 DEF SealedFirst
  <2> QED
    BY <2>1, <2>2
<1> QED
  BY <1>1, <1>2 DEF Balanced

(* What is left of a list when its first step is done.                     *)
LEMMA TailOfReady ==
  ASSUME NEW t \in Seq(Step), t # <<>>, Ready(t) \/ Balanced(t)
  PROVE  /\ Tail(t) \in Seq(Step)
         /\ Head(t) = "Seal" => Ready(Tail(t))
         /\ Head(t) = "Insert" => ~ Balanced(t)
         /\ Head(t) \in Passed => Balanced(Tail(t))
         /\ Head(t) # "Seal" /\ Balanced(t) => Balanced(Tail(t))
         /\ Head(t) # "Seal" /\ Ready(t) => Ready(Tail(t))
         /\ \A i \in 1 .. Len(Tail(t)) : Tail(t)[i] = t[i + 1] /\ i + 1 \in 1 .. Len(t)
<1>1. /\ Tail(t) \in Seq(Step) /\ Len(Tail(t)) = Len(t) - 1 /\ Head(t) = t[1]
      /\ Len(t) \in Nat \ {0}
      /\ \A i \in 1 .. Len(t) - 1 : Tail(t)[i] = t[i + 1]
  BY HeadTailProperties, EmptySeq, LenProperties
<1>2. Ready(t)
  BY DEF Ready, Balanced
<1>3. ASSUME NEW i \in 1 .. Len(t) - 1, SealedFirst(t, i + 1), Head(t) # "Seal"
      PROVE  SealedFirst(Tail(t), i)
  <2>1. PICK j \in 1 .. i : t[j] = "Seal" /\ \A k \in j + 1 .. i : t[k] \notin Passed
    BY <1>3 DEF SealedFirst
  <2>2. j - 1 \in 1 .. i - 1
    BY <1>1, <1>3, <2>1
  <2>3. Tail(t)[j - 1] = "Seal" /\ \A k \in j - 1 + 1 .. i - 1 : Tail(t)[k] \notin Passed
    BY <1>1, <1>3, <2>1, <2>2
  <2> QED
    BY <2>2, <2>3 DEF SealedFirst
<1>4. ASSUME NEW i \in 1 .. Len(t) - 1, FirstInsert(t, i + 1)
      PROVE  FirstInsert(Tail(t), i) /\ t[1] \notin Passed
  BY <1>1, <1>4 DEF FirstInsert
<1>5. ASSUME NEW i \in 1 .. Len(t) - 1, SealedFirst(t, i + 1), Head(t) = "Seal"
      PROVE  SealedFirst(Tail(t), i) \/ FirstInsert(Tail(t), i)
  <2>1. PICK j \in 1 .. i : t[j] = "Seal" /\ \A k \in j + 1 .. i : t[k] \notin Passed
    BY <1>5 DEF SealedFirst
  <2>2. CASE j = 1
    <3>1. \A k \in 1 .. i - 1 : Tail(t)[k] = t[k + 1] /\ k + 1 \in 2 .. i
      BY <1>1, <1>5
    <3> QED
      BY <2>1, <2>2, <3>1 DEF FirstInsert
  <2>3. CASE j # 1
    <3>1. j - 1 \in 1 .. i - 1
      BY <2>1, <2>3
    <3>2. Tail(t)[j - 1] = "Seal" /\ \A k \in j - 1 + 1 .. i - 1 : Tail(t)[k] \notin Passed
      BY <1>1, <1>5, <2>1, <3>1
    <3> QED
      BY <3>1, <3>2 DEF SealedFirst
  <2> QED
    BY <2>2, <2>3
<1>6. ASSUME NEW i \in 1 .. Len(Tail(t)), Tail(t)[i] = "Insert"
      PROVE  i \in 1 .. Len(t) - 1 /\ i + 1 \in 1 .. Len(t) /\ t[i + 1] = "Insert"
  BY <1>1, <1>6
<1>7. Head(t) = "Seal" => Ready(Tail(t))
  BY <1>2, <1>4, <1>5, <1>6 DEF Ready
<1>8. (Head(t) = "Insert" => ~ Balanced(t)) /\ (Head(t) \in Passed => Balanced(Tail(t)))
  <2>1. ~ SealedFirst(t, 1)
    BY DEF SealedFirst
  <2>2. Head(t) = "Insert" => ~ Balanced(t)
    BY <1>1, <2>1 DEF Balanced
  <2>3. ASSUME Head(t) \in Passed PROVE Balanced(Tail(t))
    <3>1. \A i \in 1 .. Len(t) - 1 : ~ FirstInsert(t, i + 1)
      BY <1>1, <1>4, <2>3
    <3>2. Head(t) # "Seal"
      BY <2>3 DEF Passed
    <3> QED
      BY <1>2, <1>3, <1>6, <3>1, <3>2 DEF Ready, Balanced
  <2> QED
    BY <2>2, <2>3
<1>9. Head(t) # "Seal" /\ Balanced(t) => Balanced(Tail(t))
  BY <1>3, <1>6 DEF Balanced
<1>10. Head(t) # "Seal" /\ Ready(t) => Ready(Tail(t))
  BY <1>3, <1>4, <1>6 DEF Ready
<1> QED
  BY <1>1, <1>7, <1>8, <1>9, <1>10

LEMMA PlansBalanced ==
  /\ <<>> \in Seq(Step) /\ Balanced(<<>>)
  /\ Flushing \in Seq(Step) /\ Balanced(Flushing)
  /\ \A i \in 1 .. Len(Flushing) : Flushing[i] \notin {"Seal", "Reserve"}
  /\ <<"Commit", "Mark">> \in Seq(Step) /\ Balanced(<<"Commit", "Mark">>)
  /\ \A i \in 1 .. Len(<<"Commit", "Mark">>) :
       <<"Commit", "Mark">>[i] \notin {"Seal", "Reserve"}
  /\ <<"Reserve", "Write">> \in Seq(Step) /\ Balanced(<<"Reserve", "Write">>)
  /\ <<"Create", "Insert">> \in Seq(Step) /\ Ready(<<"Create", "Insert">>)
  /\ \A i \in 1 .. Len(<<"Create", "Insert">>) :
       <<"Create", "Insert">>[i] \notin {"Seal", "Reserve"}
<1>1. <<>> \in Seq(Step) /\ Balanced(<<>>) /\ \A i \in 1 .. Len(<<>>) : FALSE
  <2>1. <<>> \in Seq(Step) /\ Len(<<>>) = 0
    BY EmptySeq
  <2> QED
    BY <2>1 DEF Balanced
<1> DEFINE cm == <<"Commit", "Mark">>
           rw == <<"Reserve", "Write">>
           ci == <<"Create", "Insert">>
<1>2. \A i \in 1 .. 2 : i = 1 \/ i = 2
  OBVIOUS
<1>3. cm \in Seq(Step) /\ Len(cm) = 2 /\ cm[1] = "Commit" /\ cm[2] = "Mark"
  BY DEF Step
<1>4. rw \in Seq(Step) /\ Len(rw) = 2 /\ rw[1] = "Reserve" /\ rw[2] = "Write"
  BY DEF Step
<1>5. ci \in Seq(Step) /\ Len(ci) = 2 /\ ci[1] = "Create" /\ ci[2] = "Insert"
  BY DEF Step
<1>6. FirstInsert(ci, 2)
  <2>1. \A k \in 1 .. 2 - 1 : k = 1
    OBVIOUS
  <2> QED
    BY <1>5, <2>1 DEF FirstInsert, Passed
<1> HIDE DEF cm, rw, ci
<1>7. Balanced(cm) /\ \A i \in 1 .. Len(cm) : cm[i] \notin {"Seal", "Reserve"}
  BY <1>2, <1>3 DEF Balanced
<1>8. Balanced(rw)
  BY <1>2, <1>4 DEF Balanced
<1>9. Ready(ci) /\ \A i \in 1 .. Len(ci) : ci[i] \notin {"Seal", "Reserve"}
  BY <1>2, <1>5, <1>6 DEF Ready
<1>10. Flushing = <<>> \/ Flushing = cm
  BY DEF Flushing, cm
<1>11. Flushing \in Seq(Step) /\ Balanced(Flushing)
       /\ \A i \in 1 .. Len(Flushing) : Flushing[i] \notin {"Seal", "Reserve"}
  <2>1. CASE Flushing = <<>>
    BY <1>1, <2>1
  <2>2. CASE Flushing = cm
    BY <1>3, <1>7, <2>2
  <2> QED
    BY <1>10, <2>1, <2>2
<1> QED
  BY <1>1, <1>3, <1>4, <1>5, <1>7, <1>8, <1>9, <1>11 DEF cm, rw, ci

-----------------------------------------------------------------------------
Owned(id) == OpenRows \subseteq {id}

RowsAreRows == \E S : rows \in Seq(S) /\ \A r \in S : "state" \in DOMAIN r

Agenda == todo \in Seq(Step) /\ (Balanced(todo) \/ (Ready(todo) /\ OpenRows = {}))

(* While the pipeline is up, and whenever a row may yet be sealed, the     *)
(* open row is the writer's.                                               *)
Ownership ==
  /\ writer.up => Owned(writer.id)
  /\ (\E i \in 1 .. Len(todo) : todo[i] \in {"Seal", "Reserve"}) => Owned(writer.id)
  /\ \E id : Owned(id)

Fields == {"up", "file", "seq", "id", "off"} \subseteq DOMAIN writer

Inv == RowsAreRows /\ Agenda /\ Ownership /\ Fields

LEMMA InitIsInv == Init => Inv
<1> SUFFICES ASSUME Init PROVE Inv
  OBVIOUS
<1>1. todo = <<>> /\ rows = <<>> /\ writer = Down
  BY DEF Init
<1>2. rows \in Seq({})
  BY <1>1, EmptySeq
<1>3. OpenRows = {}
  <2>1. Len(rows) = 0
    BY <1>1, EmptySeq
  <2> QED
    BY <2>1 DEF OpenRows
<1>4. \A i \in 1 .. Len(todo) : FALSE
  <2>1. Len(todo) = 0
    BY <1>1, EmptySeq
  <2> QED
    BY <2>1
<1>5. Fields
  BY <1>1 DEF Down, Fields
<1>6. RowsAreRows
  BY <1>2 DEF RowsAreRows
<1>7. Agenda
  BY <1>1, PlansBalanced DEF Agenda
<1>8. Ownership
  BY <1>1, <1>3, <1>4 DEF Ownership, Owned, Down
<1> QED
  BY <1>5, <1>6, <1>7, <1>8 DEF Inv

(* A step that leaves the rows alone and is done.                          *)
LEMMA StepDone ==
  ASSUME Inv, todo # <<>>, todo' = Tail(todo), OpenRows' = OpenRows,
         writer'.id = writer.id, writer'.up = writer.up,
         Head(todo) \notin {"Seal", "Insert"}
  PROVE  Agenda' /\ Ownership'
<1>1. todo \in Seq(Step) /\ (Ready(todo) \/ Balanced(todo))
  BY DEF Inv, Agenda
<1>2. /\ todo' \in Seq(Step)
      /\ Balanced(todo) => Balanced(todo')
      /\ Ready(todo) => Ready(todo')
      /\ \A i \in 1 .. Len(todo') : todo'[i] = todo[i + 1] /\ i + 1 \in 1 .. Len(todo)
  BY <1>1, TailOfReady
<1>3. Agenda'
  BY <1>2 DEF Inv, Agenda, Balanced, Ready
<1>4. Ownership'
  <2>1. Ownership
    BY DEF Inv
  <2>2. (\E i \in 1 .. Len(todo') : todo'[i] \in {"Seal", "Reserve"})
        => \E i \in 1 .. Len(todo) : todo[i] \in {"Seal", "Reserve"}
    BY <1>2
  <2> QED
    BY <2>1, <2>2 DEF Ownership, Owned
<1> QED
  BY <1>3, <1>4

(* A handler ends, or begins a list of steps.                              *)
LEMMA Begun ==
  ASSUME Inv, NEW list \in Seq(Step), Balanced(list) \/ (Ready(list) /\ OpenRows = {}),
         todo' = list, OpenRows' = OpenRows, writer'.id = writer.id,
         writer'.up => Owned(writer.id),
         (\E i \in 1 .. Len(list) : list[i] \in {"Seal", "Reserve"}) => Owned(writer.id)
  PROVE  Agenda' /\ Ownership'
<1>1. Agenda'
  BY DEF Agenda, Balanced, Ready
<1>2. \E id : Owned(id)
  BY DEF Inv, Ownership
<1> QED
  BY <1>1, <1>2 DEF Ownership, Owned

LEMMA RowsStay ==
  ASSUME UNCHANGED rows
  PROVE  OpenRows' = OpenRows /\ (RowsAreRows => RowsAreRows')
BY DEF OpenRows, RowsAreRows

LEMMA OpenOrRecoverKeeps == Inv /\ OpenOrRecover => Inv'
<1> SUFFICES ASSUME Inv, OpenOrRecover PROVE Inv'
  OBVIOUS
<1>1. UNCHANGED rows
  BY DEF OpenOrRecover
<1>2. OpenRows' = OpenRows /\ RowsAreRows'
  BY <1>1, RowsStay DEF Inv
<1>3. CASE OpenRows # {} /\ Recover
  <2>1. PICK id : OpenRows = {id}
    BY <1>3 DEF Inv, Ownership, Owned
  <2>2. id \in Int
    BY <2>1 DEF OpenRows
  <2>3. Max(OpenRows) = id
    BY <2>1, <2>2 DEF Max
  <2>4. writer' = Resumed(id) /\ todo' = <<>>
    BY <1>3, <2>3 DEF Recover
  <2>5. writer'.id = id /\ Fields'
    BY <2>4 DEF Resumed, Fields
  <2>6. Len(todo') = 0 /\ \A i \in 1 .. Len(todo') : FALSE
    BY <2>4, EmptySeq
  <2>7. Agenda'
    BY <2>4, PlansBalanced DEF Agenda, Balanced
  <2>8. Ownership'
    BY <1>2, <2>1, <2>5, <2>6 DEF Ownership, Owned
  <2> QED
    BY <1>2, <2>5, <2>7, <2>8 DEF Inv
<1>4. CASE OpenRows = {} /\ todo' = <<"Create", "Insert">> /\ UNCHANGED writer
  <2>1. Owned(writer.id)
    BY <1>4 DEF Owned
  <2> DEFINE list == <<"Create", "Insert">>
  <2>2. list \in Seq(Step) /\ Ready(list) /\ todo' = list
    BY <1>4, PlansBalanced
  <2> HIDE DEF list
  <2>3. Agenda' /\ Ownership'
    BY <1>2, <1>4, <2>1, <2>2, Begun
  <2> QED
    BY <1>2, <1>4, <2>3 DEF Inv, Fields
<1> QED
  BY <1>3, <1>4 DEF OpenOrRecover

LEMMA PushKeeps == Inv /\ (Push \/ Finish) => Inv'
<1> SUFFICES ASSUME Inv, Push \/ Finish PROVE Inv'
  OBVIOUS
<1>1. UNCHANGED <<rows, writer>> /\ writer.up
  BY DEF Push, Finish
<1>2. OpenRows' = OpenRows /\ RowsAreRows' /\ Fields'
  BY <1>1, RowsStay DEF Inv, Fields
<1>3. Owned(writer.id)
  BY <1>1 DEF Inv, Ownership
<1>4. Flushing \o Rotation \in Seq(Step) /\ Balanced(Flushing \o Rotation)
  BY PlansBalanced, RotationBalanced, ConcatBalanced
<1>5. todo' \in Seq(Step) /\ Balanced(todo')
  <2>1. CASE Finish
    BY <1>4, <2>1 DEF Finish, Balanced
  <2>2. CASE Push
    <3> DEFINE before == IF OverBoundary THEN Flushing \o Rotation ELSE <<>>
               list == before \o <<"Reserve", "Write">>
    <3>1. before \in Seq(Step) /\ Balanced(before)
      BY <1>4, PlansBalanced
    <3>2. todo' = list
      BY <2>2 DEF Push
    <3> HIDE DEF before
    <3>3. list \in Seq(Step) /\ Balanced(list)
      BY <3>1, PlansBalanced, ConcatBalanced
    <3> QED
      BY <3>2, <3>3
  <2> QED
    BY <2>1, <2>2
<1>6. Agenda' /\ Ownership'
  BY <1>1, <1>2, <1>3, <1>5 DEF Agenda, Ownership, Owned
<1> QED
  BY <1>2, <1>6 DEF Inv

LEMMA ReserveKeeps == Inv /\ Reserve => Inv'
<1> SUFFICES ASSUME Inv, Reserve PROVE Inv'
  OBVIOUS
<1>1. UNCHANGED <<rows, writer>> /\ todo # <<>> /\ Head(todo) = "Reserve"
  BY DEF Reserve, At
<1>2. OpenRows' = OpenRows /\ RowsAreRows' /\ Fields'
  BY <1>1, RowsStay DEF Inv, Fields
<1>3. todo \in Seq(Step) /\ (Ready(todo) \/ Balanced(todo))
  BY DEF Inv, Agenda
<1>4. Owned(writer.id)
  <2>1. 1 \in 1 .. Len(todo) /\ todo[1] = "Reserve"
    BY <1>1, <1>3, HeadTailProperties, EmptySeq, LenProperties
  <2> QED
    BY <2>1 DEF Inv, Ownership
<1>5. Tail(todo) \in Seq(Step) /\ Balanced(Tail(todo))
  BY <1>1, <1>3, TailOfReady DEF Passed
<1> DEFINE before == IF writer.off + Records[next] > FileSize THEN Rotation ELSE <<>>
<1>6. before = Rotation \/ before = <<>>
  OBVIOUS
<1>7. todo' = before \o Tail(todo)
  BY DEF Reserve
<1> HIDE DEF before
<1>8. before \in Seq(Step) /\ Balanced(before)
  BY <1>6, PlansBalanced, RotationBalanced
<1>9. before \o Tail(todo) \in Seq(Step) /\ Balanced(before \o Tail(todo))
  BY <1>5, <1>8, ConcatBalanced
<1>10. Agenda'
  BY <1>7, <1>9 DEF Agenda, Balanced
<1>11. Ownership'
  BY <1>1, <1>2, <1>4 DEF Ownership, Owned
<1> QED
  BY <1>2, <1>10, <1>11 DEF Inv

LEMMA WriteKeeps == Inv /\ Write => Inv'
<1> SUFFICES ASSUME Inv, Write PROVE Inv'
  OBVIOUS
<1>1. /\ UNCHANGED rows
      /\ \E x : writer' = [writer EXCEPT !.off = x]
      /\ todo' = <<"Commit", "Mark">> \/ todo' = <<>>
  BY DEF Write
<1>2. OpenRows' = OpenRows /\ RowsAreRows'
  BY <1>1, RowsStay DEF Inv
<1>3. Fields' /\ writer'.id = writer.id /\ writer'.up = writer.up
  BY <1>1 DEF Inv, Fields
<1>4. writer'.up => Owned(writer.id)
  BY <1>3 DEF Inv, Ownership
<1>5. PICK list \in {<<"Commit", "Mark">>, <<>>} : todo' = list
  BY <1>1
<1>6. /\ list \in Seq(Step) /\ Balanced(list)
      /\ \A i \in 1 .. Len(list) : list[i] \notin {"Seal", "Reserve"}
  <2>1. \A i \in 1 .. Len(<<>>) : FALSE
    <3>1. Len(<<>>) = 0
      BY EmptySeq
    <3> QED
      BY <3>1
  <2> QED
    BY <2>1, <1>5, PlansBalanced
<1>7. Agenda' /\ Ownership'
  BY <1>2, <1>3, <1>4, <1>5, <1>6, Begun
<1> QED
  BY <1>2, <1>3, <1>7 DEF Inv

LEMMA CommitOrCreateKeeps == Inv /\ (Commit \/ Create) => Inv'
<1> SUFFICES ASSUME Inv, Commit \/ Create PROVE Inv'
  OBVIOUS
<1>1. /\ UNCHANGED <<rows, writer>> /\ todo # <<>> /\ todo' = Tail(todo)
      /\ Head(todo) \notin {"Seal", "Insert"}
  BY DEF Commit, Create, At
<1>2. OpenRows' = OpenRows /\ RowsAreRows' /\ Fields'
  BY <1>1, RowsStay DEF Inv, Fields
<1>3. Agenda' /\ Ownership'
  BY <1>1, <1>2, StepDone
<1> QED
  BY <1>2, <1>3 DEF Inv

(* A watermark that moves leaves the states of the rows.                   *)
LEMMA MarkKeeps == Inv /\ Mark => Inv'
<1> SUFFICES ASSUME Inv, Mark PROVE Inv'
  OBVIOUS
<1> DEFINE row(id) == [rows[id] EXCEPT !.mark = Max({@} \cup Marked(id))]
<1>1. /\ UNCHANGED writer /\ todo # <<>> /\ todo' = Tail(todo)
      /\ Head(todo) \notin {"Seal", "Insert"}
      /\ rows' = [id \in DOMAIN rows |-> row(id)]
  BY DEF Mark, At
<1>2. PICK S : rows \in Seq(S) /\ \A r \in S : "state" \in DOMAIN r
  BY DEF Inv, RowsAreRows
<1>3. DOMAIN rows = 1 .. Len(rows) /\ Len(rows) \in Nat /\ \A id \in 1 .. Len(rows) : rows[id] \in S
  BY <1>2, LenProperties, ElementOfSeq
<1>4. \A id \in 1 .. Len(rows) : "state" \in DOMAIN row(id) /\ row(id).state = rows[id].state
  BY <1>2, <1>3
<1> HIDE DEF row
<1> DEFINE T == {row(id) : id \in 1 .. Len(rows)}
<1>5. rows' \in Seq(T) /\ Len(rows') = Len(rows) /\ \A id \in 1 .. Len(rows) : rows'[id] = row(id)
  <2>1. rows' = [id \in 1 .. Len(rows) |-> row(id)]
    BY <1>1, <1>3
  <2>2. rows' \in [1 .. Len(rows) -> T]
    BY <2>1
  <2>3. rows' \in Seq(T)
    BY <1>3, <2>2, SeqDef
  <2>4. DOMAIN rows' = 1 .. Len(rows)
    BY <2>1
  <2>5. Len(rows') \in Nat /\ DOMAIN rows' = 1 .. Len(rows')
    BY <2>3, LenProperties
  <2>6. Len(rows') = Len(rows)
    BY <1>3, <2>4, <2>5
  <2> QED
    BY <2>1, <2>3, <2>6
<1>6. RowsAreRows'
  <2>1. \A r \in T : "state" \in DOMAIN r
    BY <1>4
  <2> QED
    BY <1>5, <2>1 DEF RowsAreRows
<1>7. OpenRows' = OpenRows
  BY <1>4, <1>5 DEF OpenRows
<1>8. Agenda' /\ Ownership'
  BY <1>1, <1>7, StepDone
<1> QED
  BY <1>1, <1>6, <1>8 DEF Inv, Fields

LEMMA SealKeeps == Inv /\ Seal => Inv'
<1> SUFFICES ASSUME Inv, Seal PROVE Inv'
  OBVIOUS
<1>1. /\ todo # <<>> /\ Head(todo) = "Seal" /\ todo' = Tail(todo)
      /\ rows' = [rows EXCEPT ![writer.id].state = "Sealed"]
      /\ writer' = [writer EXCEPT !.file = FALSE, !.seq = @ + 1]
  BY DEF Seal, At
<1>2. PICK S : rows \in Seq(S) /\ \A r \in S : "state" \in DOMAIN r
  BY DEF Inv, RowsAreRows
<1>3. DOMAIN rows = 1 .. Len(rows) /\ Len(rows) \in Nat /\ \A id \in 1 .. Len(rows) : rows[id] \in S
  BY <1>2, LenProperties, ElementOfSeq
<1> DEFINE T == S \cup {[r EXCEPT !.state = "Sealed"] : r \in S}
<1>4. /\ rows' \in Seq(T) /\ Len(rows') = Len(rows)
      /\ \A id \in 1 .. Len(rows) : id # writer.id => rows'[id] = rows[id]
      /\ writer.id \in 1 .. Len(rows) => rows'[writer.id].state = "Sealed"
  <2>1. DOMAIN rows' = 1 .. Len(rows)
    BY <1>1, <1>3
  <2>2. \A id \in 1 .. Len(rows) : id # writer.id => rows'[id] = rows[id]
    BY <1>1, <1>3
  <2>3. writer.id \in 1 .. Len(rows) => rows'[writer.id] = [rows[writer.id] EXCEPT !.state = "Sealed"]
    BY <1>1, <1>3
  <2>4. \A id \in 1 .. Len(rows) : rows'[id] \in T
    BY <1>3, <2>2, <2>3
  <2>5. rows' = [id \in 1 .. Len(rows) |-> rows'[id]]
    BY <1>1, <1>3
  <2>6. rows' \in [1 .. Len(rows) -> T]
    BY <2>4, <2>5
  <2>7. rows' \in Seq(T)
    BY <1>3, <2>6, SeqDef
  <2>8. Len(rows') = Len(rows)
    BY <1>3, <2>1, <2>7, LenProperties
  <2>9. writer.id \in 1 .. Len(rows) => rows'[writer.id].state = "Sealed"
    BY <1>2, <1>3, <2>3
  <2> QED
    BY <2>2, <2>7, <2>8, <2>9
<1>5. RowsAreRows'
  <2>1. \A r \in T : "state" \in DOMAIN r
    BY <1>2
  <2> QED
    BY <1>4, <2>1 DEF RowsAreRows
<1>6. todo \in Seq(Step) /\ (Ready(todo) \/ Balanced(todo))
  BY DEF Inv, Agenda
<1>7. Owned(writer.id)
  <2>1. 1 \in 1 .. Len(todo) /\ todo[1] = "Seal"
    BY <1>1, <1>6, HeadTailProperties, EmptySeq, LenProperties
  <2> QED
    BY <2>1 DEF Inv, Ownership
<1>8. OpenRows' = {}
  BY <1>4, <1>7 DEF OpenRows, Owned
<1>9. Agenda'
  BY <1>1, <1>6, <1>8, TailOfReady DEF Agenda, Ready
<1>10. Ownership' /\ Fields'
  BY <1>1, <1>8 DEF Ownership, Owned, Inv, Fields
<1> QED
  BY <1>5, <1>9, <1>10 DEF Inv

LEMMA InsertKeeps == Inv /\ Insert => Inv'
<1> SUFFICES ASSUME Inv, Insert PROVE Inv'
  OBVIOUS
<1> DEFINE new == [seq |-> writer.seq, state |-> "Open", mark |-> 0]
<1>1. /\ todo # <<>> /\ Head(todo) = "Insert" /\ todo' = Tail(todo)
      /\ rows' = Append(rows, new)
      /\ writer' = [writer EXCEPT !.up = TRUE, !.file = TRUE, !.id = Len(rows'), !.off = 0]
  BY DEF Insert, At
<1>2. todo \in Seq(Step) /\ (Ready(todo) \/ Balanced(todo))
  BY DEF Inv, Agenda
<1>3. OpenRows = {} /\ todo' \in Seq(Step) /\ Balanced(todo')
  BY <1>1, <1>2, TailOfReady DEF Inv, Agenda, Passed
<1>4. PICK S : rows \in Seq(S) /\ \A r \in S : "state" \in DOMAIN r
  BY DEF Inv, RowsAreRows
<1>5. new.state = "Open" /\ "state" \in DOMAIN new
  OBVIOUS
<1> HIDE DEF new
<1> DEFINE T == S \cup {new}
<1>6. rows \in Seq(T) /\ new \in T /\ \A r \in T : "state" \in DOMAIN r
  BY <1>4, <1>5
<1> HIDE DEF T
<1>7. /\ rows' \in Seq(T) /\ Len(rows') = Len(rows) + 1 /\ Len(rows) \in Nat
      /\ \A id \in 1 .. Len(rows) : rows'[id] = rows[id]
  BY <1>1, <1>6, AppendProperties, LenProperties
<1>8. RowsAreRows'
  BY <1>6, <1>7 DEF RowsAreRows
<1>9. writer'.id = Len(rows') /\ Fields'
  BY <1>1 DEF Inv, Fields
<1>10. OpenRows' \subseteq {Len(rows')}
  BY <1>3, <1>7 DEF OpenRows
<1> QED
  BY <1>3, <1>8, <1>9, <1>10 DEF Inv, Agenda, Ownership, Owned

(* A handler that is broken off, by an error or by the end of the process. *)
LEMMA BrokenOffKeeps ==
  ASSUME Inv, UNCHANGED rows, todo' = <<>>, Fields',
         (writer'.id = writer.id /\ writer'.up = writer.up) \/ writer' = Down
  PROVE  Inv'
<1>1. OpenRows' = OpenRows /\ RowsAreRows'
  BY RowsStay DEF Inv
<1>2. \A i \in 1 .. Len(todo') : FALSE
  <2>1. Len(todo') = 0
    BY EmptySeq
  <2> QED
    BY <2>1
<1>3. Agenda'
  BY PlansBalanced DEF Agenda, Balanced
<1>4. writer'.up => Owned(writer.id) /\ writer'.id = writer.id
  <2>1. CASE writer'.id = writer.id /\ writer'.up = writer.up
    BY <2>1 DEF Inv, Ownership
  <2>2. CASE writer' = Down
    <3>1. ~ Down.up
      BY DEF Down
    <3> QED
      BY <2>2, <3>1
  <2> QED
    BY <2>1, <2>2
<1>5. Ownership'
  BY <1>1, <1>2, <1>4 DEF Inv, Ownership, Owned
<1> QED
  BY <1>1, <1>3, <1>5 DEF Inv

LEMMA FaultKeeps == Inv /\ (Fail \/ AlreadyExists \/ Crash \/ Panic) => Inv'
<1> SUFFICES ASSUME Inv, Fail \/ AlreadyExists \/ Crash \/ Panic PROVE Inv'
  OBVIOUS
<1>1. CASE Fail
  <2>1. \E x : writer' = [writer EXCEPT !.file = x]
    BY <1>1, Zenon DEF Fail
  <2>2. Fields' /\ writer'.id = writer.id /\ writer'.up = writer.up
    BY <2>1 DEF Inv, Fields
  <2>3. UNCHANGED rows /\ todo' = <<>>
    BY <1>1 DEF Fail, Abandoned
  <2> QED
    BY <2>2, <2>3, BrokenOffKeeps
<1>2. CASE AlreadyExists
  <2>1. UNCHANGED <<rows, writer>> /\ todo' = <<>>
    BY <1>2 DEF AlreadyExists, Abandoned
  <2> QED
    BY <2>1, BrokenOffKeeps DEF Inv, Fields
<1>3. CASE Crash \/ Panic
  <2>1. UNCHANGED rows /\ todo' = <<>> /\ writer' = Down
    BY <1>3 DEF Crash, Panic, Die
  <2>2. Fields'
    BY <2>1 DEF Fields, Down
  <2> QED
    BY <2>1, <2>2, BrokenOffKeeps
<1> QED
  BY <1>1, <1>2, <1>3

(* Each step keeps the agreement of the handler with the open row.         *)
LEMMA NextKeeps == Inv /\ Next => Inv'
BY OpenOrRecoverKeeps, PushKeeps, ReserveKeeps, WriteKeeps, CommitOrCreateKeeps,
   MarkKeeps, SealKeeps, InsertKeeps, FaultKeeps
   DEF Next, Work

(* However often the process dies, at whatever step, and whichever step    *)
(* fails, a restart finds at most one open row: a row is only inserted     *)
(* behind the step that seals the last one, or when recovery has found     *)
(* none, and only the row of the file at hand is ever open                 *)
(* (open_or_recover, rotate, ensure_open).                                 *)
THEOREM OneOpenRowTheorem == Spec => []OneOpenRow
<1>1. Init => Inv
  BY InitIsInv
<1>2. Inv /\ [Next]_vars => Inv'
  <2> SUFFICES ASSUME Inv, [Next]_vars PROVE Inv'
    OBVIOUS
  <2>1. CASE Next
    BY <2>1, NextKeeps
  <2>2. CASE UNCHANGED vars
    <3>1. UNCHANGED <<rows, writer, todo>>
      BY <2>2 DEF vars
    <3>2. OpenRows' = OpenRows /\ RowsAreRows'
      BY <3>1, RowsStay DEF Inv
    <3> QED
      BY <3>1, <3>2 DEF Inv, Agenda, Balanced, Ready, Ownership, Owned, Fields
  <2> QED
    BY <2>1, <2>2
<1>3. Inv => OneOpenRow
  <2> SUFFICES ASSUME Inv PROVE OneOpenRow
    OBVIOUS
  <2>1. PICK id : OpenRows \subseteq {id}
    BY DEF Inv, Ownership, Owned
  <2>2. IsFiniteSet({id}) /\ Cardinality({id}) = 1
    BY FS_Singleton
  <2>3. Cardinality(OpenRows) <= Cardinality({id}) /\ Cardinality(OpenRows) \in Nat
    BY <2>1, <2>2, FS_Subset, FS_CardinalityType
  <2> QED
    BY <2>2, <2>3 DEF OneOpenRow
<1> QED
  BY <1>1, <1>2, <1>3, PTL DEF Spec

(* A list with a step put before it.                                       *)
LEMMA ConsIs ==
  \A e \in Step, s \in Seq(Step) :
    /\ Cons(e, s) \in Seq(Step) /\ Cons(e, s) # <<>>
    /\ Head(Cons(e, s)) = e /\ Tail(Cons(e, s)) = s
    /\ \A x : x \in Range(Cons(e, s)) <=> x = e \/ x \in Range(s)
<1> SUFFICES ASSUME NEW e \in Step, NEW s \in Seq(Step)
             PROVE  /\ Cons(e, s) \in Seq(Step) /\ Cons(e, s) # <<>>
                    /\ Head(Cons(e, s)) = e /\ Tail(Cons(e, s)) = s
                    /\ \A x : x \in Range(Cons(e, s)) <=> x = e \/ x \in Range(s)
  OBVIOUS
<1> DEFINE S == Step
<1>1. <<e>> \in Seq(S) /\ Len(<<e>>) = 1 /\ <<e>>[1] = e
  OBVIOUS
<1>2. /\ Cons(e, s) \in Seq(S) /\ Len(Cons(e, s)) = 1 + Len(s) /\ Len(s) \in Nat
      /\ \A i \in 1 .. 1 + Len(s) : Cons(e, s)[i] = IF i <= 1 THEN <<e>>[i] ELSE s[i - 1]
  BY <1>1, ConcatProperties, LenProperties DEF Cons
<1>3. Head(Cons(e, s)) = e /\ Cons(e, s) # <<>>
  BY <1>1, <1>2, EmptySeq, HeadTailProperties
<1>4. Tail(Cons(e, s)) = s
  <2>1. /\ Tail(Cons(e, s)) \in Seq(S) /\ Len(Tail(Cons(e, s))) = Len(s)
        /\ \A i \in 1 .. Len(s) : Tail(Cons(e, s))[i] = Cons(e, s)[i + 1]
    BY <1>2, <1>3, HeadTailProperties
  <2>2. \A i \in 1 .. Len(s) : Tail(Cons(e, s))[i] = s[i]
    BY <1>2, <2>1
  <2> QED
    BY <2>1, <2>2, SeqEqual
<1>5. \A x : x \in Range(Cons(e, s)) <=> x = e \/ x \in Range(s)
  <2> DEFINE c == Cons(e, s)
  <2>1. DOMAIN c = 1 .. 1 + Len(s) /\ DOMAIN s = 1 .. Len(s)
    BY <1>2, LenProperties
  <2>2. c[1] = e /\ \A i \in 1 .. Len(s) : c[i + 1] = s[i] /\ i + 1 \in 1 .. 1 + Len(s)
    BY <1>1, <1>2
  <2>3. \A i \in 1 .. 1 + Len(s) : i = 1 \/ (i - 1 \in 1 .. Len(s) /\ i = i - 1 + 1)
    BY <1>2
  <2> HIDE DEF c
  <2>4. ASSUME NEW x, x \in Range(c) PROVE x = e \/ x \in Range(s)
    <3>1. PICK i \in 1 .. 1 + Len(s) : c[i] = x
      BY <2>1, <2>4 DEF Range
    <3>2. CASE i = 1
      BY <2>2, <3>1, <3>2
    <3>3. CASE i - 1 \in 1 .. Len(s) /\ i = i - 1 + 1
      <4>1. c[i] = s[i - 1]
        BY <2>2, <3>3
      <4> QED
        BY <2>1, <3>1, <3>3, <4>1 DEF Range
    <3> QED
      BY <2>3, <3>2, <3>3
  <2>5. 1 \in 1 .. 1 + Len(s)
    BY <1>2
  <2>6. e \in Range(c) /\ \A x : x \in Range(s) => x \in Range(c)
    BY <2>1, <2>2, <2>5 DEF Range
  <2> QED
    BY <2>4, <2>6 DEF c
<1> QED
  BY <1>2, <1>3, <1>4, <1>5

-----------------------------------------------------------------------------
(***************************************************************************)
(* What may be left of a handler, as a finite set of lists.                *)
(***************************************************************************)

(* What may be left of a handler, from its end: behind the row of the next *)
(* file only the record is left, and what comes before is a rotation, and  *)
(* before that a flush.                                                    *)
AfterInsert == {<<>>, <<"Reserve", "Write">>, <<"Write">>}
FromInsert == {Cons("Insert", t) : t \in AfterInsert}
FromCreate == {Cons("Create", t) : t \in FromInsert}
FromSeal == {Cons("Seal", t) : t \in FromCreate}
FromMark == {Cons("Mark", t) : t \in FromSeal \cup {<<>>}}
FromCommit == {Cons("Commit", t) : t \in FromMark}

(* What may be left of a handler.                                          *)
Plans == AfterInsert \cup FromInsert \cup FromCreate \cup FromSeal \cup FromMark \cup FromCommit

(* What a list of steps asks for first.                                    *)
Begins(t, step) == t # <<>> /\ Head(t) = step

(* What begins with step and goes on as one of T.                          *)
LEMMA ConsSet ==
  ASSUME NEW step \in Step, NEW T, T \subseteq Seq(Step), NEW u \in {Cons(step, t) : t \in T}
  PROVE  u \in Seq(Step) /\ Begins(u, step) /\ Tail(u) \in T /\ Range(Tail(u)) \subseteq Range(u)
<1>1. PICK t \in T : u = Cons(step, t)
  OBVIOUS
<1>2. t \in Seq(Step)
  BY <1>1
<1>3. /\ u \in Seq(Step) /\ u # <<>> /\ Head(u) = step /\ Tail(u) = t
      /\ \A x : x \in Range(u) <=> x = step \/ x \in Range(t)
  BY <1>1, <1>2, ConsIs, Zenon
<1> QED
  BY <1>1, <1>3, Zenon DEF Begins

(* A plan is a list of steps.                                              *)
LEMMA PlansAreLists ==
  /\ AfterInsert \subseteq Seq(Step)
  /\ FromInsert \subseteq Seq(Step)
  /\ FromCreate \subseteq Seq(Step)
  /\ FromSeal \subseteq Seq(Step)
  /\ FromMark \subseteq Seq(Step)
  /\ FromCommit \subseteq Seq(Step)
<1>1. {"Commit", "Mark", "Seal", "Create", "Insert", "Reserve", "Write"} = Step
  BY DEF Step
<1>0. "Commit" \in Step /\ "Mark" \in Step /\ "Seal" \in Step /\ "Create" \in Step
      /\ "Insert" \in Step
  BY DEF Step
<1>2. AfterInsert \subseteq Seq(Step)
  BY <1>1 DEF AfterInsert, Step
<1>3. FromInsert \subseteq Seq(Step)
  BY <1>0, <1>2, ConsSet, Zenon DEF FromInsert
<1>4. FromCreate \subseteq Seq(Step)
  BY <1>0, <1>3, ConsSet, Zenon DEF FromCreate
<1>5. FromSeal \subseteq Seq(Step)
  BY <1>0, <1>4, ConsSet, Zenon DEF FromSeal
<1>9. <<>> \in Seq(Step)
  BY EmptySeq
<1>6. FromMark \subseteq Seq(Step)
  BY <1>0, <1>5, <1>9, ConsSet, Zenon DEF FromMark
<1>7. FromCommit \subseteq Seq(Step)
  BY <1>0, <1>6, ConsSet, Zenon DEF FromCommit
<1> QED
  BY <1>1, <1>2, <1>3, <1>4, <1>5, <1>6, <1>7

(* What a plan begins with, and what is left when that is done.            *)
Follows(t) ==
  /\ Tail(t) \in Plans
  /\ Range(Tail(t)) \subseteq Range(t)
  /\ Head(t) \in Step
  /\ Head(t) = "Commit" => Begins(Tail(t), "Mark")
  /\ Head(t) = "Mark" => Tail(t) = <<>> \/ Begins(Tail(t), "Seal")
  /\ Head(t) = "Seal" => Begins(Tail(t), "Create")
  /\ Head(t) = "Create" => Begins(Tail(t), "Insert")
  /\ Head(t) = "Insert" => Tail(t) = <<>> \/ Begins(Tail(t), "Reserve") \/ Begins(Tail(t), "Write")
  /\ Head(t) = "Reserve" => Tail(t) = <<"Write">> /\ "Write" \in Range(t)
  /\ Head(t) = "Write" => Tail(t) = <<>> /\ "Write" \in Range(t)

(* It holds of every plan.                                                 *)
LEMMA PlanFollows == \A t \in Plans : t # <<>> => Follows(t)
<1> DEFINE Is(T, step) == \A t \in T : Begins(t, step)
<1>1. "Commit" \in Step /\ "Mark" \in Step /\ "Seal" \in Step /\ "Create" \in Step
      /\ "Insert" \in Step /\ "Reserve" \in Step /\ "Write" \in Step
  BY DEF Step
<1> DEFINE rw == <<"Reserve", "Write">>
           w == <<"Write">>
<1>2. /\ rw # <<>> /\ Head(rw) = "Reserve" /\ Tail(rw) = w
      /\ w # <<>> /\ Head(w) = "Write" /\ Tail(w) = <<>>
  OBVIOUS
<1>3. Range(rw) = {"Reserve", "Write"} /\ Range(w) = {"Write"} /\ Range(<<>>) = {}
  <2>1. DOMAIN rw = {1, 2} /\ DOMAIN w = {1} /\ rw[1] = "Reserve" /\ rw[2] = "Write" /\ w[1] = "Write"
    OBVIOUS
  <2>2. DOMAIN <<>> = {}
    <3>1. Len(<<>>) = 0 /\ <<>> \in Seq({})
      BY EmptySeq
    <3>2. DOMAIN <<>> = 1 .. 0
      BY <3>1, LenProperties
    <3> QED
      BY <3>2
  <2> HIDE DEF rw, w
  <2>3. Range(<<>>) = {}
    BY <2>2 DEF Range
  <2>4. Range(w) = {"Write"}
    BY <2>1 DEF Range
  <2>5. Range(rw) = {"Reserve", "Write"}
    BY <2>1 DEF Range
  <2> QED
    BY <2>3, <2>4, <2>5
<1>4. AfterInsert = {<<>>, rw, w}
  BY DEF AfterInsert
<1> HIDE DEF rw, w
<1>5. \A t \in AfterInsert : t # <<>> => Follows(t)
  BY <1>1, <1>2, <1>3, <1>4 DEF Follows, Plans, Begins, w
<1>6. \A t \in AfterInsert : t = <<>> \/ Begins(t, "Reserve") \/ Begins(t, "Write")
  BY <1>2, <1>4 DEF Begins
<1>7. \A t \in FromInsert : Begins(t, "Insert") /\ Tail(t) \in AfterInsert /\ Range(Tail(t)) \subseteq Range(t)
  BY <1>1, ConsSet, PlansAreLists, Zenon DEF FromInsert
<1>8. \A t \in FromCreate : Begins(t, "Create") /\ Tail(t) \in FromInsert /\ Range(Tail(t)) \subseteq Range(t)
  BY <1>1, ConsSet, PlansAreLists, Zenon DEF FromCreate
<1>9. \A t \in FromSeal : Begins(t, "Seal") /\ Tail(t) \in FromCreate /\ Range(Tail(t)) \subseteq Range(t)
  BY <1>1, ConsSet, PlansAreLists, Zenon DEF FromSeal
<1>10. \A t \in FromMark : Begins(t, "Mark") /\ Tail(t) \in FromSeal \cup {<<>>} /\ Range(Tail(t)) \subseteq Range(t)
  <2>1. FromSeal \cup {<<>>} \subseteq Seq(Step)
    BY PlansAreLists, EmptySeq
  <2> QED
    BY <1>1, <2>1, ConsSet, Zenon DEF FromMark
<1>11. \A t \in FromCommit : Begins(t, "Commit") /\ Tail(t) \in FromMark /\ Range(Tail(t)) \subseteq Range(t)
  BY <1>1, ConsSet, PlansAreLists, Zenon DEF FromCommit
<1>12. \A t \in FromInsert : Follows(t)
  BY <1>1, <1>6, <1>7 DEF Follows, Plans, Begins
<1>13. \A t \in FromCreate : Follows(t)
  BY <1>1, <1>7, <1>8 DEF Follows, Plans, Begins
<1>14. \A t \in FromSeal : Follows(t)
  BY <1>1, <1>8, <1>9 DEF Follows, Plans, Begins
<1>15. \A t \in FromMark : Follows(t)
  BY <1>1, <1>4, <1>9, <1>10 DEF Follows, Plans, Begins
<1>16. \A t \in FromCommit : Follows(t)
  BY <1>1, <1>10, <1>11 DEF Follows, Plans, Begins
<1> QED
  BY <1>5, <1>12, <1>13, <1>14, <1>15, <1>16 DEF Plans

(* The lists the handlers begin with.                                      *)
LEMMA PlansBegun ==
  /\ <<>> \in Plans /\ Range(<<>>) = {}
  /\ <<"Commit", "Mark">> \in Plans /\ Begins(<<"Commit", "Mark">>, "Commit")
  /\ "Write" \notin Range(<<"Commit", "Mark">>)
  /\ <<"Create", "Insert">> \in Plans /\ Begins(<<"Create", "Insert">>, "Create")
  /\ "Write" \notin Range(<<"Create", "Insert">>)
  /\ <<"Write">> \in Plans /\ Begins(<<"Write">>, "Write")
  /\ <<>> \o <<"Write">> = <<"Write">>
  /\ Rotation \o <<"Write">> \in Plans /\ Begins(Rotation \o <<"Write">>, "Seal")
  /\ <<>> \o <<"Reserve", "Write">> \in Plans
  /\ Begins(<<>> \o <<"Reserve", "Write">>, "Reserve")
  /\ Flushing \o Rotation \in Plans /\ (Flushing \o Rotation) \o <<"Reserve", "Write">> \in Plans
  /\ "Write" \notin Range(Flushing \o Rotation)
  /\ \A t \in {Flushing \o Rotation, (Flushing \o Rotation) \o <<"Reserve", "Write">>} :
       Begins(t, "Commit") \/ (batch = <<>> /\ Begins(t, "Seal"))
<1> DEFINE rw == <<"Reserve", "Write">>
           w == <<"Write">>
<1>1. /\ Rotation = Cons("Seal", Cons("Create", Cons("Insert", <<>>)))
      /\ Rotation \o w = Cons("Seal", Cons("Create", Cons("Insert", w)))
      /\ Rotation \o rw = Cons("Seal", Cons("Create", Cons("Insert", rw)))
      /\ <<"Commit", "Mark">> = Cons("Commit", Cons("Mark", <<>>))
      /\ <<"Create", "Insert">> = Cons("Create", Cons("Insert", <<>>))
  BY DEF Rotation, Cons
<1>2. /\ <<"Commit", "Mark">> \o Rotation
          = Cons("Commit", Cons("Mark", Cons("Seal", Cons("Create", Cons("Insert", <<>>)))))
      /\ (<<"Commit", "Mark">> \o Rotation) \o rw
          = Cons("Commit", Cons("Mark", Cons("Seal", Cons("Create", Cons("Insert", rw)))))
  BY DEF Rotation, Cons
<1>3. <<>> \o Rotation = Rotation /\ <<>> \o rw = rw /\ <<>> \o w = w
  BY DEF Rotation
<1>4. AfterInsert = {<<>>, rw, w}
  BY DEF AfterInsert
<1>5. Begins(rw, "Reserve") /\ Begins(w, "Write")
  BY DEF Begins
<1> HIDE DEF rw, w
<1>6. \A t \in AfterInsert : /\ Cons("Insert", t) \in FromInsert
                             /\ Cons("Create", Cons("Insert", t)) \in FromCreate
                             /\ Cons("Seal", Cons("Create", Cons("Insert", t))) \in FromSeal
  BY DEF FromInsert, FromCreate, FromSeal
<1>7. \A t \in FromSeal \cup {<<>>} : Cons("Mark", t) \in FromMark /\ Cons("Commit", Cons("Mark", t)) \in FromCommit
  BY DEF FromMark, FromCommit
<1>14. <<>> \in Seq(Step) /\ "Commit" \in Step /\ "Mark" \in Step /\ "Seal" \in Step /\ "Create" \in Step /\ "Insert" \in Step
  BY EmptySeq DEF Step
<1>8. \A t \in FromSeal : Begins(t, "Seal")
  BY <1>14, ConsSet, PlansAreLists, Zenon DEF FromSeal
<1>9. \A t \in FromCommit : Begins(t, "Commit")
  BY <1>14, ConsSet, PlansAreLists, Zenon DEF FromCommit
<1>10. \A t \in FromCreate : Begins(t, "Create")
  BY <1>14, ConsSet, PlansAreLists, Zenon DEF FromCreate
<1>11. Flushing = <<"Commit", "Mark">> \/ (batch = <<>> /\ Flushing = <<>>)
  BY DEF Flushing
<1>12. Range(<<>>) = {}
  <2>1. Len(<<>>) = 0 /\ <<>> \in Seq({})
    BY EmptySeq
  <2>2. DOMAIN <<>> = 1 .. 0
    BY <2>1, LenProperties
  <2> QED
    BY <2>2 DEF Range
<1>13. \A a \in Step, t \in Seq(Step) :
         a # "Write" /\ "Write" \notin Range(t) => Cons(a, t) \in Seq(Step) /\ "Write" \notin Range(Cons(a, t))
  BY ConsIs
<1>15. /\ "Write" \notin Range(<<"Commit", "Mark">>) /\ "Write" \notin Range(<<"Create", "Insert">>)
       /\ "Write" \notin Range(Rotation) /\ "Write" \notin Range(<<"Commit", "Mark">> \o Rotation)
  BY <1>1, <1>2, <1>12, <1>13, <1>14
<1>16. /\ "Write" \notin Range(<<"Commit", "Mark">>) /\ "Write" \notin Range(<<"Create", "Insert">>)
       /\ "Write" \notin Range(Flushing \o Rotation)
  BY <1>3, <1>11, <1>15
<1>17. Flushing \o Rotation \in FromCommit \/ (batch = <<>> /\ Flushing \o Rotation \in FromSeal)
  BY <1>1, <1>2, <1>3, <1>4, <1>6, <1>7, <1>11
<1>18. \/ (Flushing \o Rotation) \o rw \in FromCommit
       \/ (batch = <<>> /\ (Flushing \o Rotation) \o rw \in FromSeal)
  BY <1>1, <1>2, <1>3, <1>4, <1>6, <1>7, <1>11
<1>19. /\ <<"Commit", "Mark">> \in FromCommit
       /\ <<"Create", "Insert">> \in FromCreate
       /\ Rotation \o w \in FromSeal
  BY <1>1, <1>4, <1>6, <1>7
<1> QED
  BY <1>3, <1>4, <1>5, <1>8, <1>9, <1>10, <1>12, <1>16, <1>17, <1>18, <1>19 DEF Plans, rw, w

-----------------------------------------------------------------------------
(***************************************************************************)
(* Files, rows, batch and index, whatever fails.                           *)
(***************************************************************************)

(* What is gathered and indexed of a record, and a row of the table files. *)
Entry == [id : Nat, off : Nat, n : 1 .. Len(Records)]
Row == [seq : Nat, state : {"Open", "Sealed"}, mark : Nat]

(* A unit of a file is the number of the record it belongs to.             *)
Unit == 1 .. Len(Records)

(* The types of what the steps read and write.                             *)
FileTypes ==
  /\ DOMAIN disk \subseteq Nat /\ \A s \in DOMAIN disk : disk[s] \in Seq(Unit)
  /\ rows \in Seq(Row)
  /\ writer \in [up : BOOLEAN, file : BOOLEAN, seq : Nat, id : Nat, off : Nat]
  /\ batch \in Seq(Entry)
  /\ indexed \subseteq Entry
  /\ next \in 1 .. Len(Records) + 1
  /\ todo \in Plans
  /\ {"failAt", "crashAt"} \subseteq DOMAIN faults

(* Where a gathered record ends, and what is in the file of a row.         *)
End(e) == e.off + Records[e.n]
Content(id) == disk[rows[id].seq]

(* The handler at work still has to make the next file or to register it.  *)
Opening == At("Create") \/ At("Insert")

(* Where the files, the rows and the handle lie.                           *)
Placed ==
  /\ \A id \in 1 .. Len(rows) : rows[id].seq \in DOMAIN disk /\ rows[id].mark <= Len(Content(id))
  /\ \A i, j \in 1 .. Len(rows) : rows[i].seq = rows[j].seq => i = j
  /\ At("Insert") =>
       /\ writer.seq \in DOMAIN disk /\ disk[writer.seq] = <<>>
       /\ \A id \in 1 .. Len(rows) : rows[id].seq # writer.seq
  /\ writer.file =>
       /\ writer.up /\ writer.id \in 1 .. Len(rows) /\ rows[writer.id].seq = writer.seq
       /\ Len(disk[writer.seq]) = writer.off
       /\ ~ Opening

(* What is gathered lies in the file at hand and is there what it is       *)
(* called, up to the last unit written; no file is left before it is       *)
(* committed.                                                              *)
Gathered ==
  /\ \A e \in Range(batch) :
       e.id = writer.id /\ End(e) <= writer.off /\ disk[writer.seq][e.off + 1] = e.n
  /\ batch # <<>> =>
       /\ writer.file /\ ~ At("Seal")
       /\ \E e \in Range(batch) : End(e) = writer.off
  /\ "Write" \in Range(todo) => next <= Len(Records)
  /\ At("Reserve") => writer.off = 0 \/ writer.off + Records[next] <= FileSize
  /\ \A e \in indexed : e.id \in 1 .. Len(rows)

(* What always holds, whatever fails and wherever the process dies.        *)
Base == Inv /\ FileTypes /\ Placed /\ Gathered

-----------------------------------------------------------------------------
(* Lengths are positive.                                                   *)
LEMMA RecordsAre ==
  /\ Len(Records) \in Nat
  /\ \A n \in 1 .. Len(Records) : Records[n] \in Nat /\ Records[n] > 0
  /\ FileSize \in Nat /\ FileSize > 0 /\ BatchSize \in Nat /\ BatchSize > 0
  /\ MaxFiles \in Nat
BY HotFileAssumption, ElementOfSeq, LenProperties

(* The elements of a batch.                                                *)
LEMMA RangeIs ==
  ASSUME NEW S, NEW s \in Seq(S)
  PROVE  /\ Range(s) \subseteq S
         /\ \A x : x \in Range(s) <=> \E i \in 1 .. Len(s) : s[i] = x
         /\ s = <<>> <=> Range(s) = {}
         /\ s = <<>> <=> Len(s) = 0
<1>1. DOMAIN s = 1 .. Len(s) /\ Len(s) \in Nat /\ \A i \in 1 .. Len(s) : s[i] \in S
  BY LenProperties, ElementOfSeq
<1>2. \A x : x \in Range(s) <=> \E i \in 1 .. Len(s) : s[i] = x
  BY <1>1 DEF Range
<1>3. s = <<>> <=> Len(s) = 0
  BY <1>1, EmptySeq
<1>4. Len(s) # 0 => 1 \in 1 .. Len(s)
  BY <1>1
<1>5. s = <<>> <=> Range(s) = {}
  <2>1. CASE Len(s) = 0
    <3>1. 1 .. Len(s) = {}
      BY <2>1
    <3> QED
      BY <1>2, <1>3, <2>1, <3>1
  <2>2. CASE Len(s) # 0
    BY <1>2, <1>3, <1>4, <2>2
  <2> QED
    BY <2>1, <2>2
<1> QED
  BY <1>1, <1>2, <1>3, <1>5

(* A list and one more element.                                            *)
LEMMA AppendIs ==
  ASSUME NEW S, NEW s \in Seq(S), NEW e \in S
  PROVE  /\ Append(s, e) \in Seq(S) /\ Append(s, e) # <<>> /\ Len(Append(s, e)) = Len(s) + 1
         /\ \A x : x \in Range(Append(s, e)) <=> x \in Range(s) \/ x = e
         /\ \A i \in 1 .. Len(s) : Append(s, e)[i] = s[i]
         /\ Append(s, e)[Len(s) + 1] = e
<1> DEFINE a == Append(s, e)
<1>1. /\ a \in Seq(S) /\ Len(a) = Len(s) + 1 /\ Len(s) \in Nat
      /\ \A i \in 1 .. Len(s) : a[i] = s[i]
      /\ a[Len(s) + 1] = e
  BY AppendProperties, LenProperties
<1> HIDE DEF a
<1>2. \A x : x \in Range(a) <=> \E i \in 1 .. Len(s) + 1 : a[i] = x
  BY <1>1, RangeIs
<1>3. \A i : i \in 1 .. Len(s) + 1 <=> i \in 1 .. Len(s) \/ i = Len(s) + 1
  BY <1>1
<1>4. \A x : x \in Range(s) <=> \E i \in 1 .. Len(s) : s[i] = x
  BY RangeIs
<1>5. \A x : x \in Range(a) <=> x \in Range(s) \/ x = e
  BY <1>1, <1>2, <1>3, <1>4
<1>6. a # <<>>
  BY <1>1, EmptySeq
<1> QED
  BY <1>1, <1>5, <1>6 DEF a

(* What append leaves of a file: what was before the place, and the        *)
(* record's units behind it.                                               *)
LEMMA WrittenIs ==
  ASSUME NEW content \in Seq(Unit), NEW off \in Nat, off <= Len(content), NEW n \in 1 .. Len(Records)
  PROVE  /\ Written(content, off, n) \in Seq(Unit)
         /\ Len(Written(content, off, n)) = off + Records[n]
         /\ \A p \in 1 .. off : Written(content, off, n)[p] = content[p]
         /\ \A p \in off + 1 .. off + Records[n] : Written(content, off, n)[p] = n
<1> DEFINE old == SubSeq(content, 1, off)
           new == [k \in 1 .. Records[n] |-> n]
<1>1. Records[n] \in Nat /\ n \in Nat /\ Len(content) \in Nat
  BY RecordsAre, LenProperties
<1>2. \A i \in 1 .. off : content[i] \in Unit
  BY <1>1, ElementOfSeq
<1>3. old \in Seq(Unit) /\ Len(old) = off /\ \A i \in 1 .. off : old[i] = content[i]
  <2>1. /\ old \in Seq(Unit) /\ Len(old) = IF 1 <= off THEN off - 1 + 1 ELSE 0
        /\ \A i \in 1 .. off - 1 + 1 : old[i] = content[1 + i - 1]
    BY <1>2, SubSeqProperties
  <2> QED
    BY <2>1
<1>4. new \in Seq(Unit) /\ Len(new) = Records[n] /\ \A i \in 1 .. Records[n] : new[i] = n
  <2>1. new \in [1 .. Records[n] -> Unit]
    BY <1>1 DEF Unit
  <2>2. new \in Seq(Unit)
    BY <1>1, <2>1, SeqDef
  <2>3. DOMAIN new = 1 .. Records[n]
    OBVIOUS
  <2>4. Len(new) \in Nat /\ DOMAIN new = 1 .. Len(new)
    BY <2>2, LenProperties
  <2>5. Len(new) = Records[n]
    BY <1>1, <2>3, <2>4
  <2> QED
    BY <2>2, <2>5
<1> HIDE DEF old, new
<1>5. /\ old \o new \in Seq(Unit) /\ Len(old \o new) = off + Records[n]
      /\ \A i \in 1 .. off + Records[n] : (old \o new)[i] = IF i <= off THEN old[i] ELSE new[i - off]
  <2>1. /\ old \o new \in Seq(Unit) /\ Len(old \o new) = Len(old) + Len(new)
        /\ \A i \in 1 .. Len(old) + Len(new) :
             (old \o new)[i] = IF i <= Len(old) THEN old[i] ELSE new[i - Len(old)]
    BY ZenonT(60), <1>3, <1>4, ConcatProperties
  <2> QED
    BY <1>3, <1>4, <2>1
<1>6. \A p \in 1 .. off : p \in 1 .. off + Records[n] /\ p <= off
  BY <1>1
<1>7. \A p \in off + 1 .. off + Records[n] :
        p \in 1 .. off + Records[n] /\ ~ (p <= off) /\ p - off \in 1 .. Records[n]
  BY <1>1
<1> QED
  BY <1>3, <1>4, <1>5, <1>6, <1>7 DEF Written, old, new

(* What a truncation leaves of a file.                                     *)
LEMMA PrefixIs ==
  ASSUME NEW content \in Seq(Unit), NEW m \in Nat, m <= Len(content)
  PROVE  /\ SubSeq(content, 1, m) \in Seq(Unit)
         /\ Len(SubSeq(content, 1, m)) = m
         /\ \A p \in 1 .. m : SubSeq(content, 1, m)[p] = content[p]
<1> DEFINE old == SubSeq(content, 1, m)
<1>1. \A i \in 1 .. m : content[i] \in Unit
  <2>1. Len(content) \in Nat
    BY LenProperties
  <2> QED
    BY <2>1, ElementOfSeq
<1>2. /\ old \in Seq(Unit) /\ Len(old) = IF 1 <= m THEN m - 1 + 1 ELSE 0
      /\ \A i \in 1 .. m - 1 + 1 : old[i] = content[1 + i - 1]
  BY <1>1, SubSeqProperties
<1> QED
  BY <1>2

-----------------------------------------------------------------------------
(***************************************************************************)
(* What each step does, in the words of the invariant.                     *)
(***************************************************************************)

(* The types, element by element.                                          *)
LEMMA TypesOf ==
  ASSUME FileTypes
  PROVE  /\ Len(rows) \in Nat /\ DOMAIN rows = 1 .. Len(rows)
         /\ \A id \in 1 .. Len(rows) : rows[id] \in Row
         /\ writer.seq \in Nat /\ writer.id \in Nat /\ writer.off \in Nat
         /\ DOMAIN writer = {"up", "file", "seq", "id", "off"}
         /\ Range(batch) \subseteq Entry /\ (batch = <<>> <=> Range(batch) = {})
         /\ Len(batch) \in Nat /\ (batch = <<>> <=> Len(batch) = 0)
         /\ next \in Nat /\ next > 0 /\ next <= Len(Records) + 1
         /\ \A s \in DOMAIN disk : s \in Nat /\ Len(disk[s]) \in Nat
<1>1. Len(rows) \in Nat /\ DOMAIN rows = 1 .. Len(rows)
  BY LenProperties DEF FileTypes
<1>2. \A id \in 1 .. Len(rows) : rows[id] \in Row
  BY ElementOfSeq DEF FileTypes
<1>3. /\ writer.seq \in Nat /\ writer.id \in Nat /\ writer.off \in Nat
      /\ DOMAIN writer = {"up", "file", "seq", "id", "off"}
  BY DEF FileTypes
<1>4. Range(batch) \subseteq Entry /\ (batch = <<>> <=> Range(batch) = {})
         /\ Len(batch) \in Nat /\ (batch = <<>> <=> Len(batch) = 0)
  <2>1. batch \in Seq(Entry)
    BY DEF FileTypes
  <2> QED
    BY <2>1, RangeIs, LenProperties
<1>5. next \in Nat /\ next > 0 /\ next <= Len(Records) + 1
  BY RecordsAre DEF FileTypes
<1>6. \A s \in DOMAIN disk : s \in Nat /\ Len(disk[s]) \in Nat
  BY LenProperties DEF FileTypes
<1> QED
  BY <1>1, <1>2, <1>3, <1>4, <1>5, <1>6

(* Where a handler stands says what is left of it.                         *)
LEMMA AtStep ==
  ASSUME FileTypes, todo # <<>>
  PROVE  /\ Tail(todo) \in Plans
         /\ Range(Tail(todo)) \subseteq Range(todo)
         /\ At("Commit") => Begins(Tail(todo), "Mark")
         /\ At("Mark") => Tail(todo) = <<>> \/ Begins(Tail(todo), "Seal")
         /\ At("Seal") => Begins(Tail(todo), "Create")
         /\ At("Create") => Begins(Tail(todo), "Insert")
         /\ At("Insert") => \/ Tail(todo) = <<>>
                            \/ Begins(Tail(todo), "Reserve")
                            \/ Begins(Tail(todo), "Write")
         /\ At("Reserve") => Tail(todo) = <<"Write">> /\ "Write" \in Range(todo)
         /\ At("Write") => Tail(todo) = <<>> /\ "Write" \in Range(todo)
<1>1. todo \in Plans /\ Follows(todo)
  BY PlanFollows DEF FileTypes
<1> QED
  BY <1>1 DEF Follows, At

(* What open_or_recover finds and does when a row is open.                 *)
LEMMA ResumeFacts ==
  ASSUME Base, OpenOrRecover, OpenRows # {}
  PROVE  \E id \in 1 .. Len(rows) :
           /\ OpenRows = {id} /\ rows[id].state = "Open"
           /\ writer'.up /\ writer'.file /\ writer'.seq = rows[id].seq /\ writer'.id = id
           /\ writer'.off = rows[id].mark
           /\ writer' \in [up : BOOLEAN, file : BOOLEAN, seq : Nat, id : Nat, off : Nat]
           /\ todo' = <<>> /\ UNCHANGED <<rows, batch, indexed, next, faults>>
           /\ ~ writer.up /\ todo = <<>> /\ batch = <<>>
           /\ DOMAIN disk' = DOMAIN disk
           /\ \A s \in DOMAIN disk : s # rows[id].seq => disk'[s] = disk[s]
           /\ disk'[rows[id].seq] \in Seq(Unit) /\ Len(disk'[rows[id].seq]) = rows[id].mark
           /\ \A p \in 1 .. rows[id].mark : disk'[rows[id].seq][p] = disk[rows[id].seq][p]
<1>1. ~ writer.up /\ todo = <<>> /\ Recover /\ UNCHANGED <<rows, batch, indexed, next, faults>>
  BY DEF OpenOrRecover, Idle
<1>2. PICK id : OpenRows = {id}
  BY DEF Base, Inv, Ownership, Owned
<1>3. id \in 1 .. Len(rows) /\ rows[id].state = "Open" /\ id \in Int
  BY <1>2 DEF OpenRows
<1>4. Max(OpenRows) = id
  BY <1>2, <1>3 DEF Max
<1>5. batch = <<>>
  BY <1>1 DEF Base, Gathered, Placed
<1>6. rows[id] \in Row /\ rows[id].seq \in DOMAIN disk /\ rows[id].mark <= Len(disk[rows[id].seq])
      /\ disk[rows[id].seq] \in Seq(Unit)
  BY <1>3, TypesOf DEF Base, Placed, Content, FileTypes
<1>7. writer' = Resumed(id) /\ todo' = <<>>
      /\ disk' = [disk EXCEPT ![rows[id].seq] = SubSeq(@, 1, rows[id].mark)]
  BY <1>1, <1>4 DEF Recover
<1> DEFINE old == disk[rows[id].seq]
           m == rows[id].mark
<1>8. m \in Nat /\ rows[id].seq \in Nat
  BY <1>6 DEF Row
<1>9. SubSeq(old, 1, m) \in Seq(Unit) /\ Len(SubSeq(old, 1, m)) = m
      /\ \A p \in 1 .. m : SubSeq(old, 1, m)[p] = old[p]
  BY <1>6, <1>8, PrefixIs
<1>10. disk'[rows[id].seq] = SubSeq(old, 1, m)
  BY <1>6, <1>7
<1>11. DOMAIN disk' = DOMAIN disk /\ \A s \in DOMAIN disk : s # rows[id].seq => disk'[s] = disk[s]
  BY <1>7
<1>12. /\ writer'.up /\ writer'.file /\ writer'.seq = rows[id].seq /\ writer'.id = id
       /\ writer'.off = rows[id].mark
       /\ writer' \in [up : BOOLEAN, file : BOOLEAN, seq : Nat, id : Nat, off : Nat]
  BY <1>3, <1>7, <1>8, TypesOf DEF Resumed, Base
<1>13. UNCHANGED <<rows, batch, indexed, next, faults>> /\ ~ writer.up /\ todo = <<>> /\ todo' = <<>>
  BY <1>1, <1>7
<1> HIDE DEF old, m
<1>14. /\ disk'[rows[id].seq] \in Seq(Unit) /\ Len(disk'[rows[id].seq]) = rows[id].mark
       /\ \A p \in 1 .. rows[id].mark : disk'[rows[id].seq][p] = disk[rows[id].seq][p]
  BY <1>9, <1>10 DEF old, m
<1> id \in 1 .. Len(rows)
  BY <1>3
<1> WITNESS id \in 1 .. Len(rows)
<1> QED
  BY <1>2, <1>3, <1>5, <1>11, <1>12, <1>13, <1>14

(* What append does to the file, the writer and the batch.                 *)
LEMMA WriteFacts ==
  ASSUME Base, Write
  PROVE  \E e \in Entry :
         /\ writer.file /\ writer.up /\ next \in 1 .. Len(Records) /\ todo # <<>>
         /\ writer.seq \in DOMAIN disk /\ DOMAIN disk' = DOMAIN disk
         /\ writer.id \in 1 .. Len(rows) /\ rows[writer.id].seq = writer.seq
         /\ \A s \in DOMAIN disk : s # writer.seq => disk'[s] = disk[s]
         /\ disk'[writer.seq] \in Seq(Unit)
         /\ Len(disk'[writer.seq]) = writer.off + Records[next]
         /\ Len(disk[writer.seq]) = writer.off
         /\ \A p \in 1 .. writer.off : disk'[writer.seq][p] = disk[writer.seq][p]
         /\ \A p \in writer.off + 1 .. writer.off + Records[next] : disk'[writer.seq][p] = next
         /\ writer'.up = writer.up /\ writer'.file = writer.file /\ writer'.id = writer.id
         /\ writer'.seq = writer.seq /\ writer'.off = writer.off + Records[next]
         /\ writer' \in [up : BOOLEAN, file : BOOLEAN, seq : Nat, id : Nat, off : Nat]
         /\ e.id = writer.id /\ e.off = writer.off /\ e.n = next
         /\ batch' \in Seq(Entry) /\ batch' # <<>> /\ Len(batch') = Len(batch) + 1
         /\ \A x : x \in Range(batch') <=> x \in Range(batch) \/ x = e
         /\ next' = next + 1 /\ todo' \in {<<>>, <<"Commit", "Mark">>}
         /\ UNCHANGED <<rows, indexed, faults>>
<1>1. FileTypes /\ Placed /\ Gathered
  BY DEF Base
<1>2. At("Write") /\ todo # <<>> /\ writer.file
  BY DEF Write, At
<1>3. next \in 1 .. Len(Records) /\ Records[next] \in Nat
  BY <1>1, <1>2, AtStep, TypesOf, RecordsAre DEF Gathered
<1>4. /\ writer.up /\ writer.id \in 1 .. Len(rows) /\ rows[writer.id].seq = writer.seq
      /\ Len(disk[writer.seq]) = writer.off /\ writer.seq \in DOMAIN disk
      /\ disk[writer.seq] \in Seq(Unit)
  BY <1>1, <1>2 DEF Placed, FileTypes
<1> DEFINE e == [id |-> writer.id, off |-> writer.off, n |-> next]
           new == Written(disk[writer.seq], writer.off, next)
<1>5. e \in Entry /\ e.id = writer.id /\ e.off = writer.off /\ e.n = next
  BY <1>1, <1>3, TypesOf DEF Entry
<1>6. /\ disk' = [disk EXCEPT ![writer.seq] = new]
      /\ writer' = [writer EXCEPT !.off = writer.off + Records[next]]
      /\ batch' = Append(batch, e) /\ next' = next + 1
      /\ todo' \in {<<>>, <<"Commit", "Mark">>}
      /\ UNCHANGED <<rows, indexed, faults>>
  BY DEF Write
<1>7. /\ new \in Seq(Unit) /\ Len(new) = writer.off + Records[next]
      /\ \A p \in 1 .. writer.off : new[p] = disk[writer.seq][p]
      /\ \A p \in writer.off + 1 .. writer.off + Records[next] : new[p] = next
  <2> DEFINE old == disk[writer.seq]
             off == writer.off
  <2>1. old \in Seq(Unit) /\ off \in Nat /\ off <= Len(old)
    BY <1>1, <1>4, TypesOf
  <2> HIDE DEF old, off
  <2>2. /\ Written(old, off, next) \in Seq(Unit) /\ Len(Written(old, off, next)) = off + Records[next]
        /\ \A p \in 1 .. off : Written(old, off, next)[p] = old[p]
        /\ \A p \in off + 1 .. off + Records[next] : Written(old, off, next)[p] = next
    BY <1>3, <2>1, WrittenIs
  <2> QED
    BY <2>2 DEF old, off
<1> HIDE DEF e, new
<1>8. DOMAIN disk' = DOMAIN disk /\ disk'[writer.seq] = new
      /\ \A s \in DOMAIN disk : s # writer.seq => disk'[s] = disk[s]
  BY <1>4, <1>6
<1>9. /\ writer'.up = writer.up /\ writer'.file = writer.file /\ writer'.id = writer.id
      /\ writer'.seq = writer.seq /\ writer'.off = writer.off + Records[next]
      /\ writer' \in [up : BOOLEAN, file : BOOLEAN, seq : Nat, id : Nat, off : Nat]
  <2>1. writer.off + Records[next] \in Nat
    BY <1>1, <1>3, TypesOf
  <2> QED
    BY <1>1, <1>6, <2>1 DEF FileTypes
<1>10. /\ batch' \in Seq(Entry) /\ batch' # <<>> /\ Len(batch') = Len(batch) + 1
       /\ \A x : x \in Range(batch') <=> x \in Range(batch) \/ x = e
  <2>1. batch \in Seq(Entry)
    BY <1>1 DEF FileTypes
  <2> QED
    BY <1>5, <1>6, <2>1, AppendIs
<1> QED
  BY ZenonT(60), <1>2, <1>3, <1>4, <1>5, <1>6, <1>7, <1>8, <1>9, <1>10

(* The second transaction of a commit raises the watermark of the file at  *)
(* hand to the end of the batch, and no other.                             *)
LEMMA MarkFacts ==
  ASSUME Base, Mark
  PROVE  /\ rows' \in Seq(Row) /\ Len(rows') = Len(rows)
         /\ \A id \in 1 .. Len(rows) :
              /\ rows'[id].seq = rows[id].seq /\ rows'[id].state = rows[id].state
              /\ rows[id].mark <= rows'[id].mark
              /\ (batch # <<>> /\ id = writer.id) \/ rows'[id].mark = rows[id].mark
         /\ batch # <<>> => /\ writer.file /\ writer.id \in 1 .. Len(rows)
                            /\ rows'[writer.id].mark = writer.off
                            /\ \A e \in Range(batch) : e.id = writer.id /\ e.off < writer.off
         /\ batch' = <<>> /\ todo # <<>> /\ At("Mark") /\ todo' = Tail(todo)
         /\ UNCHANGED <<disk, writer, indexed, next, faults>>
<1>1. FileTypes /\ Placed /\ Gathered
  BY DEF Base
<1> DEFINE top(id) == Max({rows[id].mark} \cup Marked(id))
<1>2. /\ batch' = <<>> /\ todo # <<>> /\ At("Mark") /\ todo' = Tail(todo)
      /\ UNCHANGED <<disk, writer, indexed, next, faults>>
      /\ rows' = [id \in DOMAIN rows |-> [rows[id] EXCEPT !.mark = top(id)]]
  BY DEF Mark, At
<1>3. \A e \in Range(batch) : /\ e \in Entry /\ e.id = writer.id /\ End(e) \in Nat /\ End(e) <= writer.off
                              /\ e.off < End(e)
  BY SMTT(40), <1>1, TypesOf, RecordsAre DEF Gathered, Entry, End
<1>4. ASSUME NEW id \in 1 .. Len(rows), batch = <<>> \/ id # writer.id
      PROVE  top(id) = rows[id].mark
  <2>1. Marked(id) = {}
    BY <1>1, <1>3, <1>4, TypesOf DEF Marked
  <2>2. rows[id].mark \in Nat
    BY <1>1, TypesOf DEF Row
  <2> QED
    BY <2>1, <2>2 DEF Max
<1>5. ASSUME batch # <<>>
      PROVE  /\ writer.file /\ writer.id \in 1 .. Len(rows)
             /\ top(writer.id) = writer.off /\ rows[writer.id].mark <= writer.off
  <2>1. writer.file /\ writer.id \in 1 .. Len(rows) /\ rows[writer.id].mark <= writer.off
    BY <1>1, <1>5 DEF Gathered, Placed, Content
  <2>2. PICK e \in Range(batch) : End(e) = writer.off
    BY <1>1, <1>5 DEF Gathered
  <2> DEFINE S == {rows[writer.id].mark} \cup Marked(writer.id)
  <2>3. \A x \in Marked(writer.id) : x <= writer.off /\ x \in Nat
    BY <1>3 DEF Marked, End
  <2>4. writer.off \in Marked(writer.id)
    BY <1>3, <2>2 DEF Marked, End
  <2>5. \A x \in S : x <= writer.off /\ x \in Nat
    BY <1>1, <2>1, <2>3, TypesOf DEF Row
  <2>6. writer.off \in S
    BY <2>4
  <2> HIDE DEF S
  <2>7. Max(S) = writer.off
    BY <1>1, <2>5, <2>6, TypesOf DEF Max
  <2> QED
    BY <2>1, <2>7 DEF S
<1>6. \A id \in 1 .. Len(rows) : top(id) \in Nat /\ rows[id].mark <= top(id) /\ rows[id] \in Row
  <2> SUFFICES ASSUME NEW id \in 1 .. Len(rows)
               PROVE  top(id) \in Nat /\ rows[id].mark <= top(id) /\ rows[id] \in Row
    OBVIOUS
  <2>1. rows[id] \in Row /\ rows[id].mark \in Nat /\ writer.off \in Nat
    BY <1>1, TypesOf DEF Row
  <2>2. CASE batch = <<>> \/ id # writer.id
    BY <1>4, <2>1, <2>2
  <2>3. CASE ~ (batch = <<>> \/ id # writer.id)
    BY <1>5, <2>1, <2>3
  <2> QED
    BY <2>2, <2>3
<1> HIDE DEF top
<1>7. Len(rows) \in Nat /\ DOMAIN rows = 1 .. Len(rows)
  BY <1>1, TypesOf
<1>8. \A id \in 1 .. Len(rows) :
        /\ rows'[id] \in Row /\ rows'[id].mark = top(id)
        /\ rows'[id].seq = rows[id].seq /\ rows'[id].state = rows[id].state
  <2> TAKE id \in 1 .. Len(rows)
  <2>1. rows'[id] = [rows[id] EXCEPT !.mark = top(id)]
    BY <1>2, <1>7
  <2> QED
    BY <1>6, <2>1 DEF Row
<1>9. rows' \in Seq(Row) /\ Len(rows') = Len(rows)
  <2>1. DOMAIN rows' = 1 .. Len(rows) /\ rows' = [id \in 1 .. Len(rows) |-> rows'[id]]
    BY <1>2, <1>7
  <2>2. rows' \in [1 .. Len(rows) -> Row]
    BY <1>8, <2>1
  <2>3. rows' \in Seq(Row)
    BY <1>7, <2>2, SeqDef
  <2>4. Len(rows') \in Nat /\ DOMAIN rows' = 1 .. Len(rows')
    BY <2>3, LenProperties
  <2> QED
    BY <1>7, <2>1, <2>3, <2>4
<1>10. \A id \in 1 .. Len(rows) : (batch # <<>> /\ id = writer.id) \/ rows'[id].mark = rows[id].mark
  BY <1>4, <1>8 DEF top
<1>11. batch # <<>> => /\ writer.file /\ writer.id \in 1 .. Len(rows)
                       /\ rows'[writer.id].mark = writer.off
  BY <1>5, <1>8 DEF top
<1>12. \A e \in Range(batch) : e.id = writer.id /\ e.off < writer.off
  BY <1>1, <1>3, TypesOf DEF Entry
<1> QED
  BY <1>2, <1>6, <1>8, <1>9, <1>10, <1>11, <1>12

(* What rotate does.                                                       *)
LEMMA SealFacts ==
  ASSUME Base, Seal
  PROVE  /\ rows' \in Seq(Row) /\ Len(rows') = Len(rows)
         /\ \A id \in 1 .. Len(rows) :
              /\ rows'[id].seq = rows[id].seq /\ rows'[id].mark = rows[id].mark
              /\ id # writer.id => rows'[id].state = rows[id].state
              /\ id = writer.id => rows'[id].state = "Sealed"
         /\ ~ writer'.file /\ writer'.up = writer.up /\ writer'.id = writer.id
         /\ writer'.seq = writer.seq + 1 /\ writer'.off = writer.off
         /\ writer' \in [up : BOOLEAN, file : BOOLEAN, seq : Nat, id : Nat, off : Nat]
         /\ batch = <<>> /\ todo # <<>> /\ At("Seal") /\ todo' = Tail(todo)
         /\ OpenRows' = {} /\ OpenRows \subseteq {writer.id}
         /\ UNCHANGED <<disk, batch, indexed, next, faults>>
<1>1. FileTypes /\ Placed /\ Gathered
  BY DEF Base
<1>2. /\ rows' = [rows EXCEPT ![writer.id].state = "Sealed"]
      /\ writer' = [writer EXCEPT !.file = FALSE, !.seq = writer.seq + 1]
      /\ todo # <<>> /\ At("Seal") /\ todo' = Tail(todo)
      /\ UNCHANGED <<disk, batch, indexed, next, faults>>
  BY DEF Seal, At
<1>3. DOMAIN rows = 1 .. Len(rows) /\ Len(rows) \in Nat /\ \A id \in 1 .. Len(rows) : rows[id] \in Row
  BY <1>1, TypesOf
<1>4. \A id \in 1 .. Len(rows) :
        /\ rows'[id] \in Row
        /\ rows'[id].seq = rows[id].seq /\ rows'[id].mark = rows[id].mark
        /\ id # writer.id => rows'[id].state = rows[id].state
        /\ id = writer.id => rows'[id].state = "Sealed"
  <2> TAKE id \in 1 .. Len(rows)
  <2>1. CASE id # writer.id
    BY <1>2, <1>3, <2>1
  <2>2. CASE id = writer.id
    <3>1. rows'[id] = [rows[id] EXCEPT !.state = "Sealed"]
      BY <1>2, <1>3, <2>2
    <3>2. rows[id] \in Row
      BY <1>3
    <3> QED
      BY <2>2, <3>1, <3>2 DEF Row
  <2> QED
    BY <2>1, <2>2
<1>5. rows' \in Seq(Row) /\ Len(rows') = Len(rows)
  <2>1. DOMAIN rows' = 1 .. Len(rows) /\ rows' = [id \in 1 .. Len(rows) |-> rows'[id]]
    BY <1>2, <1>3
  <2>2. rows' \in [1 .. Len(rows) -> Row]
    BY <1>4, <2>1
  <2>3. rows' \in Seq(Row)
    BY <1>3, <2>2, SeqDef
  <2>4. Len(rows') \in Nat /\ DOMAIN rows' = 1 .. Len(rows')
    BY <2>3, LenProperties
  <2> QED
    BY <1>3, <2>1, <2>3, <2>4
<1>6. /\ ~ writer'.file /\ writer'.up = writer.up /\ writer'.id = writer.id
      /\ writer'.seq = writer.seq + 1 /\ writer'.off = writer.off
      /\ writer' \in [up : BOOLEAN, file : BOOLEAN, seq : Nat, id : Nat, off : Nat]
  <2>1. writer \in [up : BOOLEAN, file : BOOLEAN, seq : Nat, id : Nat, off : Nat] /\ writer.seq + 1 \in Nat
    BY <1>1, TypesOf DEF FileTypes
  <2> QED
    BY <1>2, <2>1
<1>7. batch = <<>>
  BY <1>1, <1>2 DEF Gathered
<1>8. OpenRows \subseteq {writer.id}
  <2>1. todo \in Seq(Step)
    BY DEF Base, Inv, Agenda
  <2>2. 1 \in 1 .. Len(todo) /\ todo[1] = "Seal"
    BY <1>2, <2>1, HeadTailProperties, EmptySeq, LenProperties DEF At
  <2> QED
    BY <2>2 DEF Base, Inv, Ownership, Owned
<1>9. OpenRows' = {}
  BY <1>4, <1>5, <1>8 DEF OpenRows
<1> QED
  BY <1>2, <1>4, <1>5, <1>6, <1>7, <1>8, <1>9

(* What ensure_open registers.                                             *)
LEMMA InsertFacts ==
  ASSUME Base, Insert
  PROVE  /\ rows' \in Seq(Row) /\ Len(rows') = Len(rows) + 1
         /\ \A id \in 1 .. Len(rows) : rows'[id] = rows[id]
         /\ rows'[Len(rows) + 1].seq = writer.seq /\ rows'[Len(rows) + 1].mark = 0
         /\ rows'[Len(rows) + 1].state = "Open"
         /\ writer'.up /\ writer'.file /\ writer'.id = Len(rows) + 1
         /\ writer'.seq = writer.seq /\ writer'.off = 0
         /\ writer' \in [up : BOOLEAN, file : BOOLEAN, seq : Nat, id : Nat, off : Nat]
         /\ batch = <<>> /\ todo # <<>> /\ At("Insert") /\ todo' = Tail(todo) /\ Opening
         /\ OpenRows = {} /\ OpenRows' = {Len(rows) + 1}
         /\ UNCHANGED <<disk, batch, indexed, next, faults>>
<1>1. FileTypes /\ Placed /\ Gathered
  BY DEF Base
<1> DEFINE new == [seq |-> writer.seq, state |-> "Open", mark |-> 0]
<1>2. /\ rows' = Append(rows, new)
      /\ writer' = [writer EXCEPT !.up = TRUE, !.file = TRUE, !.id = Len(rows'), !.off = 0]
      /\ todo # <<>> /\ At("Insert") /\ todo' = Tail(todo) /\ Opening
      /\ UNCHANGED <<disk, batch, indexed, next, faults>>
  BY DEF Insert, At, Opening
<1>3. Len(rows) \in Nat /\ \A id \in 1 .. Len(rows) : rows[id] \in Row
  BY <1>1, TypesOf
<1>4. new \in Row /\ new.seq = writer.seq /\ new.mark = 0 /\ new.state = "Open"
  BY <1>1, TypesOf DEF Row
<1> HIDE DEF new
<1>5. /\ rows' \in Seq(Row) /\ Len(rows') = Len(rows) + 1
      /\ \A id \in 1 .. Len(rows) : rows'[id] = rows[id]
      /\ rows'[Len(rows) + 1] = new
  BY <1>1, <1>2, <1>4, AppendIs DEF FileTypes
<1>6. /\ writer'.up /\ writer'.file /\ writer'.id = Len(rows) + 1
      /\ writer'.seq = writer.seq /\ writer'.off = 0
      /\ writer' \in [up : BOOLEAN, file : BOOLEAN, seq : Nat, id : Nat, off : Nat]
  <2>1. writer \in [up : BOOLEAN, file : BOOLEAN, seq : Nat, id : Nat, off : Nat] /\ Len(rows') \in Nat
    BY <1>1, <1>3, <1>5 DEF FileTypes
  <2> QED
    BY <1>2, <1>5, <2>1
<1>7. batch = <<>>
  BY <1>1, <1>2 DEF Gathered, Placed
<1>8. OpenRows = {}
  <2>1. todo \in Seq(Step) /\ (Balanced(todo) \/ (Ready(todo) /\ OpenRows = {}))
    BY DEF Base, Inv, Agenda
  <2>2. ~ Balanced(todo)
    BY <1>2, <2>1, TailOfReady DEF At
  <2> QED
    BY <2>1, <2>2
<1>9. OpenRows' = {Len(rows) + 1}
  <2>1. \A id \in 1 .. Len(rows) : rows[id].state # "Open"
    BY <1>8 DEF OpenRows
  <2>2. \A id : id \in 1 .. Len(rows') <=> id \in 1 .. Len(rows) \/ id = Len(rows) + 1
    BY <1>3, <1>5
  <2> QED
    BY <1>4, <1>5, <2>1, <2>2 DEF OpenRows
<1> QED
  BY <1>2, <1>4, <1>5, <1>6, <1>7, <1>8, <1>9

(* The file ensure_open creates is empty, and no row has it yet.           *)
LEMMA CreateFacts ==
  ASSUME Base, Create
  PROVE  /\ writer.seq \notin DOMAIN disk /\ DOMAIN disk' = DOMAIN disk \cup {writer.seq}
         /\ disk'[writer.seq] = <<>> /\ \A s \in DOMAIN disk : disk'[s] = disk[s]
         /\ batch = <<>> /\ todo # <<>> /\ At("Create") /\ todo' = Tail(todo) /\ Opening /\ ~ writer.file
         /\ UNCHANGED <<rows, writer, batch, indexed, next, faults>>
<1>1. /\ writer.seq \notin DOMAIN disk
      /\ disk' = [s \in DOMAIN disk \cup {writer.seq} |-> IF s = writer.seq THEN <<>> ELSE disk[s]]
      /\ todo # <<>> /\ At("Create") /\ todo' = Tail(todo) /\ Opening
      /\ UNCHANGED <<rows, writer, batch, indexed, next, faults>>
  BY DEF Create, At, Opening
<1>2. ~ writer.file /\ batch = <<>>
  BY <1>1 DEF Base, Placed, Gathered
<1> QED
  BY <1>1, <1>2

(* What is left when the process dies.                                     *)
LEMMA DieFacts ==
  ASSUME Base, Crash \/ Panic
  PROVE  /\ writer' = Down /\ batch' = <<>> /\ todo' = <<>> /\ UNCHANGED <<disk, rows, indexed>>
         /\ next' = 1 + Max({0} \cup Committed)
         /\ faults'.failAt = faults.failAt /\ faults'.crashAt = faults.crashAt
         /\ {"failAt", "crashAt"} \subseteq DOMAIN faults'
         /\ Crash => (IF todo = <<>> THEN "Idle" ELSE Head(todo)) \in faults.crashAt
         /\ Crash => writer.up \/ todo # <<>>
         /\ Panic => At("Write") /\ ~ writer.file
<1>1. Die /\ (UNCHANGED faults \/ faults' = [faults EXCEPT !.crashes = faults.crashes - 1])
  BY DEF Crash, Panic
<1>2. /\ faults'.failAt = faults.failAt /\ faults'.crashAt = faults.crashAt
      /\ {"failAt", "crashAt"} \subseteq DOMAIN faults'
  BY <1>1 DEF Base, FileTypes
<1> QED
  BY <1>1, <1>2 DEF Die, Crash, Panic, Idle

(* What is left when a step fails.                                         *)
LEMMA AbandonFacts ==
  ASSUME Base, Fail \/ AlreadyExists
  PROVE  /\ todo # <<>> /\ todo' = <<>> /\ UNCHANGED <<disk, rows, indexed>>
         /\ batch' = IF At("Commit") \/ At("Mark") THEN <<>> ELSE batch
         /\ next' = next \/ (next' = next + 1 /\ next <= Len(Records))
         /\ writer'.up = writer.up /\ writer'.id = writer.id
         /\ writer'.seq = writer.seq /\ writer'.off = writer.off
         /\ writer'.file = (writer.file /\ ~ (At("Seal") /\ Fail))
         /\ writer' \in [up : BOOLEAN, file : BOOLEAN, seq : Nat, id : Nat, off : Nat]
         /\ faults'.failAt = faults.failAt /\ faults'.crashAt = faults.crashAt
         /\ {"failAt", "crashAt"} \subseteq DOMAIN faults'
         /\ Fail => Head(todo) \in faults.failAt
         /\ AlreadyExists => At("Create") /\ writer.seq \in DOMAIN disk /\ UNCHANGED <<writer, batch>>
<1>1. FileTypes
  BY DEF Base
<1>2. Abandoned /\ todo # <<>> /\ UNCHANGED <<disk, rows, indexed>>
  BY DEF Fail, AlreadyExists, At
<1>3. /\ todo' = <<>>
      /\ batch' = IF At("Commit") \/ At("Mark") THEN <<>> ELSE batch
      /\ next' = next \/ (next' = next + 1 /\ next <= Len(Records))
  BY <1>2 DEF Abandoned, At
<1>4. CASE Fail
  <2>1. /\ writer' = [writer EXCEPT !.file = writer.file /\ Head(todo) # "Seal"]
        /\ faults' = [faults EXCEPT !.failures = faults.failures - 1]
        /\ Head(todo) \in faults.failAt
    BY <1>4 DEF Fail
  <2>2. /\ writer'.up = writer.up /\ writer'.id = writer.id
        /\ writer'.seq = writer.seq /\ writer'.off = writer.off
        /\ writer'.file = (writer.file /\ Head(todo) # "Seal")
        /\ writer' \in [up : BOOLEAN, file : BOOLEAN, seq : Nat, id : Nat, off : Nat]
    BY <1>1, <2>1 DEF FileTypes
  <2>3. /\ faults'.failAt = faults.failAt /\ faults'.crashAt = faults.crashAt
        /\ {"failAt", "crashAt"} \subseteq DOMAIN faults'
    BY <1>1, <2>1 DEF FileTypes
  <2>4. AlreadyExists => At("Create") /\ writer.seq \in DOMAIN disk /\ UNCHANGED <<writer, batch>>
    <3>1. AlreadyExists => At("Create") /\ writer.seq \in DOMAIN disk /\ UNCHANGED writer
      BY DEF AlreadyExists
    <3>2. At("Create") => ~ At("Commit") /\ ~ At("Mark")
      BY DEF At
    <3> QED
      BY <1>3, <3>1, <3>2
  <2> QED
    BY <1>2, <1>3, <1>4, <2>1, <2>2, <2>3, <2>4 DEF At
<1>5. CASE AlreadyExists /\ ~ Fail
  <2>1. /\ At("Create") /\ writer.seq \in DOMAIN disk /\ UNCHANGED <<writer, faults>>
        /\ ~ At("Seal") /\ ~ At("Commit") /\ ~ At("Mark")
    BY <1>5 DEF AlreadyExists, At
  <2>2. writer.file = (writer.file /\ TRUE) /\ writer.file \in BOOLEAN
    BY <1>1 DEF FileTypes
  <2> QED
    BY <1>1, <1>2, <1>3, <1>5, <2>1, <2>2 DEF FileTypes
<1> QED
  BY <1>4, <1>5

(* A set of numbers below a bound has a greatest.                          *)
LEMMA MaxIs ==
  ASSUME NEW n \in Nat, NEW S \in SUBSET (0 .. n), S # {}
  PROVE  Max(S) \in S /\ \A y \in S : y <= Max(S)
<1> DEFINE T == {n - y : y \in S}
           R == OpToRel(<, Nat)
<1>1. T \subseteq Nat /\ T # {}
  <2>1. \A y \in S : n - y \in Nat
    OBVIOUS
  <2> QED
    BY <2>1
<1>2. \A x, y \in Nat : y < x => <<y, x>> \in R
  BY DEF OpToRel
<1>3. IsWellFoundedOn(R, Nat)
  BY NatLessThanWellFounded
<1> HIDE DEF R
<1>4. PICK t \in T : \A u \in T : ~ (<<u, t>> \in R)
  BY <1>1, <1>3, WFMin
<1>5. \A u \in T : t <= u
  <2> TAKE u \in T
  <2>1. t \in Nat /\ u \in Nat /\ ~ (<<u, t>> \in R)
    BY <1>1, <1>4
  <2>2. ~ (u < t)
    BY <1>2, <2>1, Zenon
  <2> QED
    BY <2>1, <2>2
<1>6. PICK m \in S : t = n - m
  OBVIOUS
<1>7. \A y \in S : m >= y
  BY <1>5, <1>6
<1>8. Max(S) \in S /\ \A y \in S : Max(S) >= y
  BY <1>7 DEF Max
<1> QED
  BY <1>8

(* A record is committed when a unit of it lies behind a watermark.        *)
LEMMA CommittedIs ==
  ASSUME Base
  PROVE  /\ \A x : x \in Committed <=>
                     \E id \in 1 .. Len(rows) : \E p \in 1 .. rows[id].mark : Content(id)[p] = x
         /\ Committed \subseteq 0 .. Len(Records)
         /\ Max({0} \cup Committed) \in 0 .. Len(Records)
<1> DEFINE seen(id) == SubSeq(disk[rows[id].seq], 1, rows[id].mark)
<1>1. \A id \in 1 .. Len(rows) :
        /\ Range(seen(id)) \subseteq Unit
        /\ \A x : x \in Range(seen(id)) <=> \E p \in 1 .. rows[id].mark : Content(id)[p] = x
  <2> TAKE id \in 1 .. Len(rows)
  <2> DEFINE old == disk[rows[id].seq]
             m == rows[id].mark
  <2>1. rows[id] \in Row /\ old \in Seq(Unit) /\ m <= Len(old) /\ m \in Nat
    BY TypesOf DEF Base, Placed, Content, FileTypes, Row
  <2> HIDE DEF old, m
  <2>2. /\ SubSeq(old, 1, m) \in Seq(Unit) /\ Len(SubSeq(old, 1, m)) = m
        /\ \A p \in 1 .. m : SubSeq(old, 1, m)[p] = old[p]
    BY <2>1, PrefixIs
  <2>3. /\ Range(SubSeq(old, 1, m)) \subseteq Unit
        /\ \A x : x \in Range(SubSeq(old, 1, m)) <=> \E p \in 1 .. m : old[p] = x
    <3> DEFINE s == SubSeq(old, 1, m)
    <3>1. s \in Seq(Unit) /\ Len(s) = m /\ \A p \in 1 .. m : s[p] = old[p]
      BY <2>2
    <3> HIDE DEF s
    <3>2. Range(s) \subseteq Unit /\ \A x : x \in Range(s) <=> \E i \in 1 .. Len(s) : s[i] = x
      BY <3>1, RangeIs
    <3>3. \A x : x \in Range(s) <=> \E p \in 1 .. m : old[p] = x
      BY <3>1, <3>2
    <3> QED
      BY <3>2, <3>3 DEF s
  <2> QED
    BY <2>3 DEF old, m, Content
<1>2. Committed = UNION {Range(seen(id)) : id \in 1 .. Len(rows)}
  BY DEF Committed
<1> HIDE DEF seen
<1>3. \A x : x \in Committed <=> \E id \in 1 .. Len(rows) : x \in Range(seen(id))
  BY <1>2
<1>4. \A x : x \in Committed <=>
               \E id \in 1 .. Len(rows) : \E p \in 1 .. rows[id].mark : Content(id)[p] = x
  BY <1>1, <1>3, Zenon
<1>5. Len(Records) \in Nat /\ Unit \subseteq 0 .. Len(Records)
  BY RecordsAre DEF Unit
<1>6. Committed \subseteq 0 .. Len(Records)
  BY <1>1, <1>3, <1>5
<1> DEFINE S == {0} \cup Committed
<1>7. S \in SUBSET (0 .. Len(Records)) /\ S # {}
  BY <1>5, <1>6
<1> HIDE DEF S
<1>8. Max(S) \in 0 .. Len(Records)
  BY <1>5, <1>7, MaxIs
<1> QED
  BY <1>4, <1>6, <1>8 DEF S

(* The first state.                                                        *)
LEMMA InitIsBase == Init => Base
<1> SUFFICES ASSUME Init PROVE Base
  OBVIOUS
<1>1. /\ DOMAIN disk = {} /\ rows = <<>> /\ writer = Down /\ batch = <<>> /\ indexed = {}
      /\ next = 1 /\ todo = <<>> /\ faults \in Faults
  BY DEF Init
<1>2. {"failAt", "crashAt"} \subseteq DOMAIN faults
  BY <1>1, HotFileAssumption
<1>3. writer \in [up : BOOLEAN, file : BOOLEAN, seq : Nat, id : Nat, off : Nat] /\ ~ writer.file
  BY <1>1 DEF Down
<1>4. rows \in Seq(Row) /\ batch \in Seq(Entry) /\ Len(rows) = 0
  BY <1>1, EmptySeq
<1>5. Range(batch) = {} /\ Range(todo) = {} /\ todo \in Plans
  BY <1>1, <1>4, PlansBegun
<1>6. FileTypes
  BY <1>1, <1>2, <1>3, <1>4, <1>5, RecordsAre DEF FileTypes
<1>7. Placed /\ Gathered
  BY <1>1, <1>3, <1>4, <1>5 DEF Placed, Gathered, At
<1> QED
  BY <1>6, <1>7, InitIsInv DEF Base

(* A handler that has ended asks nothing.                                  *)
LEMMA EndedAsks ==
  ASSUME todo' = <<>>
  PROVE  todo' \in Plans /\ Range(todo)' = {} /\ ~ Opening' /\ \A step : ~ At(step)'
BY PlansBegun DEF Opening, At

(* Recovery goes on in the open file behind its watermark, with nothing    *)
(* gathered.                                                               *)
LEMMA ResumeBase ==
  ASSUME Base, OpenOrRecover, OpenRows # {}
  PROVE  FileTypes' /\ Placed' /\ Gathered'
<1>1. FileTypes /\ Placed /\ Gathered
  BY DEF Base
<1>2. PICK id \in 1 .. Len(rows) :
           /\ writer'.up /\ writer'.file /\ writer'.seq = rows[id].seq /\ writer'.id = id
           /\ writer'.off = rows[id].mark
           /\ writer' \in [up : BOOLEAN, file : BOOLEAN, seq : Nat, id : Nat, off : Nat]
           /\ todo' = <<>> /\ UNCHANGED <<rows, batch, indexed, next, faults>>
           /\ batch = <<>>
           /\ DOMAIN disk' = DOMAIN disk
           /\ \A s \in DOMAIN disk : s # rows[id].seq => disk'[s] = disk[s]
           /\ disk'[rows[id].seq] \in Seq(Unit) /\ Len(disk'[rows[id].seq]) = rows[id].mark
  BY ResumeFacts
<1>3. todo' \in Plans /\ Range(todo)' = {} /\ ~ Opening' /\ \A step : ~ At(step)'
  BY <1>2, EndedAsks
<1>4. FileTypes'
  BY <1>1, <1>2, <1>3 DEF FileTypes
<1>5. Range(batch') = {}
  BY <1>1, <1>2, TypesOf
<1>6. \A j \in 1 .. Len(rows) : rows[j] \in Row
  BY <1>1, TypesOf
<1>7. Placed'
  BY <1>1, <1>2, <1>3, <1>6 DEF Placed, Content, Row
<1>8. Gathered'
  BY <1>1, <1>2, <1>3, <1>5 DEF Gathered
<1> QED
  BY <1>4, <1>7, <1>8

(* A handler that begins has a plan: the batch is flushed before the file  *)
(* is left.                                                                *)
LEMMA BeginBase ==
  ASSUME Base, (OpenOrRecover /\ OpenRows = {}) \/ Push \/ Finish
  PROVE  FileTypes' /\ Placed' /\ Gathered'
<1>1. FileTypes /\ Placed /\ Gathered
  BY DEF Base
<1> DEFINE closing == Flushing \o Rotation
           ci == <<"Create", "Insert">>
           rw == <<"Reserve", "Write">>
<1>2. /\ UNCHANGED <<disk, rows, writer, batch, indexed, next, faults>> /\ todo = <<>>
      /\ \/ todo' = ci /\ ~ writer.up
         \/ todo' = closing /\ writer.up
         \/ todo' = closing \o rw /\ writer.up /\ next <= Len(Records)
         \/ todo' = <<>> \o rw /\ ~ OverBoundary /\ writer.up /\ next <= Len(Records)
  BY DEF OpenOrRecover, Recover, Push, Finish, Idle
<1>3. /\ ci \in Plans /\ Begins(ci, "Create") /\ "Write" \notin Range(ci)
      /\ closing \in Plans /\ "Write" \notin Range(closing)
      /\ closing \o rw \in Plans /\ <<>> \o rw \in Plans /\ Begins(<<>> \o rw, "Reserve")
      /\ \A t \in {closing, closing \o rw} : Begins(t, "Commit") \/ (batch = <<>> /\ Begins(t, "Seal"))
  BY PlansBegun
<1> HIDE DEF closing, ci, rw
<1>4. /\ todo' \in Plans
      /\ \/ Begins(todo', "Create") /\ ~ writer.up
         \/ Begins(todo', "Commit")
         \/ Begins(todo', "Seal") /\ batch = <<>>
         \/ Begins(todo', "Reserve") /\ ~ OverBoundary /\ next <= Len(Records)
      /\ "Write" \in Range(todo') => next <= Len(Records)
  BY <1>2, <1>3
<1>5. FileTypes'
  BY <1>1, <1>2, <1>4 DEF FileTypes
<1>6. Placed'
  BY <1>1, <1>2, <1>4 DEF Placed, Content, Opening, At, Begins
<1>7. ~ OverBoundary /\ next <= Len(Records) => writer.off = 0 \/ writer.off + Records[next] <= FileSize
  <2>1. next <= Len(Records) => next \in 1 .. Len(Records)
    BY <1>1, TypesOf, RecordsAre
  <2> QED
    BY <1>1, <2>1, TypesOf, RecordsAre DEF OverBoundary
<1>8. Gathered'
  <2>1. At("Reserve")' => ~ OverBoundary /\ next <= Len(Records)
    BY <1>4 DEF At, Begins
  <2>2. At("Seal")' => batch = <<>>
    BY <1>4 DEF At, Begins
  <2> QED
    BY <1>1, <1>2, <1>4, <1>7, <2>1, <2>2 DEF Gathered
<1> QED
  BY <1>5, <1>6, <1>8

(* A record longer than a file meets a file that is empty, or the batch    *)
(* was flushed when it was pushed.                                         *)
LEMMA ReserveBase == ASSUME Base, Reserve PROVE FileTypes' /\ Placed' /\ Gathered'
<1>1. FileTypes /\ Placed /\ Gathered
  BY DEF Base
<1> DEFINE w == <<"Write">>
<1>2. /\ UNCHANGED <<disk, rows, writer, batch, indexed, next, faults>>
      /\ todo # <<>> /\ At("Reserve")
      /\ \/ todo' = Rotation \o Tail(todo) /\ writer.off + Records[next] > FileSize
         \/ todo' = <<>> \o Tail(todo)
  BY DEF Reserve, At
<1>3. Tail(todo) = w /\ "Write" \in Range(todo)
  BY <1>1, <1>2, AtStep
<1>4. Rotation \o w \in Plans /\ Begins(Rotation \o w, "Seal") /\ <<>> \o w = w /\ w \in Plans
      /\ Begins(w, "Write")
  BY PlansBegun
<1> HIDE DEF w
<1>5. next \in 1 .. Len(Records) /\ Records[next] \in Nat /\ writer.off \in Nat
  BY <1>1, <1>3, TypesOf, RecordsAre DEF Gathered
<1>6. writer.off + Records[next] > FileSize => batch = <<>>
  <2> SUFFICES ASSUME writer.off + Records[next] > FileSize, batch # <<>> PROVE FALSE
    OBVIOUS
  <2>1. writer.off = 0
    BY <1>1, <1>2, <1>5, RecordsAre DEF Gathered
  <2>2. PICK e \in Range(batch) : End(e) = writer.off
    BY <1>1 DEF Gathered
  <2>3. e.off \in Nat /\ Records[e.n] \in Nat /\ Records[e.n] > 0
    BY <1>1, TypesOf, RecordsAre DEF Entry
  <2> QED
    BY <2>1, <2>2, <2>3 DEF End
<1>7. todo' \in Plans /\ ((Begins(todo', "Seal") /\ batch = <<>>) \/ Begins(todo', "Write"))
  BY <1>2, <1>3, <1>4, <1>6
<1>8. FileTypes'
  BY <1>1, <1>2, <1>7 DEF FileTypes
<1>9. Placed'
  BY <1>1, <1>2, <1>7 DEF Placed, Content, Opening, At, Begins
<1>10. Gathered'
  BY <1>1, <1>2, <1>5, <1>7 DEF Gathered, At, Begins
<1> QED
  BY <1>8, <1>9, <1>10

(* What is gathered lies where the writer stood.                           *)
LEMMA WriteBase == ASSUME Base, Write PROVE FileTypes' /\ Placed' /\ Gathered'
<1>1. FileTypes /\ Placed /\ Gathered
  BY DEF Base
<1>2. PICK e \in Entry :
         /\ writer.file /\ writer.up /\ next \in 1 .. Len(Records) /\ todo # <<>>
         /\ writer.seq \in DOMAIN disk /\ DOMAIN disk' = DOMAIN disk
         /\ writer.id \in 1 .. Len(rows) /\ rows[writer.id].seq = writer.seq
         /\ \A s \in DOMAIN disk : s # writer.seq => disk'[s] = disk[s]
         /\ disk'[writer.seq] \in Seq(Unit)
         /\ Len(disk'[writer.seq]) = writer.off + Records[next]
         /\ Len(disk[writer.seq]) = writer.off
         /\ \A p \in 1 .. writer.off : disk'[writer.seq][p] = disk[writer.seq][p]
         /\ \A p \in writer.off + 1 .. writer.off + Records[next] : disk'[writer.seq][p] = next
         /\ writer'.up = writer.up /\ writer'.file = writer.file /\ writer'.id = writer.id
         /\ writer'.seq = writer.seq /\ writer'.off = writer.off + Records[next]
         /\ writer' \in [up : BOOLEAN, file : BOOLEAN, seq : Nat, id : Nat, off : Nat]
         /\ e.id = writer.id /\ e.off = writer.off /\ e.n = next
         /\ batch' \in Seq(Entry) /\ batch' # <<>>
         /\ \A x : x \in Range(batch') <=> x \in Range(batch) \/ x = e
         /\ next' = next + 1 /\ todo' \in {<<>>, <<"Commit", "Mark">>}
         /\ UNCHANGED <<rows, indexed, faults>>
  BY WriteFacts
<1>3. Records[next] \in Nat /\ Records[next] > 0 /\ writer.off \in Nat /\ next \in Nat
  BY <1>1, <1>2, RecordsAre, TypesOf
<1>4. /\ todo' \in Plans /\ "Write" \notin Range(todo')
      /\ todo' = <<>> \/ Begins(todo', "Commit")
  BY <1>2, PlansBegun
<1>5. ~ Opening' /\ ~ At("Seal")' /\ ~ At("Reserve")' /\ ~ At("Insert")'
  BY <1>4 DEF Opening, At, Begins
<1>6. FileTypes'
  <2>1. next' \in 1 .. Len(Records) + 1
    BY <1>2, RecordsAre
  <2>2. DOMAIN disk' \subseteq Nat /\ \A s \in DOMAIN disk' : disk'[s] \in Seq(Unit)
    BY <1>1, <1>2 DEF FileTypes
  <2> QED
    BY <1>1, <1>2, <1>4, <2>1, <2>2 DEF FileTypes
<1>7. Placed'
  <2>1. ASSUME NEW id \in 1 .. Len(rows)
        PROVE  rows[id].seq \in DOMAIN disk' /\ rows[id].mark <= Len(disk'[rows[id].seq])
    <3>1. /\ rows[id].seq \in DOMAIN disk /\ rows[id].mark <= Len(disk[rows[id].seq])
          /\ rows[id].mark \in Nat
      BY <1>1, TypesOf DEF Placed, Content, Row
    <3>2. CASE rows[id].seq = writer.seq
      BY SMTT(40), <1>2, <1>3, <3>1, <3>2
    <3>3. CASE rows[id].seq # writer.seq
      BY <1>2, <3>1, <3>3
    <3> QED
      BY <3>2, <3>3
  <2> QED
    BY <1>1, <1>2, <1>5, <2>1 DEF Placed, Content
<1>8. Gathered'
  <2>1. ASSUME NEW x \in Range(batch')
        PROVE  /\ x.id = writer'.id /\ x.off + Records[x.n] <= writer'.off
               /\ disk'[writer'.seq][x.off + 1] = x.n
    <3>1. CASE x = e
      <4>1. writer.off + 1 \in writer.off + 1 .. writer.off + Records[next]
        BY <1>3
      <4>2. disk'[writer.seq][writer.off + 1] = next
        BY <1>2, <4>1
      <4>3. x.id = writer.id /\ x.off = writer.off /\ x.n = next
        BY <1>2, <3>1
      <4> QED
        BY <1>2, <1>3, <4>2, <4>3
    <3>2. CASE x \in Range(batch)
      <4>1. /\ x \in Entry /\ x.id = writer.id /\ x.off + Records[x.n] <= writer.off
            /\ disk[writer.seq][x.off + 1] = x.n
        BY <1>1, <3>2, TypesOf DEF Gathered, End
      <4>2. x.off \in Nat /\ Records[x.n] \in Nat /\ Records[x.n] > 0
        BY <4>1, RecordsAre DEF Entry
      <4>3. x.off + 1 \in 1 .. writer.off
        BY <1>3, <4>1, <4>2
      <4>4. disk'[writer.seq][x.off + 1] = x.n
        BY <1>2, <4>1, <4>3
      <4>5. x.off + Records[x.n] <= writer.off + Records[next]
        BY <1>3, <4>1, <4>2
      <4> QED
        BY <1>2, <4>1, <4>4, <4>5
    <3> QED
      BY <1>2, <3>1, <3>2
  <2>2. e \in Range(batch') /\ e.off + Records[e.n] = writer'.off
    BY <1>2
  <2> QED
    BY <1>1, <1>2, <1>4, <1>5, <2>1, <2>2 DEF Gathered, End
<1> QED
  BY <1>6, <1>7, <1>8

(* The first transaction of a commit indexes what is gathered.             *)
LEMMA CommitBase == ASSUME Base, Commit PROVE FileTypes' /\ Placed' /\ Gathered'
<1>1. FileTypes /\ Placed /\ Gathered
  BY DEF Base
<1>2. /\ UNCHANGED <<disk, rows, writer, batch, next, faults>>
      /\ todo # <<>> /\ At("Commit") /\ todo' = Tail(todo)
      /\ \A e \in indexed' : e \in indexed \/ e \in Range(batch)
  BY DEF Commit, At
<1>3. /\ todo' \in Plans /\ Range(todo') \subseteq Range(todo) /\ Begins(todo', "Mark")
  BY <1>1, <1>2, AtStep
<1>4. ~ Opening' /\ ~ At("Seal")' /\ ~ At("Reserve")' /\ ~ At("Insert")'
  BY <1>3 DEF Opening, At, Begins
<1>5. \A e \in indexed' : e \in Entry /\ e.id \in 1 .. Len(rows)
  <2> TAKE e \in indexed'
  <2>1. CASE e \in indexed
    BY <1>1, <2>1 DEF FileTypes, Gathered
  <2>2. CASE e \in Range(batch)
    BY <1>1, <2>2, TypesOf DEF Gathered, Placed
  <2> QED
    BY <1>2, <2>1, <2>2
<1>6. FileTypes'
  BY <1>1, <1>2, <1>3, <1>5 DEF FileTypes
<1>7. Placed'
  BY <1>1, <1>2, <1>4 DEF Placed, Content
<1>8. Gathered'
  BY <1>1, <1>2, <1>3, <1>4, <1>5 DEF Gathered
<1> QED
  BY <1>6, <1>7, <1>8

(* The second moves the watermark to where the writer stands.              *)
LEMMA MarkBase == ASSUME Base, Mark PROVE FileTypes' /\ Placed' /\ Gathered'
<1>1. FileTypes /\ Placed /\ Gathered
  BY DEF Base
<1>2. /\ rows' \in Seq(Row) /\ Len(rows') = Len(rows)
      /\ \A id \in 1 .. Len(rows) :
              /\ rows'[id].seq = rows[id].seq
              /\ (batch # <<>> /\ id = writer.id) \/ rows'[id].mark = rows[id].mark
      /\ batch # <<>> => /\ writer.file /\ writer.id \in 1 .. Len(rows)
                         /\ rows'[writer.id].mark = writer.off
      /\ batch' = <<>> /\ todo # <<>> /\ At("Mark") /\ todo' = Tail(todo)
      /\ UNCHANGED <<disk, writer, indexed, next, faults>>
  BY MarkFacts
<1>3. /\ todo' \in Plans /\ Range(todo') \subseteq Range(todo)
      /\ todo' = <<>> \/ Begins(todo', "Seal")
  BY <1>1, <1>2, AtStep
<1>4. ~ Opening' /\ ~ At("Reserve")' /\ ~ At("Insert")'
  BY <1>3 DEF Opening, At, Begins
<1>5. batch' \in Seq(Entry) /\ Range(batch') = {}
  <2>1. batch' \in Seq(Entry)
    BY <1>2, EmptySeq
  <2> QED
    BY <1>2, <2>1, RangeIs
<1>6. FileTypes'
  BY <1>1, <1>2, <1>3, <1>5 DEF FileTypes
<1>7. Placed'
  <2>1. \A id \in 1 .. Len(rows) : rows'[id].mark <= Len(disk[rows[id].seq])
    <3> TAKE id \in 1 .. Len(rows)
    <3>1. CASE batch # <<>> /\ id = writer.id
      <4>1. Len(disk[writer.seq]) = writer.off /\ rows[id].seq = writer.seq /\ writer.off \in Nat
        BY <1>1, <1>2, <3>1, TypesOf DEF Placed
      <4> QED
        BY <1>2, <3>1, <4>1
    <3>2. CASE rows'[id].mark = rows[id].mark
      BY <1>1, <3>2 DEF Placed, Content
    <3> QED
      BY <1>2, <3>1, <3>2
  <2> QED
    BY <1>1, <1>2, <1>4, <2>1 DEF Placed, Content
<1>8. Gathered'
  BY <1>1, <1>2, <1>3, <1>4, <1>5 DEF Gathered
<1> QED
  BY <1>6, <1>7, <1>8

(* The file is left with nothing gathered.                                 *)
LEMMA SealBase == ASSUME Base, Seal PROVE FileTypes' /\ Placed' /\ Gathered'
<1>1. FileTypes /\ Placed /\ Gathered
  BY DEF Base
<1>2. /\ rows' \in Seq(Row) /\ Len(rows') = Len(rows)
      /\ \A id \in 1 .. Len(rows) : rows'[id].seq = rows[id].seq /\ rows'[id].mark = rows[id].mark
      /\ ~ writer'.file
      /\ writer' \in [up : BOOLEAN, file : BOOLEAN, seq : Nat, id : Nat, off : Nat]
      /\ batch = <<>> /\ todo # <<>> /\ At("Seal") /\ todo' = Tail(todo)
      /\ UNCHANGED <<disk, batch, indexed, next, faults>>
  BY SealFacts
<1>3. /\ todo' \in Plans /\ Range(todo') \subseteq Range(todo) /\ Begins(todo', "Create")
  BY <1>1, <1>2, AtStep
<1>4. ~ At("Reserve")' /\ ~ At("Insert")'
  BY <1>3 DEF At, Begins
<1>5. Range(batch') = {} /\ batch' = <<>>
  BY <1>1, <1>2, TypesOf
<1>6. FileTypes'
  BY <1>1, <1>2, <1>3 DEF FileTypes
<1>7. Placed'
  BY <1>1, <1>2, <1>4 DEF Placed, Content
<1>8. Gathered'
  BY <1>1, <1>2, <1>3, <1>4, <1>5 DEF Gathered
<1> QED
  BY <1>6, <1>7, <1>8

(* The new file is empty and has no row.                                   *)
LEMMA CreateBase == ASSUME Base, Create PROVE FileTypes' /\ Placed' /\ Gathered'
<1>1. FileTypes /\ Placed /\ Gathered
  BY DEF Base
<1>2. /\ writer.seq \notin DOMAIN disk /\ DOMAIN disk' = DOMAIN disk \cup {writer.seq}
      /\ disk'[writer.seq] = <<>> /\ \A s \in DOMAIN disk : disk'[s] = disk[s]
      /\ batch = <<>> /\ todo # <<>> /\ At("Create") /\ todo' = Tail(todo) /\ Opening /\ ~ writer.file
      /\ UNCHANGED <<rows, writer, batch, indexed, next, faults>>
  BY CreateFacts
<1>3. /\ todo' \in Plans /\ Range(todo') \subseteq Range(todo) /\ Begins(todo', "Insert")
  BY <1>1, <1>2, AtStep
<1>4. ~ At("Reserve")' /\ ~ At("Seal")'
  BY <1>3 DEF At, Begins
<1>5. Range(batch') = {}
  BY <1>1, <1>2, TypesOf
<1>6. FileTypes'
  <2>1. disk'[writer.seq] \in Seq(Unit)
    BY <1>2, EmptySeq
  <2> QED
    BY <1>1, <1>2, <1>3, <2>1, TypesOf DEF FileTypes
<1>7. Placed'
  BY <1>1, <1>2 DEF Placed, Content
<1>8. Gathered'
  BY <1>1, <1>2, <1>3, <1>4, <1>5 DEF Gathered
<1> QED
  BY <1>6, <1>7, <1>8

(* The new row has the new file.                                           *)
LEMMA InsertBase == ASSUME Base, Insert PROVE FileTypes' /\ Placed' /\ Gathered'
<1>1. FileTypes /\ Placed /\ Gathered
  BY DEF Base
<1>2. /\ rows' \in Seq(Row) /\ Len(rows') = Len(rows) + 1
      /\ \A id \in 1 .. Len(rows) : rows'[id] = rows[id]
      /\ rows'[Len(rows) + 1].seq = writer.seq /\ rows'[Len(rows) + 1].mark = 0
      /\ writer'.up /\ writer'.file /\ writer'.id = Len(rows) + 1
      /\ writer'.seq = writer.seq /\ writer'.off = 0
      /\ writer' \in [up : BOOLEAN, file : BOOLEAN, seq : Nat, id : Nat, off : Nat]
      /\ batch = <<>> /\ todo # <<>> /\ At("Insert") /\ todo' = Tail(todo)
      /\ UNCHANGED <<disk, batch, indexed, next, faults>>
  BY InsertFacts
<1>3. /\ todo' \in Plans /\ Range(todo') \subseteq Range(todo)
      /\ todo' = <<>> \/ Begins(todo', "Reserve") \/ Begins(todo', "Write")
  BY <1>1, <1>2, AtStep
<1>4. ~ Opening' /\ ~ At("Insert")' /\ ~ At("Seal")'
  BY <1>3 DEF Opening, At, Begins
<1>5. Range(batch') = {} /\ batch' = <<>>
  BY <1>1, <1>2, TypesOf
<1>6. FileTypes'
  BY <1>1, <1>2, <1>3 DEF FileTypes
<1>7. Len(rows) \in Nat /\ \A id : id \in 1 .. Len(rows) + 1 <=> id \in 1 .. Len(rows) \/ id = Len(rows) + 1
  BY <1>1, TypesOf
<1>8. writer.seq \in DOMAIN disk /\ Len(disk[writer.seq]) = 0
      /\ \A id \in 1 .. Len(rows) : rows[id].seq # writer.seq
  BY <1>1, <1>2, EmptySeq DEF Placed
<1>9. Placed'
  <2>1. \A id \in 1 .. Len(rows') : rows'[id].seq \in DOMAIN disk' /\ rows'[id].mark <= Len(disk'[rows'[id].seq])
    BY <1>1, <1>2, <1>7, <1>8 DEF Placed, Content
  <2>2. \A i, j \in 1 .. Len(rows') : rows'[i].seq = rows'[j].seq => i = j
    BY <1>1, <1>2, <1>7, <1>8 DEF Placed
  <2>3. writer'.id \in 1 .. Len(rows')
    BY <1>2, <1>7
  <2> QED
    BY <1>2, <1>4, <1>8, <2>1, <2>2, <2>3 DEF Placed, Content
<1>10. Gathered'
  <2>1. \A e \in indexed' : e.id \in 1 .. Len(rows')
    BY <1>1, <1>2, <1>7 DEF Gathered
  <2> QED
    BY <1>1, <1>2, <1>3, <1>4, <1>5, <2>1 DEF Gathered
<1> QED
  BY <1>6, <1>9, <1>10

(* A process that dies leaves files, rows and index as they are.           *)
LEMMA DieBase == ASSUME Base, Crash \/ Panic PROVE FileTypes' /\ Placed' /\ Gathered'
<1>1. FileTypes /\ Placed /\ Gathered
  BY DEF Base
<1>2. /\ writer' = Down /\ batch' = <<>> /\ todo' = <<>> /\ UNCHANGED <<disk, rows, indexed>>
      /\ next' = 1 + Max({0} \cup Committed)
      /\ {"failAt", "crashAt"} \subseteq DOMAIN faults'
  BY DieFacts
<1>3. todo' \in Plans /\ Range(todo)' = {} /\ ~ Opening' /\ \A step : ~ At(step)'
  BY <1>2, EndedAsks
<1>4. next' \in 1 .. Len(Records) + 1
  BY <1>2, CommittedIs, RecordsAre
<1>5. writer' \in [up : BOOLEAN, file : BOOLEAN, seq : Nat, id : Nat, off : Nat] /\ ~ writer'.file
  BY <1>2 DEF Down
<1>6. batch' \in Seq(Entry) /\ Range(batch') = {}
  <2>1. batch' \in Seq(Entry)
    BY <1>2, EmptySeq
  <2> QED
    BY <1>2, <2>1, RangeIs
<1>7. FileTypes'
  BY <1>1, <1>2, <1>3, <1>4, <1>5, <1>6 DEF FileTypes
<1>8. Placed'
  BY <1>1, <1>2, <1>3, <1>5 DEF Placed, Content
<1>9. Gathered'
  BY <1>1, <1>2, <1>3, <1>6 DEF Gathered
<1> QED
  BY <1>7, <1>8, <1>9

(* A step that fails loses the batch or the record, and a seal the handle. *)
LEMMA AbandonBase == ASSUME Base, Fail \/ AlreadyExists PROVE FileTypes' /\ Placed' /\ Gathered'
<1>1. FileTypes /\ Placed /\ Gathered
  BY DEF Base
<1>2. /\ todo # <<>> /\ todo' = <<>> /\ UNCHANGED <<disk, rows, indexed>>
      /\ batch' = IF At("Commit") \/ At("Mark") THEN <<>> ELSE batch
      /\ next' = next \/ (next' = next + 1 /\ next <= Len(Records))
      /\ writer'.up = writer.up /\ writer'.id = writer.id
      /\ writer'.seq = writer.seq /\ writer'.off = writer.off
      /\ writer'.file = (writer.file /\ ~ (At("Seal") /\ Fail))
      /\ writer' \in [up : BOOLEAN, file : BOOLEAN, seq : Nat, id : Nat, off : Nat]
      /\ {"failAt", "crashAt"} \subseteq DOMAIN faults'
  BY AbandonFacts
<1>3. todo' \in Plans /\ Range(todo)' = {} /\ ~ Opening' /\ \A step : ~ At(step)'
  BY <1>2, EndedAsks
<1>4. next' \in 1 .. Len(Records) + 1
  BY <1>1, <1>2, RecordsAre, TypesOf
<1>5. batch' = <<>> \/ batch' = batch
  BY <1>2
<1>6. batch' \in Seq(Entry) /\ Range(batch') \subseteq Range(batch)
  <2>1. <<>> \in Seq(Entry)
    BY EmptySeq
  <2>2. Range(<<>>) = {}
    BY PlansBegun
  <2> QED
    BY <1>1, <1>5, <2>1, <2>2 DEF FileTypes
<1>7. FileTypes'
  BY <1>1, <1>2, <1>3, <1>4, <1>6 DEF FileTypes
<1>8. writer'.file => writer.file
  BY <1>2
<1>9. Placed'
  BY <1>1, <1>2, <1>3, <1>8 DEF Placed, Content
<1>10. batch' # <<>> => batch' = batch /\ batch # <<>> /\ writer'.file
  <2>1. batch # <<>> => writer.file /\ ~ At("Seal")
    BY <1>1 DEF Gathered
  <2> QED
    BY <1>2, <1>5, <2>1
<1>11. Gathered'
  BY <1>1, <1>2, <1>3, <1>5, <1>6, <1>10 DEF Gathered, End
<1> QED
  BY <1>7, <1>9, <1>11

(* Base is kept by every step.                                             *)
LEMMA BaseKeeps == Base /\ Next => Base'
<1>1. Inv /\ Next => Inv'
  BY NextKeeps
<1>2. Base /\ Next => FileTypes' /\ Placed' /\ Gathered'
  <2> SUFFICES ASSUME Base, Next PROVE FileTypes' /\ Placed' /\ Gathered'
    OBVIOUS
  <2>1. CASE OpenOrRecover
    BY <2>1, ResumeBase, BeginBase
  <2>2. CASE Push \/ Finish
    BY <2>2, BeginBase
  <2>3. CASE Reserve
    BY <2>3, ReserveBase
  <2>4. CASE Write
    BY <2>4, WriteBase
  <2>5. CASE Commit
    BY <2>5, CommitBase
  <2>6. CASE Mark
    BY <2>6, MarkBase
  <2>7. CASE Seal
    BY <2>7, SealBase
  <2>8. CASE Create
    BY <2>8, CreateBase
  <2>9. CASE Insert
    BY <2>9, InsertBase
  <2>10. CASE Crash \/ Panic
    BY <2>10, DieBase
  <2>11. CASE Fail \/ AlreadyExists
    BY <2>11, AbandonBase
  <2> QED
    BY <2>1, <2>2, <2>3, <2>4, <2>5, <2>6, <2>7, <2>8, <2>9, <2>10, <2>11 DEF Next, Work
<1> QED
  BY <1>1, <1>2 DEF Base

-----------------------------------------------------------------------------
(***************************************************************************)
(* The index tells the file.                                               *)
(***************************************************************************)

(* A step keeps what lies behind the watermarks, and only Mark moves one.  *)
LEMMA MarkedStays ==
  ASSUME Base, Next
  PROVE  /\ Len(rows) <= Len(rows')
         /\ \A id \in 1 .. Len(rows) :
              /\ id \in 1 .. Len(rows') /\ rows'[id].seq = rows[id].seq
              /\ rows[id].mark <= rows'[id].mark /\ (~ Mark => rows'[id].mark = rows[id].mark)
              /\ \A p \in 1 .. rows[id].mark : Content(id)'[p] = Content(id)[p]
         /\ \A e \in indexed' : e \in indexed \/ (Commit /\ e \in Range(batch))
<1>1. FileTypes /\ Placed /\ Gathered
  BY DEF Base
<1>2. Len(rows) \in Nat /\ \A id \in 1 .. Len(rows) : rows[id] \in Row
  BY <1>1, TypesOf
<1>3. \A id \in 1 .. Len(rows) : rows[id].mark \in Nat /\ rows[id].seq \in DOMAIN disk
  BY <1>1, <1>2 DEF Row, Placed
<1> DEFINE Same == UNCHANGED <<disk, rows, indexed>>
<1>4. CASE Same
  BY <1>2, <1>3, <1>4 DEF Content
<1>5. CASE OpenOrRecover /\ OpenRows # {}
  <2>1. PICK o \in 1 .. Len(rows) :
           /\ UNCHANGED <<rows, indexed>>
           /\ \A s \in DOMAIN disk : s # rows[o].seq => disk'[s] = disk[s]
           /\ \A p \in 1 .. rows[o].mark : disk'[rows[o].seq][p] = disk[rows[o].seq][p]
    BY <1>5, ResumeFacts
  <2>2. \A id \in 1 .. Len(rows) : \A p \in 1 .. rows[id].mark :
          disk'[rows[id].seq][p] = disk[rows[id].seq][p]
    <3> TAKE id \in 1 .. Len(rows)
    <3>1. CASE rows[id].seq # rows[o].seq
      BY <1>3, <2>1, <3>1
    <3>2. CASE id = o
      BY <2>1, <3>2
    <3> QED
      BY <1>1, <3>1, <3>2 DEF Placed
  <2> QED
    BY <1>2, <1>3, <2>1, <2>2 DEF Content
<1>6. CASE Write
  <2>1. /\ UNCHANGED <<rows, indexed>> /\ writer.seq \in DOMAIN disk
        /\ writer.id \in 1 .. Len(rows) /\ rows[writer.id].seq = writer.seq
        /\ \A s \in DOMAIN disk : s # writer.seq => disk'[s] = disk[s]
        /\ Len(disk[writer.seq]) = writer.off
        /\ \A p \in 1 .. writer.off : disk'[writer.seq][p] = disk[writer.seq][p]
    BY <1>6, WriteFacts
  <2>2. \A id \in 1 .. Len(rows) : \A p \in 1 .. rows[id].mark :
          disk'[rows[id].seq][p] = disk[rows[id].seq][p]
    <3> TAKE id \in 1 .. Len(rows)
    <3>1. CASE rows[id].seq # writer.seq
      BY <1>3, <2>1, <3>1
    <3>2. CASE rows[id].seq = writer.seq
      <4>1. rows[id].mark <= writer.off /\ writer.off \in Nat /\ rows[id].mark \in Nat
        BY <1>1, <1>3, <2>1, <3>2, TypesOf DEF Placed, Content
      <4> QED
        BY <2>1, <3>2, <4>1
    <3> QED
      BY <3>1, <3>2
  <2> QED
    BY <1>2, <1>3, <2>1, <2>2 DEF Content
<1>7. CASE Commit
  BY <1>2, <1>3, <1>7 DEF Content, Commit
<1>8. CASE Mark
  <2>1. /\ Len(rows') = Len(rows) /\ UNCHANGED <<disk, indexed>>
        /\ \A id \in 1 .. Len(rows) : rows'[id].seq = rows[id].seq /\ rows[id].mark <= rows'[id].mark
    BY <1>8, MarkFacts
  <2> QED
    BY <1>2, <1>3, <1>8, <2>1 DEF Content
<1>9. CASE Seal
  <2>1. /\ Len(rows') = Len(rows) /\ UNCHANGED <<disk, indexed>>
        /\ \A id \in 1 .. Len(rows) : rows'[id].seq = rows[id].seq /\ rows[id].mark = rows'[id].mark
    BY <1>9, SealFacts
  <2> QED
    BY <1>2, <1>3, <1>9, <2>1 DEF Content
<1>10. CASE Create
  <2>1. UNCHANGED <<rows, indexed>> /\ \A s \in DOMAIN disk : disk'[s] = disk[s]
    BY <1>10, CreateFacts
  <2> QED
    BY <1>2, <1>3, <2>1 DEF Content
<1>11. CASE Insert
  <2>1. /\ UNCHANGED <<disk, indexed>> /\ Len(rows') = Len(rows) + 1
        /\ \A id \in 1 .. Len(rows) : rows'[id] = rows[id]
    BY <1>11, InsertFacts
  <2> QED
    BY <1>2, <1>3, <2>1 DEF Content
<1>12. (OpenOrRecover /\ OpenRows = {}) \/ Push \/ Finish \/ Reserve \/ Crash \/ Panic
         \/ Fail \/ AlreadyExists => Same
  BY DEF OpenOrRecover, Push, Finish, Reserve, Crash, Panic, Die, Fail, AlreadyExists
<1> QED
  BY <1>4, <1>5, <1>6, <1>7, <1>8, <1>9, <1>10, <1>11, <1>12 DEF Next, Work

(* Every record behind a watermark is the one its idx was indexed as.      *)
IndexedTruly ==
  \A e \in indexed : e.off < rows[e.id].mark => Content(e.id)[e.off + 1] = e.n

(* What is gathered is in the file where the batch says.                   *)
LEMMA GatheredTruly ==
  ASSUME Base, NEW e \in Range(batch)
  PROVE  Content(e.id)[e.off + 1] = e.n
<1>1. e.id = writer.id /\ disk[writer.seq][e.off + 1] = e.n
  BY DEF Base, Gathered
<1>2. batch # <<>>
  BY TypesOf DEF Base
<1>3. rows[writer.id].seq = writer.seq
  BY <1>2 DEF Base, Gathered, Placed
<1> QED
  BY <1>1, <1>3 DEF Content

(* Except for Mark, no step takes anything behind a watermark.             *)
LEMMA TrulyStays ==
  ASSUME Base, Next, IndexedTruly, ~ Mark
  PROVE  IndexedTruly'
<1> SUFFICES ASSUME NEW e \in indexed', e.off < rows'[e.id].mark
             PROVE  Content(e.id)'[e.off + 1] = e.n
  BY DEF IndexedTruly
<1>1. e \in indexed \/ e \in Range(batch)
  BY MarkedStays
<1>2. e \in Entry /\ e.id \in 1 .. Len(rows)
  <2>1. CASE e \in indexed
    BY <2>1 DEF Base, FileTypes, Gathered
  <2>2. CASE e \in Range(batch)
    <3>1. batch # <<>> /\ e \in Entry /\ e.id = writer.id
      BY <2>2, TypesOf DEF Base, Gathered
    <3> QED
      BY <3>1 DEF Base, Gathered, Placed
  <2> QED
    BY <1>1, <2>1, <2>2
<1>3. /\ rows'[e.id].mark = rows[e.id].mark
      /\ \A p \in 1 .. rows[e.id].mark : Content(e.id)'[p] = Content(e.id)[p]
  BY <1>2, MarkedStays
<1>4. e.off + 1 \in 1 .. rows[e.id].mark
  <2>1. e.off \in Nat /\ rows[e.id].mark \in Nat
    BY <1>2, TypesOf DEF Base, Entry, Row
  <2> QED
    BY <1>3, <2>1
<1>5. Content(e.id)[e.off + 1] = e.n
  BY <1>1, <1>3, GatheredTruly DEF IndexedTruly
<1> QED
  BY <1>3, <1>4, <1>5

(* Where no step between the index and the watermark fails or is the       *)
(* last: all that is indexed lies behind a watermark or is gathered.       *)
Unbroken == "Mark" \notin faults.failAt \cup faults.crashAt

(* All that is indexed lies behind a watermark, or the handler is about to *)
(* move the watermark past it.                                             *)
Settled ==
  \A e \in indexed : e.off < rows[e.id].mark \/ (At("Mark") /\ e \in Range(batch))

(* What may go wrong stays the same in a behaviour.                        *)
LEMMA FaultsStay ==
  ASSUME Base, Next
  PROVE  faults'.failAt = faults.failAt /\ faults'.crashAt = faults.crashAt
<1>1. CASE Crash \/ Panic
  BY <1>1, DieFacts
<1>2. CASE Fail \/ AlreadyExists
  BY <1>2, AbandonFacts
<1>3. OpenOrRecover \/ Push \/ Finish \/ Reserve \/ Write \/ Commit \/ Mark \/ Seal \/ Create \/ Insert
        => UNCHANGED faults
  BY DEF OpenOrRecover, Push, Finish, Reserve, Write, Commit, Mark, Seal, Create, Insert
<1> QED
  BY <1>1, <1>2, <1>3 DEF Next, Work

(* From the index to the watermark there is one step, which neither fails  *)
(* nor is the last.                                                        *)
LEMMA SettledKeeps ==
  ASSUME Base, Next, Unbroken, Settled, IndexedTruly
  PROVE  Settled' /\ IndexedTruly'
<1>1. \A e \in indexed : e \in Entry /\ e.id \in 1 .. Len(rows)
  BY DEF Base, FileTypes, Gathered
<1>2. ASSUME ~ At("Mark") PROVE Settled' /\ IndexedTruly'
  <2>1. ~ Mark
    BY <1>2 DEF Mark
  <2>2. IndexedTruly'
    BY <2>1, TrulyStays
  <2>3. Commit => At("Mark")' /\ UNCHANGED batch
    <3> SUFFICES ASSUME Commit PROVE At("Mark")' /\ UNCHANGED batch
      OBVIOUS
    <3>1. At("Commit") /\ todo # <<>> /\ todo' = Tail(todo) /\ UNCHANGED batch
      BY DEF Commit, At
    <3>2. Begins(todo', "Mark")
      BY <3>1, AtStep DEF Base
    <3> QED
      BY <3>1, <3>2 DEF At, Begins
  <2>4. Settled'
    <3> SUFFICES ASSUME NEW e \in indexed'
                 PROVE  e.off < rows'[e.id].mark \/ (At("Mark")' /\ e \in Range(batch'))
      BY DEF Settled
    <3>1. CASE e \in indexed
      BY <1>1, <1>2, <2>1, <3>1, MarkedStays DEF Settled
    <3>2. CASE Commit /\ e \in Range(batch)
      BY <2>3, <3>2
    <3> QED
      BY <3>1, <3>2, MarkedStays
  <2> QED
    BY <2>2, <2>4
<1>3. CASE Mark
  <2>1. /\ \A id \in 1 .. Len(rows) : rows'[id].seq = rows[id].seq /\ rows[id].mark <= rows'[id].mark
        /\ UNCHANGED <<disk, indexed>>
        /\ batch # <<>> => /\ writer.id \in 1 .. Len(rows) /\ rows'[writer.id].mark = writer.off
                           /\ \A e \in Range(batch) : e.id = writer.id /\ e.off < writer.off
    BY <1>3, MarkFacts
  <2>2. \A id \in 1 .. Len(rows) : Content(id)' = Content(id)
    BY <2>1 DEF Content
  <2>3. \A e \in indexed : e.off < rows'[e.id].mark
    <3> TAKE e \in indexed
    <3>1. CASE e.off < rows[e.id].mark
      <4>1. e.off \in Nat /\ rows[e.id].mark \in Nat /\ e.id \in 1 .. Len(rows)
        BY <1>1, TypesOf DEF Base, Entry, Row
      <4>2. rows'[e.id].mark \in Nat
        <5>1. rows' \in Seq(Row) /\ Len(rows') = Len(rows)
          BY <1>3, MarkFacts
        <5>2. rows'[e.id] \in Row
          BY <4>1, <5>1, ElementOfSeq
        <5> QED
          BY <5>2 DEF Row
      <4> QED
        BY <2>1, <3>1, <4>1, <4>2
    <3>2. CASE e \in Range(batch)
      <4>1. batch # <<>>
        BY <3>2, TypesOf DEF Base
      <4> QED
        BY <2>1, <3>2, <4>1
    <3> QED
      BY <3>1, <3>2 DEF Settled
  <2>4. \A e \in indexed : Content(e.id)'[e.off + 1] = e.n
    <3> TAKE e \in indexed
    <3>1. Content(e.id)[e.off + 1] = e.n
      BY GatheredTruly DEF Settled, IndexedTruly
    <3> QED
      BY <1>1, <2>2, <3>1
  <2> QED
    BY <2>1, <2>3, <2>4 DEF Settled, IndexedTruly
<1>4. ASSUME At("Mark"), ~ Mark PROVE Settled' /\ IndexedTruly'
  <2>1. todo # <<>> /\ Head(todo) = "Mark"
    BY <1>4 DEF At
  <2>2. FALSE
    <3>1. ~ Crash /\ ~ Fail
      BY <2>1 DEF Crash, Fail, Unbroken, Idle
    <3> QED
      BY <1>4, <2>1, <3>1
         DEF Next, Work, OpenOrRecover, Push, Finish, Idle, Reserve, Write, Commit, Seal, Create,
             Insert, AlreadyExists, Panic, At
  <2> QED
    BY <2>2
<1> QED
  BY <1>2, <1>3, <1>4

-----------------------------------------------------------------------------
(***************************************************************************)
(* A file is left behind its watermark, if no step fails.                  *)
(***************************************************************************)

(* Where no step fails: the open row is the one at hand and the newest     *)
(* file, and a sealed file lies behind its watermark.                      *)
Reached ==
  /\ \A id \in 1 .. Len(rows) : rows[id].state = "Sealed" => rows[id].mark = Len(Content(id))
  /\ writer.file /\ batch = <<>> => rows[writer.id].mark = writer.off
  /\ writer.up /\ ~ Opening => writer.file /\ rows[writer.id].state = "Open"
  /\ writer.up => /\ rows # <<>> /\ \A s \in DOMAIN disk : s <= writer.seq
                  /\ At("Create") => writer.seq \notin DOMAIN disk
  /\ ~ writer.up => writer = Down /\ (todo = <<>> \/ Opening)
  /\ ~ writer.up /\ At("Insert") => DOMAIN disk = {0}
  /\ \A id \in OpenRows : \A s \in DOMAIN disk : s <= rows[id].seq
  /\ Opening => OpenRows = {}
  /\ DOMAIN disk = {} \/ 0 \in DOMAIN disk

(* The first state.                                                        *)
LEMMA InitIsReached == Init => Reached
<1> SUFFICES ASSUME Init PROVE Reached
  OBVIOUS
<1>1. DOMAIN disk = {} /\ rows = <<>> /\ writer = Down /\ todo = <<>>
  BY DEF Init
<1>2. Len(rows) = 0
  BY <1>1, EmptySeq
<1>3. ~ writer.up /\ ~ writer.file
  BY <1>1 DEF Down
<1>4. OpenRows = {}
  BY <1>2 DEF OpenRows
<1> QED
  BY <1>1, <1>2, <1>3, <1>4 DEF Reached, Opening, At

(* A row is open or sealed.                                                *)
LEMMA OpenRowsAre ==
  ASSUME Base
  PROVE  /\ \A id : id \in OpenRows <=> id \in 1 .. Len(rows) /\ rows[id].state # "Sealed"
         /\ \A id : id \in OpenRows <=> id \in 1 .. Len(rows) /\ rows[id].state = "Open"
         /\ (rows = <<>>) <=> Len(rows) = 0
<1>1. \A id \in 1 .. Len(rows) : rows[id].state \in {"Open", "Sealed"}
  BY TypesOf DEF Base, Row
<1>2. (rows = <<>>) <=> Len(rows) = 0
  BY RangeIs DEF Base, FileTypes
<1> QED
  BY <1>1, <1>2 DEF OpenRows

(* What cannot happen where no step fails.                                 *)
LEMMA NothingFails ==
  ASSUME Base, Reached, faults.failAt = {}
  PROVE  /\ ~ Fail /\ ~ Panic /\ (AlreadyExists => ~ writer.up)
         /\ Write \/ Mark \/ Commit \/ Seal \/ Reserve
              => /\ writer.up /\ ~ Opening /\ writer.file /\ writer.id \in 1 .. Len(rows)
                 /\ rows[writer.id].seq = writer.seq
                 /\ OpenRows = {writer.id}
<1>1. ~ Fail
  BY DEF Fail
<1>2. \A step \in {"Write", "Mark", "Commit", "Seal", "Reserve"} : At(step) =>
        /\ writer.up /\ ~ Opening /\ writer.file /\ writer.id \in 1 .. Len(rows)
        /\ rows[writer.id].state = "Open" /\ rows[writer.id].seq = writer.seq
  <2> TAKE step \in {"Write", "Mark", "Commit", "Seal", "Reserve"}
  <2>1. At(step) => ~ Opening /\ todo # <<>>
    BY DEF At, Opening
  <2> QED
    BY <2>1 DEF Reached, Base, Placed
<1>3. Write \/ Mark \/ Commit \/ Seal \/ Reserve
        => \E step \in {"Write", "Mark", "Commit", "Seal", "Reserve"} : At(step)
  BY DEF Write, Mark, Commit, Seal, Reserve
<1>4. ~ Panic
  BY <1>2 DEF Panic
<1>5. AlreadyExists => ~ writer.up
  BY DEF AlreadyExists, Reached
<1>6. writer.id \in 1 .. Len(rows) /\ rows[writer.id].state = "Open" => OpenRows = {writer.id}
  BY DEF Base, Inv, Ownership, Owned, OpenRows
<1> QED
  BY <1>1, <1>2, <1>3, <1>4, <1>5, <1>6

(* Recovery, where no step fails.                                          *)
LEMMA ResumeReached ==
  ASSUME Base, Reached, OpenOrRecover, OpenRows # {}
  PROVE  Reached'
<1>1. FileTypes /\ Placed /\ Gathered
  BY DEF Base
<1>2. PICK o \in 1 .. Len(rows) :
           /\ OpenRows = {o} /\ rows[o].state = "Open"
           /\ writer'.up /\ writer'.file /\ writer'.seq = rows[o].seq /\ writer'.id = o
           /\ writer'.off = rows[o].mark
           /\ todo' = <<>> /\ UNCHANGED <<rows, batch, indexed, next, faults>>
           /\ DOMAIN disk' = DOMAIN disk
           /\ \A s \in DOMAIN disk : s # rows[o].seq => disk'[s] = disk[s]
           /\ Len(disk'[rows[o].seq]) = rows[o].mark
  BY ResumeFacts
<1>3. ~ Opening' /\ \A step : ~ At(step)'
  BY <1>2, EndedAsks
<1>4. \A id \in 1 .. Len(rows) : rows[id].state = "Sealed" => rows[id].mark = Len(disk'[rows[id].seq])
  <2> TAKE id \in 1 .. Len(rows)
  <2>1. CASE id = o
    BY <1>2, <2>1
  <2>2. CASE id # o
    <3>1. rows[id].seq # rows[o].seq /\ rows[id].seq \in DOMAIN disk
      BY <1>1, <2>2 DEF Placed
    <3>2. disk'[rows[id].seq] = disk[rows[id].seq]
      BY <1>2, <3>1
    <3> QED
      BY <3>2 DEF Reached, Content
  <2> QED
    BY <2>1, <2>2
<1>5. OpenRows' = OpenRows
  BY <1>2 DEF OpenRows
<1>6. rows # <<>> /\ \A s \in DOMAIN disk : s <= rows[o].seq
  BY <1>2, OpenRowsAre DEF Reached
<1> QED
  BY <1>2, <1>3, <1>4, <1>5, <1>6 DEF Reached, Content

(* A handler that begins, where no step fails.                             *)
LEMMA BeginReached ==
  ASSUME Base, Reached, (OpenOrRecover /\ OpenRows = {}) \/ Push \/ Finish \/ AlreadyExists
  PROVE  Reached' \/ (AlreadyExists /\ writer.up)
<1>1. /\ UNCHANGED <<disk, rows, writer>>
      /\ UNCHANGED batch \/ AlreadyExists
      /\ \/ todo' = <<"Create", "Insert">> /\ ~ writer.up /\ OpenRows = {}
         \/ (Push \/ Finish) /\ writer.up
         \/ todo' = <<>> /\ AlreadyExists
  BY DEF OpenOrRecover, Recover, Push, Finish, AlreadyExists, Abandoned
<1>2. OpenRows' = OpenRows
  BY <1>1 DEF OpenRows
<1>3. Push \/ Finish => /\ todo = <<>> /\ ~ At("Create")' /\ ~ At("Insert")' /\ ~ Opening /\ ~ Opening'
  <2> SUFFICES ASSUME Push \/ Finish
               PROVE  todo = <<>> /\ ~ At("Create")' /\ ~ At("Insert")'
    BY DEF Opening, At
  <2>1. todo' \in {Flushing \o Rotation, (Flushing \o Rotation) \o <<"Reserve", "Write">>,
                   <<>> \o <<"Reserve", "Write">>}
    BY DEF Push, Finish
  <2>2. Begins(todo', "Commit") \/ Begins(todo', "Seal") \/ Begins(todo', "Reserve")
    BY <2>1, PlansBegun, Zenon
  <2> QED
    BY <2>2 DEF At, Begins, Push, Finish, Idle
<1>4. CASE Push \/ Finish
  <2>1. UNCHANGED batch /\ writer.up
    BY <1>4 DEF Push, Finish
  <2> QED
    BY <1>1, <1>2, <1>3, <1>4, <2>1 DEF Reached, Content
<1>5. CASE todo' = <<"Create", "Insert">> /\ ~ writer.up /\ OpenRows = {} /\ UNCHANGED batch
  <2>1. At("Create")' /\ ~ At("Insert")' /\ Opening'
    <3>1. Begins(todo', "Create")
      BY <1>5, PlansBegun
    <3> QED
      BY <3>1 DEF Begins, At, Opening
  <2> QED
    BY <1>1, <1>2, <1>5, <2>1 DEF Reached, Content
<1>6. CASE AlreadyExists /\ ~ writer.up
  <2>1. UNCHANGED batch /\ todo' = <<>> /\ Opening
    BY <1>6, AbandonFacts DEF Opening
  <2>2. ~ Opening' /\ \A step : ~ At(step)'
    BY <2>1, EndedAsks
  <2> QED
    BY <1>1, <1>2, <1>6, <2>1, <2>2 DEF Reached, Content
<1>7. (OpenOrRecover /\ OpenRows = {}) => todo' = <<"Create", "Insert">> /\ ~ writer.up /\ UNCHANGED batch
  BY DEF OpenOrRecover, Recover
<1> QED
  BY <1>4, <1>5, <1>6, <1>7

(* Steps that only go on to the next, where no step fails.                 *)
LEMMA ReserveReached ==
  ASSUME Base, Reached, Reserve \/ Commit, faults.failAt = {}
  PROVE  Reached'
<1>1. FileTypes /\ Placed /\ Gathered
  BY DEF Base
<1>2. /\ UNCHANGED <<disk, rows, writer, batch>>
      /\ writer.up /\ ~ Opening /\ OpenRows' = OpenRows
  BY NothingFails DEF Reserve, Commit, OpenRows
<1>3. ~ At("Create")' /\ ~ At("Insert")'
  <2>1. CASE Reserve
    <3>1. Tail(todo) = <<"Write">>
      <4>1. At("Reserve") /\ todo # <<>>
        BY <2>1 DEF Reserve, At
      <4> QED
        BY <1>1, <4>1, AtStep
    <3>2. todo' = Rotation \o <<"Write">> \/ todo' = <<>> \o <<"Write">>
      BY <2>1, <3>1 DEF Reserve
    <3>3. Begins(todo', "Seal") \/ Begins(todo', "Write")
      BY <3>2, PlansBegun
    <3> QED
      BY <3>3 DEF At, Begins
  <2>2. CASE Commit
    <3>1. At("Commit") /\ todo # <<>> /\ todo' = Tail(todo)
      BY <2>2 DEF Commit, At
    <3>2. Begins(todo', "Mark")
      BY <1>1, <3>1, AtStep
    <3> QED
      BY <3>2 DEF At, Begins
  <2> QED
    BY <2>1, <2>2
<1> QED
  BY <1>2, <1>3 DEF Reached, Content, Opening

(* An append, where no step fails.                                         *)
LEMMA WriteReached ==
  ASSUME Base, Reached, Write, faults.failAt = {}
  PROVE  Reached'
<1>1. FileTypes /\ Placed /\ Gathered
  BY DEF Base
<1>2. /\ writer.seq \in DOMAIN disk /\ DOMAIN disk' = DOMAIN disk
      /\ \A s \in DOMAIN disk : s # writer.seq => disk'[s] = disk[s]
      /\ writer'.up = writer.up /\ writer'.file = writer.file /\ writer'.id = writer.id
      /\ writer'.seq = writer.seq
      /\ batch' # <<>>
      /\ todo' \in {<<>>, <<"Commit", "Mark">>} /\ UNCHANGED rows
  BY WriteFacts
<1>3. /\ writer.up /\ ~ Opening /\ writer.file /\ writer.id \in 1 .. Len(rows)
      /\ rows[writer.id].seq = writer.seq /\ OpenRows = {writer.id} /\ OpenRows' = OpenRows
  BY <1>2, NothingFails DEF OpenRows
<1>4. ~ At("Create")' /\ ~ At("Insert")' /\ ~ Opening'
  <2>1. todo' = <<>> \/ Begins(todo', "Commit")
    BY <1>2, PlansBegun
  <2> QED
    BY <2>1 DEF At, Begins, Opening
<1>5. \A id \in 1 .. Len(rows) : rows[id].state = "Sealed" => rows[id].mark = Len(disk'[rows[id].seq])
  <2> SUFFICES ASSUME NEW id \in 1 .. Len(rows), rows[id].state = "Sealed"
               PROVE  rows[id].mark = Len(disk'[rows[id].seq])
    OBVIOUS
  <2>1. id # writer.id
    BY <1>3, OpenRowsAre
  <2>2. rows[id].seq # writer.seq /\ rows[id].seq \in DOMAIN disk
    BY <1>1, <1>3, <2>1 DEF Placed
  <2>3. disk'[rows[id].seq] = disk[rows[id].seq]
    BY <1>2, <2>2
  <2> QED
    BY <2>3 DEF Reached, Content
<1> QED
  BY <1>2, <1>3, <1>4, <1>5 DEF Reached, Content

(* A commit moves the watermark to the end of the file, where no step      *)
(* fails.                                                                  *)
LEMMA MarkReached ==
  ASSUME Base, Reached, Mark, faults.failAt = {}
  PROVE  Reached'
<1>1. FileTypes /\ Placed /\ Gathered
  BY DEF Base
<1>2. /\ Len(rows') = Len(rows) /\ rows' \in Seq(Row)
      /\ \A id \in 1 .. Len(rows) :
           /\ rows'[id].seq = rows[id].seq /\ rows'[id].state = rows[id].state
           /\ (batch # <<>> /\ id = writer.id) \/ rows'[id].mark = rows[id].mark
      /\ batch # <<>> => rows'[writer.id].mark = writer.off
      /\ batch' = <<>> /\ todo # <<>> /\ At("Mark") /\ todo' = Tail(todo)
      /\ UNCHANGED <<disk, writer>>
  BY MarkFacts
<1>3. /\ writer.up /\ ~ Opening /\ writer.file /\ writer.id \in 1 .. Len(rows)
      /\ OpenRows = {writer.id}
  BY NothingFails
<1>4. OpenRows' = OpenRows
  BY <1>2 DEF OpenRows
<1>5. ~ At("Create")' /\ ~ At("Insert")' /\ ~ Opening'
  <2>1. todo' = <<>> \/ Begins(todo', "Seal")
    BY <1>1, <1>2, AtStep
  <2> QED
    BY <2>1 DEF At, Begins, Opening
<1>6. \A id \in 1 .. Len(rows) : rows'[id].state = "Sealed" => rows'[id].mark = Len(disk[rows[id].seq])
  <2> SUFFICES ASSUME NEW id \in 1 .. Len(rows), rows[id].state = "Sealed"
               PROVE  rows'[id].mark = Len(disk[rows[id].seq])
    BY <1>2
  <2>1. id # writer.id
    BY <1>3, OpenRowsAre
  <2> QED
    BY <1>2, <2>1 DEF Reached, Content
<1>7. rows'[writer.id].mark = writer.off
  BY <1>2, <1>3 DEF Reached
<1>8. rows' # <<>>
  BY <1>2, <1>3, RangeIs
<1> QED
  BY <1>2, <1>3, <1>4, <1>5, <1>6, <1>7, <1>8 DEF Reached, Content

(* A file is sealed behind its watermark: the batch is empty at the seal.  *)
LEMMA SealReached ==
  ASSUME Base, Reached, Seal, faults.failAt = {}
  PROVE  Reached'
<1>1. FileTypes /\ Placed /\ Gathered
  BY DEF Base
<1>2. /\ rows' \in Seq(Row) /\ Len(rows') = Len(rows)
      /\ \A id \in 1 .. Len(rows) :
           /\ rows'[id].seq = rows[id].seq /\ rows'[id].mark = rows[id].mark
           /\ id # writer.id => rows'[id].state = rows[id].state
      /\ ~ writer'.file /\ writer'.up = writer.up /\ writer'.seq = writer.seq + 1
      /\ batch = <<>> /\ todo # <<>> /\ At("Seal") /\ todo' = Tail(todo)
      /\ OpenRows' = {} /\ UNCHANGED disk
  BY SealFacts
<1>3. /\ writer.up /\ writer.file /\ writer.id \in 1 .. Len(rows) /\ rows[writer.id].seq = writer.seq
  BY NothingFails
<1>4. At("Create")' /\ ~ At("Insert")' /\ Opening'
  <2>1. Begins(todo', "Create")
    BY <1>1, <1>2, AtStep
  <2> QED
    BY <2>1 DEF At, Begins, Opening
<1>5. rows[writer.id].mark = Len(disk[writer.seq])
  BY <1>1, <1>2, <1>3 DEF Reached, Placed
<1>6. \A id \in 1 .. Len(rows) : rows'[id].state = "Sealed" => rows'[id].mark = Len(disk[rows[id].seq])
  <2> TAKE id \in 1 .. Len(rows)
  <2>1. CASE id = writer.id
    BY <1>2, <1>3, <1>5, <2>1
  <2>2. CASE id # writer.id
    BY <1>2, <2>2 DEF Reached, Content
  <2> QED
    BY <2>1, <2>2
<1>7. rows' # <<>>
  BY <1>2, <1>3, RangeIs
<1>8. \A s \in DOMAIN disk : s <= writer.seq /\ s \in Nat /\ writer.seq \in Nat
  BY <1>1, <1>3, TypesOf DEF Reached
<1>9. (\A s \in DOMAIN disk : s <= writer.seq + 1) /\ writer.seq + 1 \notin DOMAIN disk
  BY <1>8
<1> QED
  BY <1>2, <1>3, <1>4, <1>6, <1>7, <1>9 DEF Reached, Content

(* A file that is created is the newest.                                   *)
LEMMA CreateReached ==
  ASSUME Base, Reached, Create
  PROVE  Reached'
<1>1. FileTypes /\ Placed /\ Gathered
  BY DEF Base
<1>2. /\ writer.seq \notin DOMAIN disk /\ DOMAIN disk' = DOMAIN disk \cup {writer.seq}
      /\ \A s \in DOMAIN disk : disk'[s] = disk[s]
      /\ todo # <<>> /\ At("Create") /\ todo' = Tail(todo) /\ Opening /\ ~ writer.file
      /\ UNCHANGED <<rows, writer, batch>>
  BY CreateFacts
<1>3. ~ At("Create")' /\ At("Insert")' /\ Opening'
  <2>1. Begins(todo', "Insert")
    BY <1>1, <1>2, AtStep
  <2> QED
    BY <2>1 DEF At, Begins, Opening
<1>4. OpenRows' = OpenRows /\ OpenRows = {}
  BY <1>2 DEF OpenRows, Reached
<1>5. \A id \in 1 .. Len(rows) : rows[id].state = "Sealed" => rows[id].mark = Len(disk'[rows[id].seq])
  BY <1>1, <1>2 DEF Reached, Placed, Content
<1>6. CASE writer.up
  <2>1. DOMAIN disk # {}
    <3>1. 1 \in 1 .. Len(rows)
      BY <1>1, <1>6, TypesOf, OpenRowsAre DEF Reached
    <3> QED
      BY <1>1, <3>1 DEF Placed
  <2>2. 0 \in DOMAIN disk'
    BY <1>2, <2>1 DEF Reached
  <2>3. \A s \in DOMAIN disk' : s <= writer.seq
    BY <1>1, <1>2, <1>6, TypesOf DEF Reached
  <2> QED
    BY <1>2, <1>3, <1>4, <1>5, <1>6, <2>2, <2>3 DEF Reached, Content
<1>7. CASE ~ writer.up
  <2>1. writer = Down /\ writer.seq = 0
    BY <1>7 DEF Reached, Down
  <2>2. DOMAIN disk' = {0}
    BY <1>2, <2>1 DEF Reached
  <2> QED
    BY <1>2, <1>3, <1>4, <1>5, <1>7, <2>1, <2>2 DEF Reached, Content
<1> QED
  BY <1>6, <1>7

(* The row of the newest file is the open one.                             *)
LEMMA InsertReached ==
  ASSUME Base, Reached, Insert
  PROVE  Reached'
<1>1. FileTypes /\ Placed /\ Gathered
  BY DEF Base
<1>2. /\ rows' \in Seq(Row) /\ Len(rows') = Len(rows) + 1
      /\ \A id \in 1 .. Len(rows) : rows'[id] = rows[id]
      /\ rows'[Len(rows) + 1].seq = writer.seq /\ rows'[Len(rows) + 1].mark = 0
      /\ rows'[Len(rows) + 1].state = "Open"
      /\ writer'.up /\ writer'.file /\ writer'.id = Len(rows) + 1
      /\ writer'.seq = writer.seq /\ writer'.off = 0
      /\ todo # <<>> /\ At("Insert") /\ todo' = Tail(todo) /\ Opening
      /\ OpenRows' = {Len(rows) + 1}
      /\ UNCHANGED <<disk, batch>>
  BY InsertFacts
<1>3. ~ At("Create")' /\ ~ At("Insert")' /\ ~ Opening'
  <2>1. todo' = <<>> \/ Begins(todo', "Reserve") \/ Begins(todo', "Write")
    BY <1>1, <1>2, AtStep
  <2> QED
    BY <2>1 DEF At, Begins, Opening
<1>4. Len(rows) \in Nat /\ \A id : id \in 1 .. Len(rows) + 1 <=> id \in 1 .. Len(rows) \/ id = Len(rows) + 1
  BY <1>1, TypesOf
<1>5. \A id \in 1 .. Len(rows') : rows'[id].state = "Sealed" => rows'[id].mark = Len(disk[rows'[id].seq])
  BY <1>2, <1>4 DEF Reached, Content
<1>6. \A s \in DOMAIN disk : s <= writer.seq
  <2>1. CASE writer.up
    BY <2>1 DEF Reached
  <2>2. CASE ~ writer.up
    BY <1>2, <2>2 DEF Reached, Down
  <2> QED
    BY <2>1, <2>2
<1>7. rows' # <<>>
  BY <1>2, <1>4, RangeIs
<1> QED
  BY <1>2, <1>3, <1>5, <1>6, <1>7 DEF Reached, Content

(* A process that dies leaves the files as far as they are sealed.         *)
LEMMA CrashReached ==
  ASSUME Base, Reached, Crash
  PROVE  Reached'
<1>1. writer' = Down /\ batch' = <<>> /\ todo' = <<>> /\ UNCHANGED <<disk, rows>>
  BY DieFacts
<1>2. ~ Opening' /\ \A step : ~ At(step)'
  BY <1>1, EndedAsks
<1>3. OpenRows' = OpenRows /\ ~ writer'.up /\ ~ writer'.file
  BY <1>1 DEF OpenRows, Down
<1> QED
  BY <1>1, <1>2, <1>3 DEF Reached, Content

(* Each step keeps this, where no step fails.                              *)
LEMMA ReachedKeeps ==
  ASSUME Base, Reached, faults.failAt = {}, Next
  PROVE  Reached'
<1>1. CASE OpenOrRecover /\ OpenRows # {}
  BY <1>1, ResumeReached
<1>2. CASE (OpenOrRecover /\ OpenRows = {}) \/ Push \/ Finish \/ AlreadyExists
  BY <1>2, BeginReached, NothingFails
<1>3. CASE Reserve \/ Commit
  BY <1>3, ReserveReached
<1>4. CASE Write
  BY <1>4, WriteReached
<1>5. CASE Mark
  BY <1>5, MarkReached
<1>6. CASE Seal
  BY <1>6, SealReached
<1>7. CASE Create
  BY <1>7, CreateReached
<1>8. CASE Insert
  BY <1>8, InsertReached
<1>9. CASE Crash
  BY <1>9, CrashReached
<1> QED
  BY <1>1, <1>2, <1>3, <1>4, <1>5, <1>6, <1>7, <1>8, <1>9, NothingFails DEF Next, Work

-----------------------------------------------------------------------------
(***************************************************************************)
(* The course of the files: where no step fails, the records lie in the    *)
(* files one after the other, however often the process dies.              *)
(***************************************************************************)

(* Where each record begins when all are written one after the other.      *)
Laying(f, n) ==
  /\ f \in [1 .. n -> Nat]
  /\ \A k \in 1 .. n - 1 : f[k + 1] = f[k] + Records[k]
  /\ \A i, j \in 1 .. n : i < j => f[i] < f[j]

(* The place of each record when all are written one after the other.      *)
Where == CHOOSE f : Laying(f, Len(Records) + 1)

(* There is such an order of places, by the well-foundedness of the        *)
(* naturals.                                                               *)
LEMMA LayingExists == \A n \in 1 .. Len(Records) + 1 : \E f : Laying(f, n)
<1> DEFINE Bad == {n \in 1 .. Len(Records) + 1 : ~ \E f : Laying(f, n)}
<1>1. SUFFICES ASSUME Bad # {} PROVE FALSE
  OBVIOUS
<1>2. Len(Records) \in Nat /\ \A n \in 1 .. Len(Records) : Records[n] \in Nat /\ Records[n] > 0
  BY RecordsAre
<1> DEFINE R == OpToRel(<, Nat)
<1>3. \A x, y \in Nat : y < x => <<y, x>> \in R
  BY DEF OpToRel
<1>4. IsWellFoundedOn(R, Nat) /\ Bad \subseteq Nat
  <2>1. IsWellFoundedOn(R, Nat)
    BY NatLessThanWellFounded
  <2> HIDE DEF R
  <2>2. Bad \subseteq Nat
    BY <1>2
  <2> QED
    BY <2>1, <2>2
<1> HIDE DEF R
<1>5. PICK m \in Bad : \A k \in Bad : ~ (<<k, m>> \in R)
  <2> HIDE DEF Bad
  <2> QED
    BY <1>1, <1>4, WFMin
<1>6. m \in 1 .. Len(Records) + 1 /\ ~ \E f : Laying(f, m)
  OBVIOUS
<1>7. m # 1
  <2> DEFINE f == [k \in 1 .. 1 |-> 0]
  <2>1. Laying(f, 1)
    BY DEF Laying
  <2> QED
    BY <1>6, <2>1
<1>8. m - 1 \in 1 .. Len(Records) /\ m - 1 \in Nat /\ m \in Nat
  BY <1>2, <1>6, <1>7
<1>9. m - 1 \notin Bad
  <2>1. m - 1 < m
    BY <1>8
  <2>2. <<m - 1, m>> \in R
    BY <1>3, <1>8, <2>1
  <2> HIDE DEF Bad
  <2> QED
    BY <1>5, <2>2
<1>10. PICK f : Laying(f, m - 1)
  BY <1>2, <1>8, <1>9
<1> DEFINE last == f[m - 1] + Records[m - 1]
           g == [k \in 1 .. m |-> IF k = m THEN last ELSE f[k]]
<1>11. f[m - 1] \in Nat /\ last \in Nat /\ f[m - 1] < last
  BY <1>2, <1>8, <1>10 DEF Laying
<1>12. \A k \in 1 .. m : k = m \/ k \in 1 .. m - 1
  BY <1>8
<1>13. \A i, j \in 1 .. m : i < j => g[i] < g[j]
  <2> SUFFICES ASSUME NEW i \in 1 .. m, NEW j \in 1 .. m, i < j PROVE g[i] < g[j]
    OBVIOUS
  <2>1. i \in 1 .. m - 1 /\ g[i] = f[i] /\ f[i] \in Nat
    BY <1>8, <1>10 DEF Laying
  <2>2. CASE j = m
    <3>1. f[i] <= f[m - 1]
      <4>1. i = m - 1 \/ i < m - 1
        BY <1>8, <2>1
      <4>2. m - 1 \in 1 .. m - 1
        BY <1>8
      <4> QED
        BY <1>10, <1>11, <2>1, <4>1, <4>2 DEF Laying
    <3> HIDE DEF last
    <3> QED
      BY <1>11, <2>1, <2>2, <3>1
  <2>3. CASE j # m
    <3>1. j \in 1 .. m - 1 /\ g[j] = f[j]
      BY <1>12, <2>3
    <3> QED
      BY <1>10, <2>1, <3>1 DEF Laying
  <2> QED
    BY <2>2, <2>3
<1>14. \A k \in 1 .. m - 1 : g[k + 1] = g[k] + Records[k]
  <2> TAKE k \in 1 .. m - 1
  <2>1. k + 1 \in 1 .. m /\ g[k] = f[k]
    BY <1>8
  <2>2. CASE k = m - 1
    BY <1>8, <2>1, <2>2
  <2>3. CASE k # m - 1
    <3>1. k \in 1 .. m - 1 - 1 /\ g[k + 1] = f[k + 1]
      BY <1>8, <2>1, <2>3
    <3> QED
      BY <1>10, <2>1, <3>1 DEF Laying
  <2> QED
    BY <2>2, <2>3
<1>15. g \in [1 .. m -> Nat]
  BY <1>10, <1>11, <1>12 DEF Laying
<1> HIDE DEF g
<1> QED
  BY <1>6, <1>13, <1>14, <1>15 DEF Laying

(* The places grow with the records.                                       *)
LEMMA WhereIs ==
  /\ \A n \in 1 .. Len(Records) + 1 : Where[n] \in Nat
  /\ \A n \in 1 .. Len(Records) : Where[n + 1] = Where[n] + Records[n]
  /\ \A i, j \in 1 .. Len(Records) + 1 : i < j => Where[i] < Where[j]
  /\ \A i, j \in 1 .. Len(Records) + 1 : Where[i] < Where[j] => i < j
<1>1. Laying(Where, Len(Records) + 1)
  <2>1. Len(Records) + 1 \in 1 .. Len(Records) + 1
    BY RecordsAre
  <2>2. \E f : Laying(f, Len(Records) + 1)
    BY <2>1, LayingExists
  <2> QED
    BY <2>2, Zenon DEF Where
<1>2. Len(Records) + 1 - 1 = Len(Records) /\ Len(Records) \in Nat
  BY RecordsAre
<1>3. \A n \in 1 .. Len(Records) + 1 : Where[n] \in Nat
  BY <1>1 DEF Laying
<1>4. \A i, j \in 1 .. Len(Records) + 1 : i < j => Where[i] < Where[j]
  BY <1>1 DEF Laying
<1>5. \A i, j \in 1 .. Len(Records) + 1 : Where[i] < Where[j] => i < j
  <2> TAKE i, j \in 1 .. Len(Records) + 1
  <2>1. i \in Nat /\ j \in Nat /\ Where[i] \in Nat /\ Where[j] \in Nat
    BY <1>2, <1>3
  <2>2. i = j \/ i < j \/ j < i
    BY <2>1
  <2>3. j < i => Where[j] < Where[i]
    BY <1>4
  <2> QED
    BY <2>1, <2>2, <2>3
<1> QED
  BY <1>1, <1>2, <1>3, <1>4, <1>5 DEF Laying

(* The unit at p of a file that begins with record b.                      *)
Laid(content, b) ==
  \A p \in 1 .. Len(content) :
    /\ content[p] \in b .. Len(Records)
    /\ Where[content[p]] < p + Where[b] /\ p + Where[b] <= Where[content[p] + 1]

(* No file is open and none will be.                                       *)
Stuck == OpenRows = {} /\ ~ writer.up /\ ~ At("Insert") /\ 0 \in DOMAIN disk

(* The open file begins with record b and goes on with those that follow,  *)
(* those before b are in files that are sealed, and the source goes on     *)
(* with what is neither committed nor gathered.                            *)
Course(b) ==
  /\ \A o \in OpenRows :
       /\ b <= next - Len(batch) /\ rows[o].mark = Where[next - Len(batch)] - Where[b]
       /\ writer.up => writer.off = Where[next] - Where[b]
       /\ Laid(Content(o), b)
       /\ \A e \in indexed : e.id = o => e.n >= b /\ e.off = Where[e.n] - Where[b]
  /\ \A e \in Range(batch) : e.n >= b /\ e.off = Where[e.n] - Where[b]
  /\ OpenRows = {} => b = next
  /\ \A r \in 1 .. Len(rows) : r \notin OpenRows =>
       \A p \in 1 .. Len(Content(r)) : Content(r)[p] < b
  /\ b > 1 => \E r \in 1 .. Len(rows) : r \notin OpenRows /\
                \E p \in 1 .. Len(Content(r)) : Content(r)[p] = b - 1

(* The files are on a course, or no file is open and none will be.         *)
Coursed == Stuck \/ \E b \in 1 .. Len(Records) + 1 : Course(b)

(* The first state.                                                        *)
LEMMA InitIsCoursed == Init => Coursed
<1> SUFFICES ASSUME Init PROVE Course(1)
  BY RecordsAre DEF Coursed
<1>1. rows = <<>> /\ next = 1 /\ batch = <<>>
  BY DEF Init
<1>2. Len(rows) = 0 /\ Range(batch) = {}
  BY <1>1, EmptySeq, PlansBegun
<1>3. OpenRows = {}
  BY <1>2 DEF OpenRows
<1> QED
  BY <1>1, <1>2, <1>3 DEF Course

(* The types of what a course speaks of.                                   *)
LEMMA CourseTypes ==
  ASSUME Base, Reached, NEW b \in 1 .. Len(Records) + 1, Course(b)
  PROVE  /\ b \in Nat /\ next \in Nat /\ Len(batch) \in Nat /\ next \in 1 .. Len(Records) + 1
         /\ b <= next - Len(batch) /\ b <= next
         /\ next - Len(batch) \in 1 .. Len(Records) + 1
         /\ Where[b] \in Nat /\ Where[next] \in Nat /\ Where[next - Len(batch)] \in Nat
         /\ OpenRows = {} => batch = <<>>
         /\ \A id \in 1 .. Len(rows) : Content(id) \in Seq(Unit) /\ Len(Content(id)) \in Nat
                                       /\ rows[id].mark \in Nat /\ rows[id].mark <= Len(Content(id))
<1>1. /\ Len(Records) \in Nat /\ b \in Nat /\ next \in Nat /\ Len(batch) \in Nat
      /\ next \in 1 .. Len(Records) + 1 /\ (batch = <<>> <=> Len(batch) = 0)
  BY RecordsAre, TypesOf DEF Base, FileTypes
<1>2. ASSUME OpenRows = {} PROVE batch = <<>>
  <2>1. writer.file => writer.up /\ ~ Opening /\ writer.id \in 1 .. Len(rows)
    BY DEF Base, Placed
  <2>2. writer.up /\ ~ Opening => rows[writer.id].state = "Open"
    BY DEF Reached
  <2>3. ~ writer.file
    BY <1>2, <2>1, <2>2 DEF OpenRows
  <2> QED
    BY <2>3 DEF Base, Gathered
<1>3. b <= next - Len(batch)
  <2>1. CASE OpenRows = {}
    BY <1>1, <1>2, <2>1 DEF Course
  <2>2. CASE OpenRows # {}
    BY <2>2 DEF Course
  <2> QED
    BY <2>1, <2>2
<1>4. b <= next /\ next - Len(batch) \in 1 .. Len(Records) + 1
  BY <1>1, <1>3
<1>5. Where[b] \in Nat /\ Where[next] \in Nat /\ Where[next - Len(batch)] \in Nat
  BY <1>1, <1>4, WhereIs
<1>6. \A id \in 1 .. Len(rows) : /\ Content(id) \in Seq(Unit) /\ Len(Content(id)) \in Nat
                                 /\ rows[id].mark \in Nat /\ rows[id].mark <= Len(Content(id))
  BY TypesOf DEF Base, FileTypes, Placed, Content, Row
<1> QED
  BY <1>1, <1>2, <1>3, <1>4, <1>5, <1>6

(* What one reads in a file of this layout.                                *)
LEMMA LaidReads ==
  ASSUME NEW b \in 1 .. Len(Records) + 1, NEW content, Len(content) \in Nat, Laid(content, b),
         NEW p \in 1 .. Len(content), NEW n \in b .. Len(Records) + 1
  PROVE  /\ content[p] \in 1 .. Len(Records) /\ b <= content[p]
         /\ p + Where[b] <= Where[n] => content[p] < n
         /\ p + Where[b] = Where[n] => content[p] = n - 1
         /\ p + Where[b] = Where[n] + 1 => content[p] = n
<1> DEFINE x == content[p]
<1>1. x \in b .. Len(Records) /\ Where[x] < p + Where[b] /\ p + Where[b] <= Where[x + 1]
  BY DEF Laid
<1> HIDE DEF x
<1>2. Len(Records) \in Nat /\ b \in Nat /\ n \in Nat /\ n \in 1 .. Len(Records) + 1 /\ p \in Nat
  BY RecordsAre
<1>3. x \in 1 .. Len(Records) + 1 /\ x + 1 \in 1 .. Len(Records) + 1 /\ x \in Nat
  BY <1>1, <1>2
<1>4. Where[b] \in Nat /\ Where[n] \in Nat /\ Where[x] \in Nat /\ Where[x + 1] \in Nat
  BY <1>2, <1>3, WhereIs
<1>5. p + Where[b] <= Where[n] => x < n
  <2>1. p + Where[b] <= Where[n] => Where[x] < Where[n]
    BY <1>1, <1>2, <1>4
  <2> QED
    BY <1>2, <1>3, <2>1, WhereIs
<1>6. p + Where[b] = Where[n] => x = n - 1
  <2> SUFFICES ASSUME p + Where[b] = Where[n] PROVE x = n - 1
    OBVIOUS
  <2>1. x < n
    BY <1>4, <1>5
  <2>2. ~ (x + 1 < n)
    <3>1. x + 1 < n => Where[x + 1] < Where[n]
      BY <1>2, <1>3, WhereIs
    <3> QED
      BY <1>1, <1>4, <3>1
  <2> QED
    BY <1>2, <1>3, <2>1, <2>2
<1>7. p + Where[b] = Where[n] + 1 => x = n
  <2> SUFFICES ASSUME p + Where[b] = Where[n] + 1 PROVE x = n
    OBVIOUS
  <2>1. Where[n] < Where[x + 1]
    BY <1>1, <1>2, <1>4
  <2>2. n < x + 1
    BY <1>2, <1>3, <2>1, WhereIs
  <2>3. ~ (n < x)
    <3>1. n < x => Where[n] < Where[x]
      BY <1>2, <1>3, WhereIs
    <3> QED
      BY <1>1, <1>2, <1>4, <3>1
  <2> QED
    BY <1>2, <1>3, <2>2, <2>3
<1> QED
  BY <1>1, <1>2, <1>3, <1>5, <1>6, <1>7 DEF x

(* What is indexed of the open file is there, committed or not.            *)
LEMMA CourseTruly ==
  ASSUME Base, Reached, NEW b \in 1 .. Len(Records) + 1, Course(b),
         NEW e \in indexed, e.id \in OpenRows, e.off < Len(Content(e.id))
  PROVE  Content(e.id)[e.off + 1] = e.n
<1>1. e.n >= b /\ e.off = Where[e.n] - Where[b] /\ Laid(Content(e.id), b)
  BY DEF Course
<1>2. e \in Entry /\ e.id \in 1 .. Len(rows) /\ Len(Records) \in Nat
  BY RecordsAre DEF Base, FileTypes, Gathered
<1>3. e.off \in Nat /\ e.n \in 1 .. Len(Records) /\ b \in Nat
  BY <1>2 DEF Entry
<1>4. Len(Content(e.id)) \in Nat /\ Where[b] \in Nat /\ Where[e.n] \in Nat
  BY SMTT(40), <1>2, <1>3, CourseTypes, WhereIs
<1>5. e.off + 1 \in 1 .. Len(Content(e.id)) /\ e.n \in b .. Len(Records) + 1
      /\ e.off + 1 + Where[b] = Where[e.n] + 1
  <2> DEFINE file == Content(e.id)
  <2>1. e.off \in Nat /\ Len(file) \in Nat /\ Where[b] \in Nat /\ Where[e.n] \in Nat /\ e.off < Len(file)
        /\ e.off = Where[e.n] - Where[b]
    BY <1>1, <1>3, <1>4
  <2>2. e.n \in b .. Len(Records) + 1
    BY <1>1, <1>2, <1>3
  <2> HIDE DEF file
  <2>3. e.off + 1 \in 1 .. Len(file)
    BY <2>1
  <2>4. e.off + 1 + Where[b] = Where[e.n] + 1
    BY <2>1
  <2> QED
    BY <2>2, <2>3, <2>4 DEF file
<1> DEFINE content == Content(e.id)
<1>6. Laid(content, b) /\ Len(content) \in Nat /\ e.off + 1 \in 1 .. Len(content)
  BY <1>1, <1>4, <1>5
<1> HIDE DEF content
<1>7. content[e.off + 1] = e.n
  BY <1>5, <1>6, LaidReads
<1> QED
  BY <1>7 DEF content

(* After a restart the source goes on where the files were committed.      *)
LEMMA RestartsAt ==
  ASSUME Base, Reached, NEW b \in 1 .. Len(Records) + 1, Course(b)
  PROVE  1 + Max({0} \cup Committed) = next - Len(batch)
<1> DEFINE c == next - Len(batch)
<1>1. /\ b \in Nat /\ c \in 1 .. Len(Records) + 1 /\ b <= c /\ Where[b] \in Nat /\ Where[c] \in Nat
      /\ Len(Records) \in Nat /\ (OpenRows = {} => b = c)
      /\ \A id \in 1 .. Len(rows) : Content(id) \in Seq(Unit) /\ Len(Content(id)) \in Nat
                                    /\ rows[id].mark \in Nat /\ rows[id].mark <= Len(Content(id))
  <2>1. OpenRows = {} => b = next /\ Len(batch) = 0
    BY CourseTypes, EmptySeq DEF Course
  <2> QED
    BY <2>1, CourseTypes, RecordsAre
<1>2. \A x : x \in Committed <=>
        \E id \in 1 .. Len(rows) : \E p \in 1 .. rows[id].mark : Content(id)[p] = x
  BY CommittedIs
<1>3. \A o \in OpenRows : /\ o \in 1 .. Len(rows) /\ Laid(Content(o), b)
                          /\ rows[o].mark = Where[c] - Where[b]
  BY OpenRowsAre DEF Course
<1>4. \A r \in 1 .. Len(rows) : r \notin OpenRows => rows[r].mark = Len(Content(r))
  BY OpenRowsAre DEF Reached
<1> HIDE DEF c
<1>5. ASSUME NEW x \in Committed PROVE x <= c - 1 /\ x \in Nat
  <2>0. PICK id \in 1 .. Len(rows) : \E p \in 1 .. rows[id].mark : Content(id)[p] = x
    BY <1>2
  <2>1. PICK p \in 1 .. rows[id].mark : Content(id)[p] = x
    BY <2>0
  <2>2. p \in 1 .. Len(Content(id)) /\ p \in Nat
    BY <1>1
  <2>3. x \in Nat
    BY CommittedIs, RecordsAre
  <2>4. CASE id \in OpenRows
    <3> DEFINE content == Content(id)
    <3>1. Laid(content, b) /\ p + Where[b] <= Where[c] /\ Len(content) \in Nat /\ p \in 1 .. Len(content)
          /\ c \in b .. Len(Records) + 1
      BY SMTT(40), <1>1, <1>3, <2>2, <2>4
    <3> HIDE DEF content
    <3>2. content[p] < c
      BY <3>1, LaidReads
    <3> QED
      BY <1>1, <2>1, <2>3, <3>2 DEF content
  <2>5. CASE id \notin OpenRows
    <3>1. x < b
      BY <2>1, <2>2, <2>5 DEF Course
    <3> QED
      BY <1>1, <2>3, <3>1
  <2> QED
    BY <2>4, <2>5
<1>6. c - 1 \in {0} \cup Committed
  <2>1. CASE c = b
    <3>1. CASE b > 1
      <4>1. PICK r \in 1 .. Len(rows) : r \notin OpenRows /\ \E p \in 1 .. Len(Content(r)) : Content(r)[p] = b - 1
        BY <3>1 DEF Course
      <4> QED
        BY <1>2, <1>4, <2>1, <4>1
    <3>2. CASE ~ (b > 1)
      BY <1>1, <2>1, <3>2
    <3> QED
      BY <3>1, <3>2
  <2>2. CASE c # b
    <3>1. PICK o \in OpenRows : TRUE
      BY <1>1, <2>2
    <3> DEFINE content == Content(o)
               p == rows[o].mark
    <3>2. Where[b] < Where[c]
      BY <1>1, <2>2, WhereIs
    <3>3. /\ Laid(content, b) /\ p + Where[b] = Where[c] /\ Len(content) \in Nat /\ p \in 1 .. Len(content)
          /\ c \in b .. Len(Records) + 1 /\ p \in 1 .. rows[o].mark /\ o \in 1 .. Len(rows)
      BY SMTT(40), <1>1, <1>3, <3>2
    <3> HIDE DEF content, p
    <3>4. content[p] = c - 1
      BY <3>3, LaidReads
    <3> QED
      BY <1>2, <3>3, <3>4 DEF content
  <2> QED
    BY <2>1, <2>2
<1> DEFINE S == {0} \cup Committed
<1>7. S \in SUBSET (0 .. Len(Records)) /\ S # {} /\ Len(Records) \in Nat
  BY <1>1, CommittedIs
<1>8. \A x \in S : x <= c - 1 /\ x \in Nat
  BY <1>1, <1>5
<1> HIDE DEF S
<1>9. Max(S) \in S /\ \A y \in S : y <= Max(S)
  BY <1>7, MaxIs
<1>10. Max(S) = c - 1
  <2>1. c - 1 \in S
    BY <1>6 DEF S
  <2>2. Max(S) \in Nat /\ Max(S) <= c - 1 /\ c - 1 <= Max(S)
    BY <1>8, <1>9, <2>1
  <2> QED
    BY <1>1, <2>2
<1> QED
  BY <1>1, <1>10 DEF S, c

(* Recovery truncates the open file to its watermark, from which the       *)
(* source goes on.                                                         *)
LEMMA ResumeCourse ==
  ASSUME Base, Reached, NEW b \in 1 .. Len(Records) + 1, Course(b), OpenOrRecover, OpenRows # {}
  PROVE  Course(b)'
<1>1. PICK o \in 1 .. Len(rows) :
           /\ OpenRows = {o} /\ rows[o].state = "Open"
           /\ writer'.off = rows[o].mark
           /\ UNCHANGED <<rows, batch, indexed, next>>
           /\ batch = <<>>
           /\ DOMAIN disk' = DOMAIN disk
           /\ \A s \in DOMAIN disk : s # rows[o].seq => disk'[s] = disk[s]
           /\ Len(disk'[rows[o].seq]) = rows[o].mark
           /\ \A p \in 1 .. rows[o].mark : disk'[rows[o].seq][p] = disk[rows[o].seq][p]
  BY ResumeFacts
<1>2. OpenRows' = OpenRows
  BY <1>1 DEF OpenRows
<1>3. Len(batch) = 0 /\ next - Len(batch) = next
  BY <1>1, EmptySeq, CourseTypes
<1>4. \A r \in 1 .. Len(rows) : r \notin OpenRows => Content(r)' = Content(r)
  <2> SUFFICES ASSUME NEW r \in 1 .. Len(rows), r # o
               PROVE  disk'[rows[r].seq] = disk[rows[r].seq]
    BY <1>1 DEF Content
  <2>1. rows[r].seq # rows[o].seq /\ rows[r].seq \in DOMAIN disk
    BY DEF Base, Placed
  <2> QED
    BY <1>1, <2>1
<1>5. Laid(Content(o)', b)
  <2>1. Laid(Content(o), b)
    BY <1>1 DEF Course
  <2>2. /\ \A p \in 1 .. Len(Content(o)') : p \in 1 .. Len(Content(o)) /\ Content(o)'[p] = Content(o)[p]
    <3>1. rows[o].mark \in Nat /\ Len(Content(o)) \in Nat /\ rows[o].mark <= Len(Content(o))
      BY CourseTypes
    <3> QED
      BY <1>1, <3>1 DEF Content
  <2> QED
    BY <2>1, <2>2 DEF Laid
<1> QED
  BY <1>1, <1>2, <1>3, <1>4, <1>5 DEF Course

(* A step that changes nothing the course is about.                        *)
LEMMA SameCourse ==
  ASSUME Base, NEW b \in 1 .. Len(Records) + 1, Course(b),
         UNCHANGED <<rows, writer, batch, next, indexed>>,
         \A s \in DOMAIN disk : disk'[s] = disk[s]
  PROVE  Course(b)'
<1>1. OpenRows' = OpenRows /\ \A o \in OpenRows : o \in 1 .. Len(rows)
  BY DEF OpenRows
<1>2. \A id \in 1 .. Len(rows) : Content(id)' = Content(id)
  BY DEF Base, Placed, Content
<1> QED
  BY <1>1, <1>2 DEF Course

(* A record is written behind the one before it.                           *)
LEMMA WriteCourse ==
  ASSUME Base, Reached, faults.failAt = {}, NEW b \in 1 .. Len(Records) + 1, Course(b), Write
  PROVE  Course(b)'
<1>1. PICK e \in Entry :
         /\ next \in 1 .. Len(Records)
         /\ writer.seq \in DOMAIN disk /\ DOMAIN disk' = DOMAIN disk
         /\ \A s \in DOMAIN disk : s # writer.seq => disk'[s] = disk[s]
         /\ Len(disk'[writer.seq]) = writer.off + Records[next]
         /\ Len(disk[writer.seq]) = writer.off
         /\ \A p \in 1 .. writer.off : disk'[writer.seq][p] = disk[writer.seq][p]
         /\ \A p \in writer.off + 1 .. writer.off + Records[next] : disk'[writer.seq][p] = next
         /\ writer'.up = writer.up /\ writer'.off = writer.off + Records[next]
         /\ e.id = writer.id /\ e.off = writer.off /\ e.n = next
         /\ Len(batch') = Len(batch) + 1
         /\ \A x : x \in Range(batch') <=> x \in Range(batch) \/ x = e
         /\ next' = next + 1
         /\ UNCHANGED <<rows, indexed>>
  BY WriteFacts
<1>2. /\ writer.up /\ writer.id \in 1 .. Len(rows)
      /\ rows[writer.id].seq = writer.seq /\ OpenRows = {writer.id} /\ OpenRows' = OpenRows
  BY <1>1, NothingFails DEF OpenRows
<1> DEFINE o == writer.id
<1>3. /\ b \in Nat /\ next \in Nat /\ Len(batch) \in Nat /\ b <= next
      /\ Where[b] \in Nat /\ Where[next] \in Nat /\ writer.off \in Nat /\ Records[next] \in Nat
      /\ Len(Records) \in Nat
  BY <1>1, CourseTypes, TypesOf, RecordsAre DEF Base
<1>4. next' - Len(batch') = next - Len(batch)
  BY <1>1, <1>3
<1>5. writer.off = Where[next] - Where[b] /\ Where[next + 1] = Where[next] + Records[next]
      /\ Where[next + 1] \in Nat
  BY <1>1, <1>2, <1>3, WhereIs DEF Course
<1>6. writer'.off = Where[next'] - Where[b]
  BY SMTT(40), <1>1, <1>3, <1>5
<1>7. \A r \in 1 .. Len(rows) : r \notin OpenRows => Content(r)' = Content(r)
  <2> SUFFICES ASSUME NEW r \in 1 .. Len(rows), r # writer.id
               PROVE  disk'[rows[r].seq] = disk[rows[r].seq]
    BY <1>1, <1>2 DEF Content
  <2>1. rows[r].seq # writer.seq /\ rows[r].seq \in DOMAIN disk
    BY <1>2 DEF Base, Placed
  <2> QED
    BY <1>1, <2>1
<1>8. Laid(disk'[rows'[writer.id].seq], b)
  <2> DEFINE old == disk[writer.seq]
             new == disk'[writer.seq]
             off == writer.off
  <2>1. Laid(old, b)
    BY <1>2 DEF Course, Content
  <2>2. /\ Len(old) = off /\ Len(new) = off + Records[next]
        /\ \A p \in 1 .. off : new[p] = old[p]
        /\ \A p \in off + 1 .. off + Records[next] : new[p] = next
        /\ off = Where[next] - Where[b] /\ off \in Nat
    BY <1>1, <1>3, <1>5
  <2> HIDE DEF old, new, off
  <2>3. ASSUME NEW p \in 1 .. Len(new)
        PROVE  /\ new[p] \in b .. Len(Records)
               /\ Where[new[p]] < p + Where[b] /\ p + Where[b] <= Where[new[p] + 1]
    <3>1. p \in Nat /\ (p \in 1 .. off \/ p \in off + 1 .. off + Records[next])
      BY <1>3, <2>2
    <3>2. CASE p \in 1 .. off
      BY <2>1, <2>2, <3>2 DEF Laid
    <3>3. CASE p \in off + 1 .. off + Records[next]
      <4> DEFINE w == Where[next]
                 wb == Where[b]
                 len == Records[next]
      <4>0. /\ w \in Nat /\ wb \in Nat /\ len \in Nat /\ off \in Nat /\ p \in Nat
            /\ p \in off + 1 .. off + len /\ off = w - wb /\ Where[next + 1] = w + len
        BY <1>3, <1>5, <2>2, <3>1, <3>3
      <4> HIDE DEF w, wb, len
      <4>1. new[p] = next
        BY <2>2, <3>3
      <4>2. w < p + wb /\ p + wb <= w + len
        BY <4>0
      <4>3. Where[next] < p + Where[b] /\ p + Where[b] <= Where[next + 1]
        BY <4>0, <4>2 DEF w, wb
      <4> QED
        BY <1>1, <1>3, <4>1, <4>3
    <3> QED
      BY <3>1, <3>2, <3>3
  <2>4. Laid(new, b)
    BY <2>3 DEF Laid
  <2>6. Laid(disk'[rows'[writer.id].seq], b)
    BY <1>1, <1>2, <2>4 DEF new
  <2> QED
    BY <2>6
<1>9. \A x \in Range(batch') : x.n >= b /\ x.off = Where[x.n] - Where[b]
  <2>1. e.n >= b /\ e.off = Where[e.n] - Where[b]
    BY <1>1, <1>3, <1>5
  <2> QED
    BY <1>1, <2>1 DEF Course
<1>10. ASSUME NEW r \in OpenRows'
       PROVE  /\ b <= next' - Len(batch') /\ rows'[r].mark = Where[next' - Len(batch')] - Where[b]
              /\ writer'.off = Where[next'] - Where[b] /\ Laid(Content(r)', b)
              /\ \A x \in indexed' : x.id = r => x.n >= b /\ x.off = Where[x.n] - Where[b]
  <2>1. r = writer.id /\ Laid(Content(r)', b)
    BY <1>2, <1>8 DEF Content
  <2> QED
    BY <1>1, <1>2, <1>4, <1>6, <2>1 DEF Course
<1>11. \A r \in 1 .. Len(rows') : r \notin OpenRows' =>
         \A p \in 1 .. Len(Content(r)') : Content(r)'[p] < b
  BY <1>1, <1>2, <1>7 DEF Course
<1>12. b > 1 => \E r \in 1 .. Len(rows') : r \notin OpenRows' /\
                  \E p \in 1 .. Len(Content(r)') : Content(r)'[p] = b - 1
  BY <1>1, <1>2, <1>7 DEF Course
<1> QED
  BY <1>2, <1>9, <1>10, <1>11, <1>12 DEF Course

(* What is indexed lies on the course.                                     *)
LEMMA CommitCourse ==
  ASSUME Base, NEW b \in 1 .. Len(Records) + 1, Course(b), Commit
  PROVE  Course(b)'
<1>1. UNCHANGED <<disk, rows, writer, batch, next>>
      /\ \A e \in indexed' : e \in indexed \/ e \in Range(batch)
  BY DEF Commit
<1>2. OpenRows' = OpenRows /\ \A id : Content(id)' = Content(id)
  BY <1>1 DEF OpenRows, Content
<1> QED
  BY <1>1, <1>2 DEF Course

(* The watermark moves to the end of the last record gathered.             *)
LEMMA MarkCourse ==
  ASSUME Base, Reached, faults.failAt = {}, NEW b \in 1 .. Len(Records) + 1, Course(b), Mark
  PROVE  Course(b)'
<1>1. /\ Len(rows') = Len(rows)
      /\ \A id \in 1 .. Len(rows) :
           /\ rows'[id].seq = rows[id].seq /\ rows'[id].state = rows[id].state
           /\ (batch # <<>> /\ id = writer.id) \/ rows'[id].mark = rows[id].mark
      /\ batch # <<>> => rows'[writer.id].mark = writer.off
      /\ batch' = <<>>
      /\ UNCHANGED <<disk, writer, indexed, next>>
  BY MarkFacts
<1>2. writer.up /\ writer.id \in 1 .. Len(rows) /\ OpenRows = {writer.id}
  BY NothingFails
<1>3. OpenRows' = OpenRows
  BY <1>1 DEF OpenRows
<1>4. \A id \in 1 .. Len(rows) : Content(id)' = Content(id)
  BY <1>1 DEF Content
<1>5. Len(batch') = 0 /\ Range(batch') = {} /\ next - Len(batch') = next
  BY <1>1, EmptySeq, PlansBegun, CourseTypes
<1>6. rows'[writer.id].mark = Where[next] - Where[b] /\ b <= next
  <2>1. CASE batch = <<>>
    BY <1>1, <1>2, <1>5, <2>1, CourseTypes DEF Course
  <2>2. CASE batch # <<>>
    BY <1>1, <1>2, <2>2, CourseTypes DEF Course
  <2> QED
    BY <2>1, <2>2
<1>7. ASSUME NEW r \in OpenRows'
      PROVE  /\ b <= next' - Len(batch') /\ rows'[r].mark = Where[next' - Len(batch')] - Where[b]
             /\ writer'.up => writer'.off = Where[next'] - Where[b]
             /\ Laid(Content(r)', b)
             /\ \A e \in indexed' : e.id = r => e.n >= b /\ e.off = Where[e.n] - Where[b]
  <2>1. r = writer.id /\ Content(r)' = Content(r)
    BY <1>2, <1>3, <1>4
  <2> QED
    BY <1>1, <1>2, <1>5, <1>6, <2>1 DEF Course
<1>8. \A r \in 1 .. Len(rows') : r \notin OpenRows' =>
         \A p \in 1 .. Len(Content(r)') : Content(r)'[p] < b
  BY <1>1, <1>3, <1>4 DEF Course
<1>9. b > 1 => \E r \in 1 .. Len(rows') : r \notin OpenRows' /\
                  \E p \in 1 .. Len(Content(r)') : Content(r)'[p] = b - 1
  BY <1>1, <1>3, <1>4 DEF Course
<1> QED
  BY <1>2, <1>3, <1>5, <1>7, <1>8, <1>9 DEF Course

(* The next file begins with the record that comes next.                   *)
LEMMA SealCourse ==
  ASSUME Base, Reached, faults.failAt = {}, NEW b \in 1 .. Len(Records) + 1, Course(b), Seal
  PROVE  \E k \in 1 .. Len(Records) + 1 : Course(k)'
<1>1. /\ Len(rows') = Len(rows)
      /\ \A id \in 1 .. Len(rows) : rows'[id].seq = rows[id].seq
      /\ batch = <<>> /\ OpenRows' = {} /\ UNCHANGED <<disk, batch, next>>
  BY SealFacts
<1>2. /\ writer.up /\ writer.file /\ writer.id \in 1 .. Len(rows)
      /\ rows[writer.id].seq = writer.seq /\ OpenRows = {writer.id}
  BY NothingFails
<1> DEFINE o == writer.id
           content == Content(writer.id)
           off == writer.off
<1>3. Len(content) = off /\ off = Where[next] - Where[b] /\ Laid(content, b) /\ off \in Nat
  <2>1. Len(content) = off
    BY <1>2 DEF Base, Placed, Content
  <2> QED
    BY <1>2, <2>1, TypesOf DEF Course, Base
<1>4. /\ next \in 1 .. Len(Records) + 1 /\ next \in Nat /\ b \in Nat /\ b <= next
      /\ Where[b] \in Nat /\ Where[next] \in Nat /\ next \in b .. Len(Records) + 1 /\ Range(batch) = {}
  BY <1>1, CourseTypes, RecordsAre, PlansBegun
<1>5. \A id \in 1 .. Len(rows) : Content(id)' = Content(id)
  BY <1>1 DEF Content
<1> HIDE DEF content, off
<1>6. \A r \in 1 .. Len(rows) : \A p \in 1 .. Len(Content(r)) : Content(r)[p] < next
  <2> TAKE r \in 1 .. Len(rows)
  <2> TAKE p \in 1 .. Len(Content(r))
  <2>1. CASE r = writer.id
    <3>1. p \in 1 .. Len(content) /\ Len(content) \in Nat /\ p + Where[b] <= Where[next]
      BY <1>3, <1>4, <2>1 DEF content
    <3>2. content[p] < next
      BY <1>3, <1>4, <3>1, LaidReads
    <3> QED
      BY <2>1, <3>2 DEF content
  <2>2. CASE r # writer.id
    <3>1. Content(r)[p] < b
      BY <1>2, <2>2 DEF Course
    <3>2. Content(r)[p] \in Nat
      <4>1. Content(r) \in Seq(Unit)
        BY CourseTypes
      <4>2. Content(r)[p] \in Unit
        BY <4>1, ElementOfSeq
      <4> QED
        BY <4>2 DEF Unit
    <3> QED
      BY <1>4, <3>1, <3>2
  <2> QED
    BY <2>1, <2>2
<1>7. next > 1 => \E r \in 1 .. Len(rows) : \E p \in 1 .. Len(Content(r)) : Content(r)[p] = next - 1
  <2>1. CASE next = b
    BY <2>1 DEF Course
  <2>2. CASE next # b
    <3>1. Where[b] < Where[next]
      BY <1>4, <2>2, WhereIs
    <3>2. off \in 1 .. Len(content) /\ off + Where[b] = Where[next] /\ Len(content) \in Nat
      BY <1>3, <1>4, <3>1
    <3>3. content[off] = next - 1
      BY <1>3, <1>4, <3>2, LaidReads
    <3> QED
      BY <1>2, <3>2, <3>3 DEF content
  <2> QED
    BY <2>1, <2>2
<1>8. \A k : k = next => Course(k)'
  BY <1>1, <1>4, <1>5, <1>6, <1>7 DEF Course
<1> QED
  BY <1>4, <1>8

(* The new file is empty.                                                  *)
LEMMA InsertCourse ==
  ASSUME Base, Reached, NEW b \in 1 .. Len(Records) + 1, Course(b), Insert
  PROVE  Course(b)'
<1>1. FileTypes /\ Placed /\ Gathered
  BY DEF Base
<1>2. /\ rows' \in Seq(Row) /\ Len(rows') = Len(rows) + 1
      /\ \A id \in 1 .. Len(rows) : rows'[id] = rows[id]
      /\ rows'[Len(rows) + 1].seq = writer.seq /\ rows'[Len(rows) + 1].mark = 0
      /\ writer'.off = 0 /\ batch = <<>>
      /\ OpenRows = {} /\ OpenRows' = {Len(rows) + 1} /\ At("Insert")
      /\ UNCHANGED <<disk, batch, indexed, next>>
  BY InsertFacts
<1>14. PICK o : o = Len(rows) + 1
  OBVIOUS
<1>3. /\ b = next /\ b \in Nat /\ Len(batch) = 0 /\ next - Len(batch) = next /\ Where[b] \in Nat
      /\ Range(batch) = {} /\ Len(rows) \in Nat
  <2>1. b = next /\ Len(batch) = 0 /\ Range(batch) = {}
    BY <1>2, EmptySeq, PlansBegun DEF Course
  <2> QED
    BY <1>1, <2>1, CourseTypes, TypesOf
<1>4. Content(o)' = <<>> /\ Len(Content(o)') = 0
  <2>1. disk[writer.seq] = <<>>
    BY <1>1, <1>2 DEF Placed
  <2>2. disk'[rows'[o].seq] = <<>>
    BY <1>2, <1>14, <2>1
  <2> QED
    BY <2>2, EmptySeq DEF Content
<1>5. \A e \in indexed : e.id # o
  BY <1>1, <1>3, <1>14 DEF Gathered
<1>6. \A r : r \in 1 .. Len(rows') /\ r \notin OpenRows' <=> r \in 1 .. Len(rows)
  BY <1>2, <1>3
<1>7. \A r \in 1 .. Len(rows) : Content(r)' = Content(r) /\ r \notin OpenRows
  BY <1>2 DEF Content
<1>8. Laid(Content(o)', b)
  BY <1>4 DEF Laid
<1>9. OpenRows' = {o} /\ rows'[o].mark = 0
  BY <1>2, <1>14
<1>10. \A r \in 1 .. Len(rows') : r \notin OpenRows' =>
         \A p \in 1 .. Len(Content(r)') : Content(r)'[p] < b
  BY <1>6, <1>7 DEF Course
<1>11. b > 1 => \E r \in 1 .. Len(rows') : r \notin OpenRows' /\
                  \E p \in 1 .. Len(Content(r)') : Content(r)'[p] = b - 1
  BY <1>6, <1>7 DEF Course
<1>12. ASSUME NEW r \in OpenRows'
       PROVE  /\ b <= next' - Len(batch') /\ rows'[r].mark = Where[next' - Len(batch')] - Where[b]
              /\ writer'.off = Where[next'] - Where[b]
              /\ Laid(Content(r)', b)
              /\ \A e \in indexed' : e.id # r
  <2>1. r = o
    BY <1>9
  <2>2. /\ next' = next /\ next' - Len(batch') = next /\ Where[next] - Where[b] = 0
        /\ indexed' = indexed
    BY <1>2, <1>3
  <2>3. b <= next' - Len(batch') /\ rows'[r].mark = Where[next' - Len(batch')] - Where[b]
    BY <1>3, <1>9, <2>1, <2>2
  <2>4. writer'.off = Where[next'] - Where[b] /\ Laid(Content(r)', b)
    BY <1>2, <1>8, <2>1, <2>2
  <2> QED
    BY <1>5, <2>1, <2>2, <2>3, <2>4
<1>13. OpenRows' # {} /\ Range(batch') = {}
  BY <1>2, <1>3, <1>9
<1> QED
  BY <1>10, <1>11, <1>12, <1>13 DEF Course

(* What was gathered is sent again.                                        *)
LEMMA CrashCourse ==
  ASSUME Base, Reached, NEW b \in 1 .. Len(Records) + 1, Course(b), Crash
  PROVE  Course(b)'
<1>1. /\ writer' = Down /\ batch' = <<>> /\ UNCHANGED <<disk, rows, indexed>>
      /\ next' = 1 + Max({0} \cup Committed)
  BY DieFacts
<1>2. next' = next - Len(batch) /\ next' \in Nat
  <2>1. 1 + Max({0} \cup Committed) = next - Len(batch)
    BY RestartsAt
  <2>2. next - Len(batch) \in 1 .. Len(Records) + 1 /\ Len(Records) \in Nat
    BY CourseTypes, RecordsAre
  <2>3. next - Len(batch) \in Nat
    BY <2>2
  <2> QED
    BY <1>1, <2>1, <2>3
<1>3. Len(batch') = 0 /\ next' - Len(batch') = next' /\ Range(batch') = {}
  BY <1>1, <1>2, EmptySeq, PlansBegun
<1>4. OpenRows' = OpenRows /\ ~ writer'.up /\ \A id : Content(id)' = Content(id)
  BY <1>1 DEF OpenRows, Down, Content
<1>5. OpenRows = {} => b = next'
  <2>1. OpenRows = {} => b = next /\ Len(batch) = 0 /\ next \in Nat
    BY CourseTypes, EmptySeq DEF Course
  <2> QED
    BY <1>2, <2>1
<1> QED
  BY <1>1, <1>2, <1>3, <1>4, <1>5 DEF Course

(* Where no file is open and none will be, nothing is written any more.    *)
LEMMA StuckStays ==
  ASSUME Base, Reached, faults.failAt = {}, Stuck, Next
  PROVE  Stuck'
<1>1. FileTypes /\ Placed /\ Gathered
  BY DEF Base
<1>2. OpenRows = {} /\ ~ writer.up /\ ~ At("Insert") /\ 0 \in DOMAIN disk /\ writer.seq = 0
  BY DEF Stuck, Reached, Down
<1>3. ~ (Write \/ Mark \/ Commit \/ Seal \/ Reserve \/ Push \/ Finish \/ Insert \/ Create \/ Fail \/ Panic)
  BY <1>2, NothingFails DEF Push, Finish, Insert, Create
<1>4. OpenOrRecover \/ AlreadyExists \/ Crash => UNCHANGED <<disk, rows>>
  BY <1>2 DEF OpenOrRecover, AlreadyExists, Crash, Die
<1>5. OpenOrRecover \/ AlreadyExists \/ Crash => ~ writer'.up
  BY <1>2 DEF OpenOrRecover, AlreadyExists, Crash, Die, Down
<1>6. OpenOrRecover \/ AlreadyExists \/ Crash => ~ At("Insert")'
  <2>1. OpenOrRecover => todo' = <<"Create", "Insert">>
    BY <1>2 DEF OpenOrRecover
  <2>2. Begins(<<"Create", "Insert">>, "Create")
    BY PlansBegun
  <2>3. OpenOrRecover => ~ At("Insert")'
    BY <2>1, <2>2 DEF At, Begins
  <2>4. AlreadyExists \/ Crash => todo' = <<>>
    BY DEF AlreadyExists, Abandoned, Crash, Die
  <2> QED
    BY <2>3, <2>4, EndedAsks
<1>7. OpenOrRecover \/ AlreadyExists \/ Crash
  BY <1>3 DEF Next, Work
<1>8. OpenRows' = OpenRows
  BY <1>4, <1>7 DEF OpenRows
<1> QED
  BY <1>2, <1>4, <1>5, <1>6, <1>7, <1>8 DEF Stuck

(* Each step keeps the course, where no step fails.                        *)
LEMMA CoursedKeeps ==
  ASSUME Base, Reached, faults.failAt = {}, Coursed, Next
  PROVE  Coursed'
<1>1. CASE Stuck
  BY <1>1, StuckStays DEF Coursed
<1>2. CASE ~ Stuck
  <2>1. PICK b \in 1 .. Len(Records) + 1 : Course(b)
    BY <1>2 DEF Coursed
  <2>2. SUFFICES \E k \in 1 .. Len(Records) + 1 : Course(k)'
    BY DEF Coursed
  <2>3. CASE OpenOrRecover /\ OpenRows # {}
    BY <2>1, <2>3, ResumeCourse
  <2>4. CASE (OpenOrRecover /\ OpenRows = {}) \/ Push \/ Finish \/ Reserve
    <3>1. UNCHANGED <<disk, rows, writer, batch, next, indexed>>
      BY <2>4 DEF OpenOrRecover, Push, Finish, Reserve
    <3> QED
      BY <2>1, <3>1, SameCourse
  <2>5. CASE Write
    BY <2>1, <2>5, WriteCourse
  <2>6. CASE Commit
    BY <2>1, <2>6, CommitCourse
  <2>7. CASE Mark
    BY <2>1, <2>7, MarkCourse
  <2>8. CASE Seal
    BY <2>1, <2>8, SealCourse
  <2>9. CASE Create
    BY <2>1, <2>9, SameCourse, CreateFacts
  <2>10. CASE Insert
    BY <2>1, <2>10, InsertCourse
  <2>11. CASE Crash
    BY <2>1, <2>11, CrashCourse
  <2>12. ~ AlreadyExists
    <3> SUFFICES ASSUME AlreadyExists PROVE FALSE
      OBVIOUS
    <3>1. At("Create") /\ ~ At("Insert") /\ Opening /\ writer.seq \in DOMAIN disk /\ ~ writer.up
      BY NothingFails DEF AlreadyExists, At, Opening
    <3>2. OpenRows = {} /\ writer.seq = 0
      BY <3>1 DEF Reached, Down
    <3> QED
      BY <1>2, <3>1, <3>2 DEF Stuck
  <2> QED
    BY <2>3, <2>4, <2>5, <2>6, <2>7, <2>8, <2>9, <2>10, <2>11, <2>12, NothingFails DEF Next, Work
<1> QED
  BY <1>1, <1>2

(* What was indexed of an open file stays true when its watermark moves    *)
(* past it.                                                                *)
LEMMA MarkTruly ==
  ASSUME Base, Reached, faults.failAt = {}, Coursed, IndexedTruly, Mark
  PROVE  IndexedTruly'
<1>1. PICK b \in 1 .. Len(Records) + 1 : Course(b)
  <2>1. writer.up
    BY NothingFails
  <2> QED
    BY <2>1 DEF Coursed, Stuck
<1>2. /\ Len(rows') = Len(rows)
      /\ \A id \in 1 .. Len(rows) :
           /\ rows'[id].seq = rows[id].seq
           /\ (batch # <<>> /\ id = writer.id) \/ rows'[id].mark = rows[id].mark
      /\ batch # <<>> => rows'[writer.id].mark = writer.off
      /\ UNCHANGED <<disk, indexed>>
  BY MarkFacts
<1>3. /\ writer.file /\ writer.id \in 1 .. Len(rows) /\ OpenRows = {writer.id}
      /\ Len(Content(writer.id)) = writer.off
  BY NothingFails DEF Base, Placed, Content
<1>4. \A id \in 1 .. Len(rows) : Content(id)' = Content(id)
  BY <1>2 DEF Content
<1> SUFFICES ASSUME NEW e \in indexed, e.off < rows'[e.id].mark
             PROVE  Content(e.id)'[e.off + 1] = e.n
  BY <1>2 DEF IndexedTruly
<1>5. e.id \in 1 .. Len(rows)
  BY DEF Base, Gathered
<1>6. CASE rows'[e.id].mark = rows[e.id].mark
  BY <1>4, <1>5, <1>6 DEF IndexedTruly
<1>7. CASE batch # <<>> /\ e.id = writer.id
  <2>1. e.off < Len(Content(e.id)) /\ e.id \in OpenRows
    BY <1>2, <1>3, <1>7
  <2>2. Content(e.id)[e.off + 1] = e.n
    BY <1>1, <2>1, CourseTruly
  <2> QED
    BY <1>4, <1>5, <2>2
<1> QED
  BY <1>2, <1>5, <1>6, <1>7

-----------------------------------------------------------------------------
(***************************************************************************)
(* The theorems.                                                           *)
(***************************************************************************)

(* The inductive invariant: Base always; the course where no step fails;   *)
(* and where nothing falls between the transactions of a commit, that all  *)
(* that is indexed lies behind a watermark.                                *)
HotInv ==
  /\ Base
  /\ faults.failAt = {} => Reached /\ Coursed /\ IndexedTruly
  /\ Unbroken => Settled /\ IndexedTruly

(* The invariant holds at first and is kept.                               *)
LEMMA HotInvIsInductive == (Init => HotInv) /\ (HotInv /\ [Next]_vars => HotInv')
<1>1. Init => HotInv
  <2> SUFFICES ASSUME Init PROVE HotInv
    OBVIOUS
  <2>1. Settled /\ IndexedTruly
    BY DEF Init, Settled, IndexedTruly
  <2> QED
    BY <2>1, InitIsBase, InitIsReached, InitIsCoursed DEF HotInv
<1>2. HotInv /\ Next => HotInv'
  <2> SUFFICES ASSUME HotInv, Next PROVE HotInv'
    OBVIOUS
  <2>1. Base /\ Base'
    BY BaseKeeps DEF HotInv
  <2>2. faults'.failAt = faults.failAt /\ faults'.crashAt = faults.crashAt
    BY <2>1, FaultsStay
  <2>3. ASSUME faults.failAt = {} PROVE Reached' /\ Coursed' /\ IndexedTruly'
    <3>1. Reached /\ Coursed /\ IndexedTruly
      BY <2>3 DEF HotInv
    <3>2. Reached' /\ Coursed'
      BY <2>1, <2>3, <3>1, ReachedKeeps, CoursedKeeps
    <3>3. CASE Mark
      BY <2>1, <2>3, <3>1, <3>2, <3>3, MarkTruly
    <3>4. CASE ~ Mark
      BY <2>1, <3>1, <3>2, <3>4, TrulyStays
    <3> QED
      BY <3>3, <3>4
  <2>4. ASSUME Unbroken PROVE Settled' /\ IndexedTruly'
    BY <2>1, <2>4, SettledKeeps DEF HotInv
  <2> QED
    BY <2>1, <2>2, <2>3, <2>4 DEF HotInv, Unbroken
<1>3. ASSUME HotInv, UNCHANGED vars PROVE HotInv'
  <2>1. UNCHANGED <<disk, rows, writer, batch, indexed, next, todo, faults>>
    BY <1>3 DEF vars
  <2>2. OpenRows' = OpenRows /\ (RowsAreRows => RowsAreRows')
    BY <2>1, RowsStay
  <2>3. Inv'
    BY <1>3, <2>1, <2>2 DEF HotInv, Base, Inv, Agenda, Balanced, Ready, Ownership, Owned, Fields
  <2>4. \A step : At(step)' <=> At(step)
    BY <2>1 DEF At
  <2>5. (Opening' <=> Opening) /\ \A id : Content(id)' = Content(id)
    BY <2>1 DEF Opening, At, Content
  <2>6. FileTypes' /\ Placed' /\ Gathered'
    <3>1. FileTypes /\ Placed /\ Gathered
      BY <1>3 DEF HotInv, Base
    <3>2. FileTypes'
      BY <2>1, <3>1 DEF FileTypes
    <3>3. Placed'
      BY <2>1, <2>4, <2>5, <3>1 DEF Placed
    <3>4. Gathered'
      BY <2>1, <2>4, <2>5, <3>1 DEF Gathered
    <3> QED
      BY <3>2, <3>3, <3>4
  <2>7. Reached => Reached'
    BY <2>1, <2>2, <2>4, <2>5 DEF Reached
  <2>8. \A b : Course(b) => Course(b)'
    BY <2>1, <2>2, <2>5 DEF Course
  <2>9. Coursed => Coursed'
    BY <2>1, <2>2, <2>4, <2>8 DEF Coursed, Stuck
  <2>10. (IndexedTruly => IndexedTruly') /\ (Settled => Settled') /\ (Unbroken' <=> Unbroken)
    BY <2>1, <2>4, <2>5 DEF IndexedTruly, Settled, Unbroken
  <2> QED
    BY <1>3, <2>1, <2>3, <2>6, <2>7, <2>9, <2>10 DEF HotInv, Base
<1> QED
  BY <1>1, <1>2, <1>3

(* For all records, sizes and faults: all that is gathered lies in the     *)
(* file being written, so that no transaction spans two files, and unless  *)
(* a step fails, a file is sealed only behind its watermark, whatever      *)
(* crashes fall in between (push_record, finish, rotate, open_or_recover). *)
THEOREM LeftFileTheorem == Spec => []LeftFileIsCommitted
<1>1. HotInv => LeftFileIsCommitted
  BY DEF HotInv, Base, Gathered, Reached, Content, LeftFileIsCommitted
<1> QED
  BY <1>1, HotInvIsInductive, PTL DEF Spec

(* For all records, sizes and faults, no watermark lies beyond the end of  *)
(* its file, however often recovery truncates it, and what is read at an   *)
(* idx behind a watermark is the record that was indexed as it, if no step *)
(* fails or nothing falls between the two transactions of a commit         *)
(* (stage_lmdb_with_meta, stage_sqlite, open_or_recover).                  *)
THEOREM IndexTheorem == Spec => []IndexTellsTheFile
<1>1. HotInv => IndexTellsTheFile
  <2> SUFFICES ASSUME HotInv PROVE IndexTellsTheFile
    OBVIOUS
  <2>1. \A id \in 1 .. Len(rows) : rows[id].mark <= Len(disk[rows[id].seq])
    BY DEF HotInv, Base, Placed, Content
  <2>2. CommitIsWhole => IndexedTruly
    BY DEF HotInv, Unbroken, CommitIsWhole
  <2> QED
    BY <2>1, <2>2 DEF IndexTellsTheFile, IndexedTruly, Content
<1> QED
  BY <1>1, HotInvIsInductive, PTL DEF Spec
=============================================================================
