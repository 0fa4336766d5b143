---------------------------- MODULE PagingProofs ----------------------------
(* Theorems about QueryPaging, for every number of times, records, epochs  *)
(* and scenarios.                                                          *)
EXTENDS QueryPaging, FiniteSetTheorems, WellFoundedInduction, TLAPS

(* A set of numbers below a bound has a least and a greatest.              *)
LEMMA Extremes ==
  ASSUME NEW n \in Nat, NEW S \in SUBSET (0 .. n), S # {}
  PROVE  /\ \E x \in S : \A y \in S : x <= y
         /\ \E x \in S : \A y \in S : y <= x
<1>1. \A T \in SUBSET Nat : T # {} => \E x \in T : \A y \in T : x <= y
  <2> SUFFICES ASSUME NEW T \in SUBSET Nat, T # {}
               PROVE  \E x \in T : \A y \in T : x <= y
    OBVIOUS
  <2> DEFINE R == OpToRel(<, Nat)
  <2>1. \A x, y \in Nat : y < x => <<y, x>> \in R
    BY DEF OpToRel
  <2>2. IsWellFoundedOn(R, Nat)
    BY NatLessThanWellFounded
  <2> HIDE DEF R
  <2>3. PICK x \in T : \A y \in T : ~ (<<y, x>> \in R)
    BY <2>2, WFMin
  <2>4. ASSUME NEW y \in T PROVE x <= y
    <3>1. x \in Nat /\ y \in Nat /\ ~ (<<y, x>> \in R)
      BY <2>3
    <3>2. ~ (y < x)
      BY <2>1, <3>1, Zenon
    <3> QED
      BY <3>1, <3>2
  <2> QED
    BY <2>4
<1>2. \E x \in S : \A y \in S : x <= y
  BY <1>1
<1>3. \E x \in S : \A y \in S : y <= x
  <2> DEFINE T == {n - y : y \in S}
  <2>1. T \in SUBSET Nat /\ T # {}
    <3>1. \A y \in S : n - y \in Nat
      OBVIOUS
    <3> QED
      BY <3>1
  <2>2. PICK t \in T : \A u \in T : t <= u
    BY <1>1, <2>1
  <2>3. PICK x \in S : t = n - x
    BY <2>2
  <2>4. \A y \in S : y <= x
    BY <2>2, <2>3
  <2> QED
    BY <2>4
<1> QED
  BY <1>2, <1>3

-----------------------------------------------------------------------------
(* A row is made of numbers in the bounds of the model.                    *)
LEMMA RowFields ==
  ASSUME NEW r \in Row
  PROVE  /\ r.epoch \in 0 .. MaxEpoch /\ r.key.ts \in 1 .. MaxTs
         /\ r.key.idx \in 1 .. MaxRecords
         /\ r = [epoch |-> r.epoch, key |-> [ts |-> r.key.ts, idx |-> r.key.idx]]
<1>1. r.epoch \in EpochNum /\ r.key \in Key /\ r = [epoch |-> r.epoch, key |-> r.key]
  BY DEF Row
<1>2. /\ r.key.ts \in Time /\ r.key.idx \in 1 .. MaxRecords
      /\ r.key = [ts |-> r.key.ts, idx |-> r.key.idx]
  BY <1>1 DEF Key
<1> QED
  BY <1>1, <1>2 DEF EpochNum, Time

(* Rows are ordered: two different ones come one before the other.         *)
LEMMA RowsDiffer ==
  ASSUME NEW r \in Row, NEW s \in Row, r # s
  PROVE  Before(r, s) \/ Before(s, r)
<1>1. r.epoch # s.epoch \/ r.key.ts # s.key.ts \/ r.key.idx # s.key.idx
  BY RowFields
<1>2. /\ {r.epoch, r.key.ts, r.key.idx} \subseteq Int
      /\ {s.epoch, s.key.ts, s.key.idx} \subseteq Int
  BY RowFields, PagingAssumption
<1> QED
  BY <1>1, <1>2 DEF Before, KeyBefore

(* Some rows have a first and a last.                                      *)
LEMMA EndRows ==
  ASSUME NEW rows \in SUBSET Row, rows # {}
  PROVE  /\ \E r \in rows : \A s \in rows \ {r} : Before(r, s)
         /\ \E r \in rows : \A s \in rows \ {r} : Before(s, r)
<1> DEFINE Least(S, m) == m \in S /\ \A x \in S : m <= x
           Greatest(S, m) == m \in S /\ \A x \in S : x <= m
<1>1. \A n \in Nat : \A S \in SUBSET (0 .. n) : S # {} =>
        (\E m \in S : Least(S, m)) /\ (\E m \in S : Greatest(S, m))
  BY Extremes
<1>2. {MaxEpoch, MaxTs, MaxRecords} \subseteq Nat
  BY PagingAssumption
<1>3. \A r \in rows : /\ r \in Row /\ r.epoch \in 0 .. MaxEpoch
                      /\ r.key.ts \in 0 .. MaxTs /\ r.key.idx \in 0 .. MaxRecords
  BY RowFields, <1>2
<1> DEFINE Epochs == {r.epoch : r \in rows}
           At(e) == {r \in rows : r.epoch = e}
           Times(e) == {r.key.ts : r \in At(e)}
           AtTime(e, t) == {r \in At(e) : r.key.ts = t}
           Idxs(e, t) == {r.key.idx : r \in AtTime(e, t)}
<1>4. Epochs \in SUBSET (0 .. MaxEpoch) /\ Epochs # {}
  BY <1>3
<1>5. \A e \in Epochs : Times(e) \in SUBSET (0 .. MaxTs) /\ Times(e) # {}
  BY <1>3
<1>6. \A e \in Epochs : \A t \in Times(e) :
        Idxs(e, t) \in SUBSET (0 .. MaxRecords) /\ Idxs(e, t) # {}
  BY <1>3
<1>0. \A S, m : /\ Least(S, m) => m \in S /\ \A x \in S : m <= x
                /\ Greatest(S, m) => m \in S /\ \A x \in S : x <= m
  OBVIOUS
<1> HIDE DEF Least, Greatest, Epochs, Times, Idxs
<1>7. \E r \in rows : \A s \in rows \ {r} : Before(r, s)
  <2>1. PICK e \in Epochs : Least(Epochs, e)
    <3>1. Epochs \in SUBSET (0 .. MaxEpoch) /\ Epochs # {} /\ MaxEpoch \in Nat
      BY <1>2, <1>4
    <3>2. \E m \in Epochs : Least(Epochs, m)
      BY <1>1, <3>1
    <3> QED
      BY <3>2, Zenon
  <2>2. PICK t \in Times(e) : Least(Times(e), t)
    <3>1. Times(e) \in SUBSET (0 .. MaxTs) /\ Times(e) # {} /\ MaxTs \in Nat
      BY <1>2, <1>5
    <3>2. \E m \in Times(e) : Least(Times(e), m)
      BY <1>1, <3>1
    <3> QED
      BY <3>2, Zenon
  <2>3. PICK i \in Idxs(e, t) : Least(Idxs(e, t), i)
    <3>1. Idxs(e, t) \in SUBSET (0 .. MaxRecords) /\ Idxs(e, t) # {} /\ MaxRecords \in Nat
      BY <1>2, <1>6
    <3>2. \E m \in Idxs(e, t) : Least(Idxs(e, t), m)
      BY <1>1, <3>1
    <3> QED
      BY <3>2, Zenon
  <2>4. PICK r \in rows : r.epoch = e /\ r.key.ts = t /\ r.key.idx = i
    BY <2>3 DEF Idxs
  <2>5. ASSUME NEW s \in rows, s # r PROVE Before(r, s)
    <3>1. ~ Before(s, r)
      <4>1. e <= s.epoch
        BY <1>0, <2>1 DEF Epochs
      <4>2. s.epoch = e => t <= s.key.ts
        BY <1>0, <2>2 DEF Times
      <4>3. s.epoch = e /\ s.key.ts = t => i <= s.key.idx
        BY <1>0, <2>3 DEF Idxs
      <4> QED
        BY <1>2, <1>3, <2>4, <4>1, <4>2, <4>3 DEF Before, KeyBefore
    <3> QED
      BY <1>3, <2>5, <3>1, RowsDiffer
  <2> QED
    BY <2>5
<1>8. \E r \in rows : \A s \in rows \ {r} : Before(s, r)
  <2>1. PICK e \in Epochs : Greatest(Epochs, e)
    <3>1. Epochs \in SUBSET (0 .. MaxEpoch) /\ Epochs # {} /\ MaxEpoch \in Nat
      BY <1>2, <1>4
    <3>2. \E m \in Epochs : Greatest(Epochs, m)
      BY <1>1, <3>1
    <3> QED
      BY <3>2, Zenon
  <2>2. PICK t \in Times(e) : Greatest(Times(e), t)
    <3>1. Times(e) \in SUBSET (0 .. MaxTs) /\ Times(e) # {} /\ MaxTs \in Nat
      BY <1>2, <1>5
    <3>2. \E m \in Times(e) : Greatest(Times(e), m)
      BY <1>1, <3>1
    <3> QED
      BY <3>2, Zenon
  <2>3. PICK i \in Idxs(e, t) : Greatest(Idxs(e, t), i)
    <3>1. Idxs(e, t) \in SUBSET (0 .. MaxRecords) /\ Idxs(e, t) # {} /\ MaxRecords \in Nat
      BY <1>2, <1>6
    <3>2. \E m \in Idxs(e, t) : Greatest(Idxs(e, t), m)
      BY <1>1, <3>1
    <3> QED
      BY <3>2, Zenon
  <2>4. PICK r \in rows : r.epoch = e /\ r.key.ts = t /\ r.key.idx = i
    BY <2>3 DEF Idxs
  <2>5. ASSUME NEW s \in rows, s # r PROVE Before(s, r)
    <3>1. ~ Before(r, s)
      <4>1. s.epoch <= e
        BY <1>0, <2>1 DEF Epochs
      <4>2. s.epoch = e => s.key.ts <= t
        BY <1>0, <2>2 DEF Times
      <4>3. s.epoch = e /\ s.key.ts = t => s.key.idx <= i
        BY <1>0, <2>3 DEF Idxs
      <4> QED
        BY <1>2, <1>3, <2>4, <4>1, <4>2, <4>3 DEF Before, KeyBefore
    <3> QED
      BY <1>3, <2>5, <3>1, RowsDiffer
  <2> QED
    BY <2>5
<1> QED
  BY <1>7, <1>8

(* LastRow is a row, and comes after the other ones.                       *)
LEMMA LastRowIsLast ==
  ASSUME NEW rows \in SUBSET Row, rows # {}
  PROVE  /\ LastRow(rows) \in rows
         /\ \A s \in rows \ {LastRow(rows)} : Sooner(s, LastRow(rows))
<1>1. \E r \in rows : \A s \in rows \ {r} : Sooner(s, r)
  BY EndRows DEF Sooner
<1> QED
  BY <1>1 DEF LastRow

-----------------------------------------------------------------------------
(* What has been returned is not ahead of the cursor.                      *)
Behind == \A r \in got : ~ Ahead(r)

(* The types of what the reader keeps, as far as they matter.              *)
Shape == /\ got \in SUBSET Row
         /\ cursor \in Row \cup {NoCursor}
         /\ "again" \in DOMAIN session

(* The inductive invariant of NoRowTwice.                                  *)
Inv == Shape /\ session.again = FALSE /\ Behind

(* No row is taken for the lack of a cursor.                               *)
LEMMA NoCursorIsNoRow == NoCursor \notin Row
<1>1. SUFFICES ASSUME NoCursor \in Row PROVE FALSE
  OBVIOUS
<1>2. NoCursor.key.ts \in 1 .. MaxTs
  BY <1>1, RowFields
<1> QED
  BY <1>2 DEF NoCursor

(* The first state.                                                        *)
LEMMA InitIsInv == Init => Inv
BY DEF Init, Inv, Shape, Behind, NoSession

(* The service does not touch the reader.                                  *)
LEMMA ServiceKeeps == Inv /\ Service => Inv'
<1> SUFFICES ASSUME Inv, Service PROVE Inv'
  OBVIOUS
<1>1. UNCHANGED reader
  <2>1. ASSUME NEW ts \in Time, Write(ts) PROVE UNCHANGED reader
    BY <2>1 DEF Write
  <2>2. Crash \/ CommitLive => UNCHANGED reader
    BY DEF Crash, CommitLive
  <2>3. Replay => UNCHANGED reader
    BY DEF Replay
  <2>4. Rotate => UNCHANGED reader
    BY DEF Rotate
  <2>5. RotateFails => UNCHANGED reader
    BY DEF RotateFails
  <2> QED
    BY <2>1, <2>2, <2>3, <2>4, <2>5 DEF Service
<1> QED
  BY <1>1 DEF Inv, Shape, Behind, Ahead, reader

(* Behind one cursor is behind every cursor ahead of it, and a page's last *)
(* row leaves the whole page behind.                                       *)
LEMMA CursorMoves ==
  ASSUME NEW c \in Row, cursor \in Row \cup {NoCursor}, Ahead(c),
         cursor' = c, scenario' = scenario
  PROVE  /\ \A r \in Row : ~ Ahead(r) => ~ Ahead(r)'
         /\ \A r \in Row : r = c \/ Sooner(r, c) => ~ Ahead(r)'
<1>1. c # NoCursor
  BY NoCursorIsNoRow
<1>2. /\ c.epoch \in Nat /\ c.key.ts \in Nat /\ c.key.idx \in Nat
      /\ \A r \in Row : r.epoch \in Nat /\ r.key.ts \in Nat /\ r.key.idx \in Nat
  BY RowFields, PagingAssumption
<1>3. cursor.epoch \in Nat /\ cursor.key.ts \in Nat /\ cursor.key.idx \in Nat
  BY <1>2 DEF NoCursor
<1>4. ASSUME NEW r \in Row, ~ Ahead(r) PROVE ~ Ahead(r)'
  <2>1. CASE scenario.forward
    BY <1>1, <1>2, <1>3, <1>4, <2>1 DEF Ahead, KeyBefore
  <2>2. CASE ~ scenario.forward
    BY <1>1, <1>2, <1>3, <1>4, <2>2 DEF Ahead, KeyBefore
  <2> QED
    BY <2>1, <2>2
<1>5. ASSUME NEW r \in Row, r = c \/ Sooner(r, c) PROVE ~ Ahead(r)'
  <2>1. CASE scenario.forward
    BY <1>1, <1>2, <1>5, <2>1 DEF Ahead, Sooner, Before, KeyBefore
  <2>2. CASE ~ scenario.forward
    BY <1>1, <1>2, <1>5, <2>2 DEF Ahead, Sooner, Before, KeyBefore
  <2> QED
    BY <2>1, <2>2
<1> QED
  BY <1>4, <1>5

(* A page returns rows that were ahead of the cursor and leaves all of     *)
(* them behind.                                                            *)
LEMMA PageKeeps == Inv /\ Page => Inv'
<1> SUFFICES ASSUME Inv, Page PROVE Inv'
  OBVIOUS
<1> USE DEF Inv, Shape
<1> DEFINE rows == {r \in InScan : Ahead(r)}
<1>1. PICK some \in SUBSET rows :
        /\ got' = got \cup Passing(some)
        /\ cursor' = IF some = {} THEN cursor ELSE LastRow(some)
        /\ session' = [session EXCEPT
             !.phase = IF Cardinality(some) >= scenario.limit THEN "Paging" ELSE "Done",
             !.again = @ \/ some \cap got # {}]
  BY DEF Page
<1>2. scenario' = scenario
  BY DEF Page, service
<1>3. some \in SUBSET Row /\ \A r \in some : Ahead(r)
  BY DEF InScan
<1>4. some \cap got = {}
  BY <1>3, Zenon DEF Behind
<1>5. "again" \in DOMAIN session' /\ session'.again = FALSE
  <2>1. "again" \in DOMAIN session' /\ session'.again = (session.again \/ some \cap got # {})
    BY <1>1
  <2>2. (session.again \/ some \cap got # {}) = FALSE
    BY <1>4, Zenon
  <2> QED
    BY <2>1, <2>2, Zenon
<1>6. Passing(some) \subseteq some
  BY DEF Passing
<1>7. got' \in SUBSET Row /\ cursor' \in Row \cup {NoCursor} /\ Behind'
  <2>1. CASE some = {}
    BY <1>1, <1>2, <1>6, <2>1 DEF Behind, Ahead
  <2>2. CASE some # {}
    <3> DEFINE c == LastRow(some)
    <3>1. c \in some /\ \A s \in some \ {c} : Sooner(s, c)
      BY <1>3, <2>2, LastRowIsLast
    <3>2. c \in Row /\ Ahead(c) /\ cursor' = c
      BY <1>1, <1>3, <2>2, <3>1
    <3> HIDE DEF c
    <3>3. /\ \A r \in Row : ~ Ahead(r) => ~ Ahead(r)'
          /\ \A r \in Row : r = c \/ Sooner(r, c) => ~ Ahead(r)'
      BY <1>2, <3>2, CursorMoves
    <3>4. got' = got \cup Passing(some)
      BY <1>1
    <3>5. ASSUME NEW r \in got' PROVE r \in Row /\ ~ Ahead(r)'
      <4>1. CASE r \in got
        BY <3>3, <4>1 DEF Behind
      <4>2. CASE r \in some
        BY <1>3, <3>1, <3>3, <4>2
      <4> QED
        BY <1>6, <3>4, <3>5, <4>1, <4>2
    <3> QED
      BY <3>2, <3>5 DEF Behind
  <2> QED
    BY <2>1, <2>2
<1> QED
  BY <1>5, <1>7

(* What the reader does beside paging starts or ends a session.            *)
LEMMA ReaderKeeps == Inv /\ Reader => Inv'
<1> SUFFICES ASSUME Inv, Reader PROVE Inv'
  OBVIOUS
<1> USE DEF Inv, Shape, Behind
<1>1. ASSUME NEW p, NEW s, NEW d, Begin(p, s, d) PROVE Inv'
  BY <1>1 DEF Begin, service, Ahead
<1>2. CASE OpenRegistry
  BY <1>2 DEF OpenRegistry, NoSession, service, Ahead
<1>3. CASE OpenWithWindow
  BY <1>1, <1>3 DEF OpenWithWindow
<1>4. CASE OpenForConn
  BY <1>1, <1>4 DEF OpenForConn
<1>5. CASE Build
  BY <1>5 DEF Build, service, Ahead
<1>6. CASE Page
  BY <1>6, PageKeeps
<1>7. CASE Close
  BY <1>7 DEF Close, NoSession
<1> QED
  BY <1>2, <1>3, <1>4, <1>5, <1>6, <1>7 DEF Reader

(* No page of a scan returns a row that an earlier page of it has          *)
(* returned, whatever the service writes, rotates, loses and writes again  *)
(* between the pages, however small the page and in either direction: the  *)
(* cursor of a page is its last row, what was returned is not ahead of it, *)
(* and a page holds only rows ahead of its cursor (scan_epoch_range).      *)
THEOREM NoRowTwiceTheorem == Spec => []NoRowTwice
<1>1. Init => Inv
  BY InitIsInv
<1>2. Inv /\ [Next]_vars => Inv'
  <2> SUFFICES ASSUME Inv, [Next]_vars PROVE Inv'
    OBVIOUS
  <2>1. CASE Next
    BY <2>1, ServiceKeeps, ReaderKeeps DEF Next
  <2>2. CASE UNCHANGED vars
    BY <2>2 DEF vars, reader, Inv, Shape, Behind, Ahead
  <2> QED
    BY <2>1, <2>2
<1>3. Inv => NoRowTwice
  BY Zenon DEF Inv, NoRowTwice
<1> QED
  BY <1>1, <1>2, <1>3, PTL DEF Spec

-----------------------------------------------------------------------------
(* There are finitely many rows.                                           *)
LEMMA RowsFinite == IsFiniteSet(Row)
<1> DEFINE P == (EpochNum \X Time) \X (1 .. MaxRecords)
           g == [r \in Row |-> <<<<r.epoch, r.key.ts>>, r.key.idx>>]
<1>1. IsFiniteSet(EpochNum) /\ IsFiniteSet(Time) /\ IsFiniteSet(1 .. MaxRecords)
  BY PagingAssumption, FS_Interval DEF EpochNum, Time
<1>2. IsFiniteSet(P)
  BY <1>1, FS_Product
<1>3. ASSUME NEW r \in Row PROVE <<<<r.epoch, r.key.ts>>, r.key.idx>> \in P
  BY RowFields DEF EpochNum, Time
<1>4. ASSUME NEW r \in Row, NEW s \in Row, g[r] = g[s] PROVE r = s
  <2>1. r.epoch = s.epoch /\ r.key.ts = s.key.ts /\ r.key.idx = s.key.idx
    BY <1>4
  <2>2. /\ r = [epoch |-> r.epoch, key |-> [ts |-> r.key.ts, idx |-> r.key.idx]]
        /\ s = [epoch |-> s.epoch, key |-> [ts |-> s.key.ts, idx |-> s.key.idx]]
    BY RowFields, Zenon
  <2> QED
    BY <2>1, <2>2, Zenon
<1>5. g \in [Row -> P] /\ DOMAIN g = Row
  BY <1>3
<1> HIDE DEF g, P
<1>6. g \in Injection(Row, P)
  BY <1>4, <1>5 DEF Injection, IsInjective
<1> QED
  BY <1>2, <1>6, FS_Injection

(* The boundaries of an epoch are on either side of the time of each of    *)
(* its records.                                                            *)
LEMMA EndTimes ==
  ASSUME NEW e \in EpochNum, epochs[e] \subseteq Key, NEW k \in epochs[e]
  PROVE  Min(TimesOf(e)) <= k.ts /\ k.ts <= Max(TimesOf(e)) /\ {Min(TimesOf(e)), Max(TimesOf(e))} \subseteq Nat
<1>1. MaxTs \in Nat /\ TimesOf(e) \in SUBSET (0 .. MaxTs) /\ k.ts \in TimesOf(e)
  BY PagingAssumption DEF TimesOf, Key, Time
<1>2. /\ \E x \in TimesOf(e) : \A y \in TimesOf(e) : x <= y
      /\ \E x \in TimesOf(e) : \A y \in TimesOf(e) : y <= x
  BY <1>1, Extremes
<1>3. \E x \in TimesOf(e) : \A y \in TimesOf(e) : x >= y
  BY <1>1, <1>2
<1>4. Min(TimesOf(e)) \in TimesOf(e) /\ \A y \in TimesOf(e) : Min(TimesOf(e)) <= y
  BY <1>2 DEF Min
<1>5. Max(TimesOf(e)) \in TimesOf(e) /\ \A y \in TimesOf(e) : Max(TimesOf(e)) >= y
  BY <1>3 DEF Max
<1> QED
  BY <1>1, <1>4, <1>5

(* The types of what the service and the reader keep. A session that has   *)
(* not built its list of epochs has no cursor.                             *)
Disk ==
  /\ scenario \in Scenarios /\ {current, made} \subseteq 0 .. scenario.epochs
  /\ DOMAIN epochs = EpochNum /\ (\A e \in EpochNum : epochs[e] \subseteq Key)
  /\ redo \subseteq Key /\ batch \subseteq Key /\ seen \subseteq Key
  /\ DOMAIN bounds = EpochNum
  /\ {"records", "crashes", "failed"} \subseteq DOMAIN count /\ {count.records, count.failed} \subseteq Nat
  /\ {"first", "last"} = DOMAIN conn /\ (conn # NoConn => conn.first \in Time /\ conn.last \in Time)
  /\ DOMAIN session = DOMAIN NoSession
  /\ session.phase \in {"Closed", "Opened", "Windowed"} => cursor = NoCursor

(* The epochs before the current one have their boundaries in the ledger;  *)
(* the current one has none, and those after it are empty.                 *)
Frozen ==
  /\ made = current
  /\ \A e \in EpochNum : /\ e < current => bounds[e] = BoundsOf(e)
                         /\ e >= current => bounds[e] = NoBounds
                         /\ e > current => epochs[e] = {}

(* The time of a record is within the connection's first_ts and last_ts.   *)
Spans(k) == conn # NoConn /\ conn.first <= k.ts /\ k.ts <= conn.last

(* Some epoch has the record.                                              *)
OnDisk(k) == \E e \in EpochNum : k \in epochs[e]

(* The records on disk are numbered up to the newest, which there is one   *)
(* of; what is being committed or is to be written again is the newest.    *)
Numbered ==
  /\ \A k : OnDisk(k) => k.idx <= count.records
  /\ \A k, l : OnDisk(k) /\ OnDisk(l) /\ k.idx = count.records /\ l.idx = count.records => k = l
  /\ \A k \in batch \cup redo : OnDisk(k) /\ k.idx = count.records

(* Where records are captured in order the connection's state spans every  *)
(* record live was committed with, and the newest on disk is not before    *)
(* its end.                                                                *)
Spanned ==
  ~scenario.reordered =>
    /\ conn # NoConn => conn.first <= conn.last
    /\ \A k \in seen : Spans(k)
    /\ \A k : OnDisk(k) /\ k.idx = count.records /\ conn # NoConn => conn.last <= k.ts

(* A row is on disk and in the window of the scan.                         *)
There(r) == r \in Row /\ r.key \in epochs[r.epoch] /\ Within(r.key, session.window)

(* A row needs no further page.                                            *)
Returned(r) == r \in got \/ r.key.idx \in scenario.dropped

(* Before the list of epochs is built every promised row is on disk and in *)
(* the window the epochs are pruned by; from then on it is in the scan,    *)
(* and has been returned or is ahead of the cursor of a scan that goes on. *)
Promise ==
  /\ session.phase = "Windowed" =>
       /\ {session.pruning.from, session.pruning.to} \subseteq Nat
       /\ \A r \in session.promised : There(r) /\ Within(r.key, session.pruning)
  /\ session.phase \in {"Paging", "Done"} =>
       \A r \in session.promised : r \in InScan /\ (Returned(r) \/ (Ahead(r) /\ session.phase = "Paging"))

(* The inductive invariant. The promise holds of scans as in Askable only; *)
(* the rest of it always.                                                  *)
Complete == Inv /\ Disk /\ Numbered /\ (Askable => Frozen /\ Spanned /\ Promise)

(* The first state.                                                        *)
LEMMA CompleteInit == Init => Complete
<1> SUFFICES ASSUME Init PROVE Complete
  OBVIOUS
<1>1. scenario \in Scenarios /\ scenario.epochs \in Nat
  BY PagingAssumption DEF Init
<1>2. Disk
  BY <1>1 DEF Init, Disk, NoConn, NoSession
<1>3. Frozen /\ Promise
  BY <1>1 DEF Init, Frozen, Promise, NoSession, EpochNum
<1>4. (\A k : ~OnDisk(k)) /\ batch \cup redo = {} /\ seen = {} /\ conn = NoConn
  BY DEF Init, OnDisk
<1>5. Numbered /\ Spanned
  BY <1>4 DEF Numbered, Spanned
<1> QED
  BY <1>2, <1>3, <1>5, InitIsInv DEF Complete

(* The types of the scenario's fields and of the epoch numbers.            *)
LEMMA ScenarioType ==
  ASSUME Disk
  PROVE  /\ scenario.limit \in Nat \ {0} /\ scenario.epochs \in 0 .. MaxEpoch /\ scenario.failed \in Nat
         /\ {MaxEpoch, MaxTs, MaxRecords} \subseteq Nat
         /\ current \in Nat /\ current \in EpochNum /\ scenario.forward \in BOOLEAN
         /\ scenario.reordered \in BOOLEAN /\ scenario.byConn \in BOOLEAN
BY PagingAssumption DEF Disk, EpochNum

(* Rows do not leave a scan when epochs only grow.                         *)
LEMMA InScanGrows ==
  ASSUME UNCHANGED session, \A e \in EpochNum : epochs[e] \subseteq epochs'[e]
  PROVE  \A r \in InScan : r \in InScan'
<1>1. \A r \in Row : r.epoch \in EpochNum
  BY RowFields DEF EpochNum
<1> QED
  BY <1>1 DEF InScan, Content, Within

(* What the service does beside a scan keeps the promise, as long as no    *)
(* record leaves an epoch.                                                 *)
LEMMA PromiseKept ==
  ASSUME Complete, Askable, UNCHANGED reader, \A e \in EpochNum : epochs[e] \subseteq epochs'[e]
  PROVE  Promise'
<1>0. Promise /\ UNCHANGED <<scenario, session, cursor, got>>
  BY DEF Complete, reader
<1>1. \A r \in InScan : r \in InScan'
  BY <1>0, InScanGrows
<1>2. \A r : There(r) => There(r)'
  BY <1>0, RowFields DEF There, Within, EpochNum
<1>3. \A r : (Returned(r) => Returned(r)') /\ (Ahead(r) => Ahead(r)')
  BY <1>0 DEF Returned, Ahead
<1>4. \A r : Within(r.key, session.pruning) => Within(r.key, session'.pruning)
  BY <1>0
<1> HIDE DEF There, Returned, Ahead, InScan, Within
<1> QED
  BY <1>0, <1>1, <1>2, <1>3, <1>4 DEF Promise

(* Where neither the records on disk nor what live knows of them change,   *)
(* nothing changes in what is said of them.                                *)
LEMMA NothingSeen ==
  ASSUME UNCHANGED <<scenario, epochs, conn, seen>>, count'.records = count.records,
         batch' \cup redo' \subseteq batch \cup redo
  PROVE  (Numbered => Numbered') /\ (Spanned => Spanned')
<1>1. \A k : OnDisk(k)' <=> OnDisk(k)
  BY DEF OnDisk
<1>2. \A k : Spans(k)' <=> Spans(k)
  BY DEF Spans
<1> HIDE DEF OnDisk, Spans
<1> QED
  BY <1>1, <1>2 DEF Numbered, Spanned

(* A record goes to the current epoch, which has no boundaries yet, and is *)
(* the newest.                                                             *)
LEMMA WriteCompletes == ASSUME Complete, NEW ts \in Time, Write(ts) PROVE Complete'
<1>0. Disk /\ Inv /\ Numbered
  BY DEF Complete
<1> DEFINE key == [ts |-> ts, idx |-> count.records + 1]
<1>1. /\ redo = {} /\ count.records < MaxRecords /\ (scenario.reordered \/ conn = NoConn \/ ts >= conn.last)
      /\ epochs' = [epochs EXCEPT ![current] = epochs[current] \cup {key}]
      /\ batch' = {key} /\ count' = [count EXCEPT !.records = @ + 1]
      /\ UNCHANGED <<current, made, bounds, conn, seen, redo>> /\ UNCHANGED reader
      /\ scenario' = scenario
  BY DEF Write, reader
<1>2. key \in Key /\ key.ts = ts /\ key.idx = count.records + 1
  BY <1>0, <1>1, ScenarioType DEF Disk, Key
<1> HIDE DEF key
<1>3. /\ DOMAIN epochs' = EpochNum /\ epochs'[current] = epochs[current] \cup {key}
      /\ \A e \in EpochNum : e # current => epochs'[e] = epochs[e]
      /\ current \in EpochNum
  BY <1>0, <1>1, ScenarioType DEF Disk
<1>4. DOMAIN count' = DOMAIN count /\ count'.records = count.records + 1 /\ count.records \in Nat
      /\ count'.failed = count.failed
  BY <1>0, <1>1 DEF Disk
<1>5. \A k : OnDisk(k)' <=> OnDisk(k) \/ k = key
  BY <1>3 DEF OnDisk
<1>6. Disk'
  <2>1. \A e \in EpochNum : epochs'[e] \subseteq Key
    BY <1>0, <1>2, <1>3 DEF Disk
  <2>2. {"records", "crashes", "failed"} \subseteq DOMAIN count' /\ {count'.records, count'.failed} \subseteq Nat
    BY <1>0, <1>4 DEF Disk
  <2> QED
    BY <1>0, <1>1, <1>2, <1>3, <2>1, <2>2 DEF Disk, reader
<1>7. Inv'
  BY <1>0, <1>1, ServiceKeeps DEF Service
<1>10. Numbered' /\ \A k : OnDisk(k)' /\ k.idx = count'.records => k = key
  <2>1. \A k : OnDisk(k) => k.idx \in Nat /\ k.idx <= count.records
    BY <1>0, PagingAssumption DEF Numbered, Disk, OnDisk, Key
  <2> HIDE DEF OnDisk
  <2>2. \A k : OnDisk(k)' => k.idx <= count'.records /\ (k.idx = count'.records => k = key)
    BY <1>2, <1>4, <1>5, <2>1
  <2>3. \A k \in batch' \cup redo' : OnDisk(k)' /\ k.idx = count'.records
    BY <1>1, <1>2, <1>4, <1>5
  <2> QED
    BY <2>2, <2>3 DEF Numbered
<1>8. ASSUME Askable PROVE Frozen' /\ Spanned' /\ Promise'
  <2>1. Frozen /\ Spanned
    BY <1>8 DEF Complete
  <2>2. Frozen'
    <3>1. \A e \in EpochNum : e # current => TimesOf(e)' = TimesOf(e) /\ BoundsOf(e)' = BoundsOf(e)
      BY <1>3 DEF TimesOf, BoundsOf
    <3>2. \A e \in EpochNum : e # current => epochs'[e] = epochs[e]
      BY <1>3
    <3>3. current \in Nat /\ EpochNum \subseteq Nat
      BY <1>0, ScenarioType DEF EpochNum
    <3>4. made' = current' /\ current' = current /\ bounds' = bounds
      BY <1>1, <2>1 DEF Frozen
    <3>5. ASSUME NEW e \in EpochNum
          PROVE  /\ e < current => bounds[e] = BoundsOf(e)'
                 /\ e >= current => bounds[e] = NoBounds
                 /\ e > current => epochs'[e] = {}
      <4>1. /\ e < current => bounds[e] = BoundsOf(e)
            /\ e >= current => bounds[e] = NoBounds
            /\ e > current => epochs[e] = {}
        BY <2>1 DEF Frozen
      <4>2. e < current \/ e > current => e # current
        BY <3>3
      <4> QED
        BY <3>1, <3>2, <4>1, <4>2, Zenon
    <3> QED
      BY <3>4, <3>5 DEF Frozen
  <2>3. Spanned'
    <3> SUFFICES ASSUME ~scenario.reordered
                 PROVE  /\ conn # NoConn => conn.first <= conn.last
                        /\ \A k \in seen : Spans(k)'
                        /\ \A k : OnDisk(k)' /\ k.idx = count'.records /\ conn # NoConn => conn.last <= k.ts
      BY <1>1 DEF Spanned
    <3>1. conn # NoConn => conn.last <= ts
      <4>1. conn # NoConn => conn.last \in Nat /\ ts \in Nat
        BY <1>0, PagingAssumption DEF Disk, Time
      <4> QED
        BY <1>1, <4>1
    <3>2. \A k : Spans(k)' <=> Spans(k)
      BY <1>1 DEF Spans
    <3> QED
      BY <1>2, <1>10, <2>1, <3>1, <3>2 DEF Spanned
  <2>4. Promise'
    BY <1>1, <1>3, <1>8, PromiseKept
  <2> QED
    BY <2>2, <2>3, <2>4
<1>9. Askable' => Askable
  BY <1>1 DEF Askable
<1> QED
  BY <1>6, <1>7, <1>8, <1>9, <1>10 DEF Complete

(* The commit of live extends the connection's span to the newest record.  *)
LEMMA CommitLiveCompletes == ASSUME Complete, CommitLive PROVE Complete'
<1>0. Disk /\ Inv /\ Numbered
  BY DEF Complete
<1>1. /\ UNCHANGED reader /\ scenario' = scenario /\ seen' = seen \cup batch /\ batch' = {}
      /\ UNCHANGED <<epochs, current, made, bounds, redo, count>>
  BY DEF CommitLive, reader
<1>2. PICK b \in batch : conn' = Handled(b.ts)
  BY DEF CommitLive
<1>3. /\ b \in Key /\ b.ts \in Time /\ OnDisk(b) /\ b.idx = count.records
      /\ \A k \in batch : k = b
  BY <1>0, <1>2 DEF Disk, Key, Numbered
<1>4. /\ {"first", "last"} = DOMAIN conn' /\ conn'.last = b.ts /\ conn'.first \in Time
      /\ conn'.first = (IF conn = NoConn THEN b.ts ELSE conn.first)
  BY <1>0, <1>2, <1>3 DEF Disk, Handled
<1>5. conn' # NoConn
  BY <1>3, <1>4, PagingAssumption DEF NoConn, Time
<1>6. Disk'
  BY <1>0, <1>1, <1>3, <1>4 DEF Disk, reader
<1>7. Inv'
  BY <1>0, CommitLive, ServiceKeeps DEF Service
<1>8. \A k : OnDisk(k)' <=> OnDisk(k)
  BY <1>1 DEF OnDisk
<1>9. Numbered'
  BY <1>0, <1>1, <1>8 DEF Numbered
<1>10. Askable' => Askable
  BY <1>1 DEF Askable
<1>11. ASSUME Askable PROVE Frozen' /\ Spanned' /\ Promise'
  <2>1. Frozen /\ Spanned
    BY <1>11 DEF Complete
  <2>2. Frozen'
    BY <1>1, <2>1 DEF Frozen, BoundsOf, TimesOf
  <2>3. Spanned'
    <3> SUFFICES ASSUME ~scenario.reordered
                 PROVE  /\ conn'.first <= conn'.last
                        /\ \A k \in seen \cup batch : Spans(k)'
                        /\ \A k : OnDisk(k) /\ k.idx = count.records => conn'.last <= k.ts
      BY <1>1, <1>8 DEF Spanned
    <3>1. b.ts \in Nat /\ conn'.first \in Nat
      BY <1>3, <1>4, PagingAssumption DEF Time
    <3>2. conn # NoConn => /\ conn.first \in Nat /\ conn.last \in Nat
                           /\ conn.first <= conn.last /\ conn.last <= b.ts
      BY <1>0, <1>3, <2>1, PagingAssumption DEF Disk, Spanned, Time
    <3>3. conn'.first <= b.ts
      BY <1>4, <3>1, <3>2
    <3>4. ASSUME NEW k \in seen \cup batch PROVE Spans(k)'
      <4>1. CASE k = b
        BY <1>4, <1>5, <3>1, <3>3, <4>1 DEF Spans
      <4>2. CASE k \in seen
        <5>1. conn # NoConn /\ conn.first <= k.ts /\ k.ts <= conn.last
          BY <2>1, <4>2 DEF Spanned, Spans
        <5>2. k.ts \in Nat
          BY <1>0, <4>2, PagingAssumption DEF Disk, Key, Time
        <5> QED
          BY <1>4, <1>5, <3>1, <3>2, <5>1, <5>2 DEF Spans
      <4> QED
        BY <1>3, <4>1, <4>2
    <3>5. \A k : OnDisk(k) /\ k.idx = count.records => k = b
      BY <1>0, <1>3 DEF Numbered
    <3> QED
      BY <1>4, <3>1, <3>3, <3>4, <3>5
  <2>4. Promise'
    BY <1>1, <1>11, PromiseKept
  <2> QED
    BY <2>2, <2>3, <2>4
<1> QED
  BY <1>6, <1>7, <1>9, <1>10, <1>11 DEF Complete

(* The service comes back in the highest epoch there is, which is the      *)
(* current one when no rotation has failed.                                *)
LEMMA CrashCompletes == ASSUME Complete, Crash PROVE Complete'
<1>0. Disk /\ Inv
  BY DEF Complete
<1>1. /\ UNCHANGED reader /\ scenario' = scenario /\ conn' = conn /\ seen' = seen
      /\ redo' \subseteq epochs[current] /\ (\A k \in redo' : k.idx = count.records)
      /\ current' = made /\ batch' = {}
      /\ UNCHANGED <<epochs, made, bounds>>
      /\ count' = [count EXCEPT !.crashes = @ + 1]
  BY DEF Crash, reader
<1>2. Inv'
  BY <1>0, <1>1, Crash, ServiceKeeps DEF Service
<1>3. current \in EpochNum /\ redo' \subseteq Key
  BY <1>0, <1>1, ScenarioType DEF Disk
<1>4. Askable' => Askable
  BY <1>1 DEF Askable
<1>5. Disk'
  BY <1>0, <1>1, <1>3 DEF Disk, reader
<1>7. count'.records = count.records
  BY <1>0, <1>1 DEF Disk
<1>8. (\A k : OnDisk(k)' <=> OnDisk(k)) /\ (\A k : Spans(k)' <=> Spans(k))
  BY <1>1 DEF OnDisk, Spans
<1>9. \A k \in redo' : OnDisk(k)
  BY <1>1, <1>3 DEF OnDisk
<1>10. Numbered' /\ (Spanned => Spanned')
  <2> HIDE DEF OnDisk, Spans
  <2>1. Numbered
    BY DEF Complete
  <2>2. Numbered'
    BY <1>1, <1>7, <1>8, <1>9, <2>1 DEF Numbered
  <2>3. Spanned => Spanned'
    BY <1>1, <1>7, <1>8 DEF Spanned
  <2> QED
    BY <2>2, <2>3
<1>6. ASSUME Askable PROVE Frozen' /\ Spanned' /\ Promise'
  <2>1. Frozen /\ Spanned
    BY <1>6 DEF Complete
  <2>2. Frozen'
    BY <1>1, <2>1 DEF Frozen, BoundsOf, TimesOf
  <2>4. Promise'
    BY <1>1, <1>6, PromiseKept
  <2> QED
    BY <1>10, <2>1, <2>2, <2>4
<1> QED
  BY <1>2, <1>4, <1>5, <1>6, <1>10 DEF Complete

(* A record written again may fall in a later epoch than the first time;   *)
(* the promised row, in the first, stays.                                  *)
LEMMA ReplayCompletes == ASSUME Complete, Replay PROVE Complete'
<1>0. Disk /\ Inv
  BY DEF Complete
<1>1. /\ UNCHANGED reader /\ scenario' = scenario /\ redo' = {} /\ batch' = redo
      /\ epochs' = [epochs EXCEPT ![current] = @ \cup redo]
      /\ UNCHANGED <<current, made, bounds, conn, seen, count>>
  BY DEF Replay, reader
<1>2. Inv'
  BY <1>0, <1>1, Replay, ServiceKeeps DEF Service
<1>3. /\ current \in EpochNum /\ DOMAIN epochs' = EpochNum
      /\ epochs'[current] = epochs[current] \cup redo
      /\ \A e \in EpochNum : e # current => epochs'[e] = epochs[e]
  BY <1>0, <1>1, ScenarioType DEF Disk
<1>4. Askable' => Askable
  BY <1>1 DEF Askable
<1>5. Disk'
  BY <1>0, <1>1, <1>3 DEF Disk, reader
<1>7. Numbered' /\ (Spanned => Spanned')
  <2>1. Numbered /\ \A k \in redo : OnDisk(k)
    BY DEF Complete, Numbered
  <2>2. (\A k : OnDisk(k)' <=> OnDisk(k)) /\ (\A k : Spans(k)' <=> Spans(k))
    BY <1>1, <1>3, <2>1 DEF OnDisk, Spans
  <2> HIDE DEF OnDisk, Spans
  <2>3. Numbered'
    BY <1>1, <2>1, <2>2 DEF Numbered
  <2>4. Spanned => Spanned'
    BY <1>1, <2>2 DEF Spanned
  <2> QED
    BY <2>3, <2>4
<1>6. ASSUME Askable PROVE Frozen' /\ Spanned' /\ Promise'
  <2>1. Frozen /\ Spanned
    BY <1>6 DEF Complete
  <2>2. Frozen'
    <3>1. \A e \in EpochNum : e # current => TimesOf(e)' = TimesOf(e) /\ BoundsOf(e)' = BoundsOf(e)
      BY <1>3 DEF TimesOf, BoundsOf
    <3>2. current \in Nat /\ EpochNum \subseteq Nat
      BY <1>0, ScenarioType DEF EpochNum
    <3>3. \A e \in EpochNum : e < current \/ e > current => e # current
      BY <3>2
    <3> QED
      BY <1>1, <1>3, <2>1, <3>1, <3>3 DEF Frozen
  <2>4. Promise'
    BY <1>1, <1>3, <1>6, PromiseKept
  <2> QED
    BY <1>7, <2>1, <2>2, <2>4
<1> QED
  BY <1>2, <1>4, <1>5, <1>6, <1>7 DEF Complete

(* The epoch a rotation makes is one of those there may be, and the next   *)
(* one when none was made without being switched to.                       *)
LEMMA HighestType ==
  ASSUME Disk, current < scenario.epochs
  PROVE  Highest \in 0 .. scenario.epochs /\ (made = current => Highest = current + 1)
<1>1. current \in Nat /\ made \in Nat /\ scenario.epochs \in Nat /\ made <= scenario.epochs
  BY ScenarioType DEF Disk
<1> DEFINE S == {made, current + 1}
<1>2. \E x \in S : \A y \in S : x >= y
  BY <1>1
<1>3. Max(S) \in S /\ \A y \in S : Max(S) >= y
  BY <1>2 DEF Max
<1>4. Highest = Max(S)
  BY DEF Highest
<1> HIDE DEF S
<1>5. Highest = made \/ Highest = current + 1
  BY <1>3, <1>4 DEF S
<1>6. Highest >= current + 1
  BY <1>3, <1>4 DEF S
<1> QED
  BY <1>1, <1>5, <1>6

(* The boundaries are those of every record of the epoch, as it is left;   *)
(* the next epoch is empty.                                                *)
LEMMA RotateCompletes == ASSUME Complete, Rotate PROVE Complete'
<1>0. Disk /\ Inv
  BY DEF Complete
<1>1. /\ UNCHANGED reader /\ scenario' = scenario
      /\ current < scenario.epochs /\ current' = current + 1 /\ made' = Highest
      /\ bounds' = [bounds EXCEPT ![current] = BoundsOf(current)]
      /\ UNCHANGED <<epochs, batch, conn, seen, redo, count>>
  BY DEF Rotate, Freeze, reader
<1>2. Inv'
  BY <1>0, <1>1, Rotate, ServiceKeeps DEF Service
<1>3. /\ current \in EpochNum /\ current \in Nat /\ scenario.epochs \in Nat
      /\ EpochNum \subseteq Nat
  BY <1>0, ScenarioType DEF EpochNum
<1>4. Askable' => Askable
  BY <1>1 DEF Askable
<1>5. Disk'
  <2>1. {current', made'} \subseteq 0 .. scenario.epochs
    BY <1>0, <1>1, <1>3, HighestType
  <2> QED
    BY <1>0, <1>1, <2>1 DEF Disk, reader
<1>6. ASSUME Askable PROVE Frozen' /\ Spanned' /\ Promise'
  <2>1. Frozen /\ Spanned
    BY <1>6 DEF Complete
  <2>2. Frozen'
    <3>1. made' = current + 1
      BY <1>0, <1>1, <2>1, HighestType DEF Frozen
    <3>2. \A e \in EpochNum : BoundsOf(e)' = BoundsOf(e)
      BY <1>1 DEF BoundsOf, TimesOf
    <3>3. /\ bounds'[current] = BoundsOf(current)
          /\ \A e \in EpochNum : e # current => bounds'[e] = bounds[e]
      BY <1>0, <1>1, <1>3 DEF Disk
    <3>4. ASSUME NEW e \in EpochNum
          PROVE  /\ e < current' => bounds'[e] = BoundsOf(e)'
                 /\ e >= current' => bounds'[e] = NoBounds
                 /\ e > current' => epochs'[e] = {}
      <4>1. /\ e < current => bounds[e] = BoundsOf(e)
            /\ e >= current => bounds[e] = NoBounds
            /\ e > current => epochs[e] = {}
        BY <2>1 DEF Frozen
      <4>2. /\ e < current + 1 => e = current \/ e < current
            /\ e >= current + 1 => e # current /\ e >= current
            /\ e > current + 1 => e > current
            /\ e < current => e # current
        BY <1>3
      <4> QED
        BY <1>1, <3>2, <3>3, <4>1, <4>2
    <3> QED
      BY <1>1, <3>1, <3>4 DEF Frozen
  <2>3. Spanned'
    BY <1>1, <2>1, NothingSeen
  <2>4. Promise'
    BY <1>1, <1>6, PromiseKept
  <2> QED
    BY <2>2, <2>3, <2>4
<1>7. Numbered'
  BY <1>1, NothingSeen DEF Complete
<1> QED
  BY <1>2, <1>4, <1>5, <1>6, <1>7 DEF Complete

(* A rotation that fails is outside Askable.                               *)
LEMMA RotateFailsCompletes == ASSUME Complete, RotateFails PROVE Complete'
<1>0. Disk /\ Inv
  BY DEF Complete
<1>1. /\ UNCHANGED reader /\ scenario' = scenario /\ count.failed < scenario.failed
      /\ bounds' = [bounds EXCEPT ![current] = BoundsOf(current)]
      /\ count' = [count EXCEPT !.failed = @ + 1]
      /\ UNCHANGED <<epochs, current, batch, conn, seen, redo>>
  BY DEF RotateFails, Freeze, reader
<1>5. made' \in 0 .. scenario.epochs
  BY <1>0, HighestType DEF RotateFails
<1>2. Inv'
  BY <1>0, <1>1, RotateFails, ServiceKeeps DEF Service
<1>3. ~Askable'
  BY <1>0, <1>1, ScenarioType DEF Askable, Disk
<1>4. Disk'
  BY <1>0, <1>1, <1>5 DEF Disk, reader
<1>6. Numbered'
  <2>1. count'.records = count.records
    BY <1>0, <1>1 DEF Disk
  <2> QED
    BY <1>1, <2>1, NothingSeen DEF Complete
<1> QED
  BY <1>2, <1>3, <1>4, <1>6 DEF Complete

-----------------------------------------------------------------------------
(* Opening the registry and closing a session promise nothing.             *)
LEMMA OpenCompletes == ASSUME Complete, OpenRegistry \/ Close PROVE Complete'
<1>0. Disk /\ Inv
  BY DEF Complete
<1>1. UNCHANGED service
  BY DEF OpenRegistry, Close
<1>2. Inv'
  BY <1>0, ReaderKeeps DEF Reader
<1>3. /\ DOMAIN session' = DOMAIN NoSession /\ session'.phase \in {"Opened", "Closed"}
      /\ session'.promised = {} /\ cursor' = NoCursor
  <2>1. CASE OpenRegistry
    <3>1. /\ session' = [NoSession EXCEPT !.phase = "Opened", !.last = made]
          /\ session.phase = "Closed" /\ cursor' = cursor
      BY <2>1 DEF OpenRegistry
    <3>2. cursor = NoCursor
      BY <1>0, <3>1 DEF Disk
    <3>3. DOMAIN session' = DOMAIN NoSession
      BY <3>1
    <3> QED
      BY <3>1, <3>2, <3>3 DEF NoSession
  <2>2. CASE Close
    BY <2>2 DEF Close, NoSession
  <2> QED
    BY <2>1, <2>2
<1>4. Disk'
  BY <1>0, <1>1, <1>3 DEF Disk, service
<1>5. Askable => Frozen' /\ Promise'
  BY <1>1, <1>3 DEF Complete, Frozen, Promise, service, BoundsOf, TimesOf
<1>6. Askable' => Askable
  BY <1>1 DEF Askable, service
<1>7. Numbered' /\ (Spanned => Spanned')
  BY <1>1, NothingSeen DEF Complete, service
<1> QED
  BY <1>2, <1>4, <1>5, <1>6, <1>7 DEF Complete

(* The window the epochs are pruned by holds every promised row: it is the *)
(* scan's own, or the connection's span.                                   *)
LEMMA BeginCompletes ==
  ASSUME Complete, OpenWithWindow \/ OpenForConn
  PROVE  Complete'
<1>0. Disk /\ Inv
  BY DEF Complete
<1>1. PICK pruning, scan, known :
        /\ Begin(pruning, scan, known)
        /\ \/ pruning = scan /\ {pruning.from, pruning.to} \subseteq Nat
           \/ /\ scenario.byConn /\ conn # NoConn /\ known = seen
              /\ pruning = [from |-> conn.first, to |-> conn.last]
  <2>1. AllTime.from \in Nat /\ AllTime.to \in Nat
    BY PagingAssumption DEF AllTime
  <2>2. \A w \in Windows : w.from \in Nat /\ w.to \in Nat
    BY PagingAssumption DEF Windows, Time
  <2> QED
    BY <2>1, <2>2 DEF OpenWithWindow, OpenForConn
<1>2. /\ UNCHANGED service /\ cursor' = cursor /\ got' = got
      /\ session.phase = "Opened" /\ DOMAIN session' = DOMAIN NoSession
      /\ session'.phase = "Windowed" /\ session'.pruning = pruning /\ session'.window = scan
      /\ session'.promised =
            {r \in Row : r.key \in epochs[r.epoch] \cap known /\ Within(r.key, scan)}
  BY <1>0, <1>1 DEF Begin, Disk, NoSession
<1>3. Inv'
  BY <1>0, ReaderKeeps DEF Reader
<1>4. Disk'
  BY <1>0, <1>2 DEF Disk, service
<1>5. Askable' => Askable
  BY <1>2 DEF Askable, service
<1>6. ASSUME Askable PROVE Frozen' /\ Spanned' /\ Promise'
  <2>1. Frozen /\ Spanned
    BY <1>6 DEF Complete
  <2>2. Frozen' /\ Spanned'
    BY <1>2, <2>1, NothingSeen DEF Frozen, service, BoundsOf, TimesOf
  <2>3. ASSUME NEW r \in session'.promised PROVE There(r)' /\ Within(r.key, pruning)
    <3>1. r \in Row /\ r.key \in epochs[r.epoch] /\ r.key \in known /\ Within(r.key, scan)
      BY <1>2, <2>3
    <3>2. There(r)'
      BY <1>2, <3>1 DEF There, service, Within
    <3>3. CASE pruning = scan
      BY <3>1, <3>2, <3>3
    <3>4. CASE /\ scenario.byConn /\ conn # NoConn /\ known = seen
               /\ pruning = [from |-> conn.first, to |-> conn.last]
      <4>1. ~scenario.reordered
        BY <1>6, <3>4 DEF Askable
      <4>2. r.epoch \in EpochNum /\ r.key.ts \in Nat
        BY <3>1, RowFields, PagingAssumption DEF EpochNum
      <4>3. conn.first <= r.key.ts /\ r.key.ts <= conn.last
        BY <2>1, <3>1, <3>4, <4>1 DEF Spanned, Spans
      <4>4. conn.first \in Nat /\ conn.last \in Nat
        BY <1>0, <3>4, PagingAssumption DEF Disk, Time
      <4> QED
        BY <3>2, <3>4, <4>2, <4>3, <4>4 DEF Within
    <3> QED
      BY <1>1, <3>3, <3>4
  <2>4. {pruning.from, pruning.to} \subseteq Nat
    <3>1. CASE {pruning.from, pruning.to} \subseteq Nat
      BY <3>1
    <3>2. CASE conn # NoConn /\ pruning = [from |-> conn.first, to |-> conn.last]
      BY <1>0, <3>2, PagingAssumption DEF Disk, Time
    <3> QED
      BY <1>1, <3>1, <3>2
  <2>5. Promise'
    BY <1>2, <2>3, <2>4 DEF Promise, Within
  <2> QED
    BY <2>2, <2>5
<1>7. Numbered'
  BY <1>2, NothingSeen DEF Complete, service
<1> QED
  BY <1>3, <1>4, <1>5, <1>6, <1>7 DEF Complete

(* No epoch of a promised row is pruned: it is current, or has no          *)
(* boundaries, or its boundaries enclose the row's time, which is in the   *)
(* window. No cursor is behind every row.                                  *)
LEMMA BuildCompletes == ASSUME Complete, Build PROVE Complete'
<1>0. Disk /\ Inv
  BY DEF Complete
<1>1. /\ UNCHANGED service /\ cursor' = cursor /\ got' = got
      /\ session.phase = "Windowed" /\ DOMAIN session' = DOMAIN NoSession
      /\ session'.phase = "Paging" /\ session'.last = session.last
      /\ session'.window = session.window /\ session'.promised = session.promised
      /\ session'.snap = epochs[session.last]
      /\ session'.targets = {e \in 0 .. made : Kept(e, session.last, session.pruning)}
  BY <1>0 DEF Build, Disk, NoSession
<1>2. Inv'
  BY <1>0, ReaderKeeps DEF Reader
<1>3. Disk'
  BY <1>0, <1>1 DEF Disk, service
<1>4. Askable' => Askable
  BY <1>1 DEF Askable, service
<1>5. ASSUME Askable PROVE Frozen' /\ Spanned' /\ Promise'
  <2>1. Frozen /\ Spanned /\ Promise
    BY <1>5 DEF Complete
  <2>2. Frozen' /\ Spanned'
    BY <1>1, <2>1, NothingSeen DEF Frozen, service, BoundsOf, TimesOf
  <2>3. cursor = NoCursor
    BY <1>0, <1>1 DEF Disk
  <2>4. ASSUME NEW r \in session.promised PROVE r \in InScan' /\ Ahead(r)'
    <3>1. There(r) /\ Within(r.key, session.pruning)
      BY <1>1, <2>1 DEF Promise
    <3>2. /\ r \in Row /\ r.epoch \in EpochNum /\ r.epoch \in Nat /\ r.key.ts \in Nat
          /\ r.key \in epochs[r.epoch]
      BY <3>1, RowFields, PagingAssumption DEF There, EpochNum
    <3>3. current \in Nat /\ made = current /\ current \in 0 .. scenario.epochs
      BY <1>0, <2>1, ScenarioType DEF Frozen, Disk
    <3>4. r.epoch \in 0 .. made
      BY <2>1, <3>2, <3>3 DEF Frozen
    <3>5. Kept(r.epoch, session.last, session.pruning)
      <4>1. CASE bounds[r.epoch] = NoBounds
        BY <4>1 DEF Kept
      <4>2. CASE bounds[r.epoch] # NoBounds
        <5>1. r.epoch < current
          BY <2>1, <3>2, <3>3, <4>2 DEF Frozen
        <5> DEFINE lo == Min(TimesOf(r.epoch))
                   hi == Max(TimesOf(r.epoch))
        <5>2. bounds[r.epoch] = [min |-> lo, max |-> hi]
          BY <2>1, <3>2, <5>1, Zenon DEF Frozen, BoundsOf
        <5>3. lo <= r.key.ts /\ r.key.ts <= hi /\ {lo, hi} \subseteq Nat
          BY <1>0, <3>2, EndTimes DEF Disk
        <5> HIDE DEF lo, hi
        <5>4. r.key.ts \in session.pruning.from .. session.pruning.to
          BY <3>1 DEF Within
        <5>5. ~(hi < session.pruning.from \/ lo > session.pruning.to)
          <6> DEFINE from == session.pruning.from
                     to == session.pruning.to
          <6>1. from \in Nat /\ to \in Nat
            BY <1>1, <2>1 DEF Promise
          <6>2. from <= r.key.ts /\ r.key.ts <= to
            BY <3>2, <5>4, <6>1
          <6> HIDE DEF from, to
          <6>3. ~(hi < from \/ lo > to)
            BY <3>2, <5>3, <6>1, <6>2
          <6> QED
            BY <6>3 DEF from, to
        <5> QED
          BY <5>2, <5>5 DEF Kept
      <4> QED
        BY <4>1, <4>2
    <3>6. r \in InScan'
      <4>1. r.key \in Content(r.epoch)'
        BY <1>1, <3>2 DEF Content, service
      <4>2. Within(r.key, session'.window)
        BY <1>1, <3>1 DEF There
      <4>3. r.epoch \in session'.targets
        BY <1>1, <3>4, <3>5
      <4> QED
        BY <3>2, <4>1, <4>2, <4>3 DEF InScan, Within
    <3>7. IF scenario.forward THEN r.epoch >= 0 ELSE r.epoch <= 0
      BY <1>0, <1>5, <3>2, <3>3, <3>4, ScenarioType DEF Askable
    <3>8. Ahead(r)'
      BY <1>1, <2>3, <3>7 DEF Ahead, NoCursor, service
    <3> QED
      BY <3>6, <3>8
  <2>5. Promise'
    BY <1>1, <2>4 DEF Promise
  <2> QED
    BY <2>2, <2>5
<1>6. Numbered'
  BY <1>1, NothingSeen DEF Complete, service
<1> QED
  BY <1>2, <1>3, <1>4, <1>5, <1>6 DEF Complete

(* A page that is not full holds all there is.                             *)
LEMMA WholePage ==
  ASSUME NEW rows \in SUBSET Row, NEW some \in SUBSET rows, FirstRows(rows, some),
         scenario.limit \in Nat \ {0}, ~(Cardinality(some) >= scenario.limit)
  PROVE  some = rows
<1>1. IsFiniteSet(rows)
  BY RowsFinite, FS_Subset
<1>2. /\ Cardinality(rows) \in Nat /\ IsFiniteSet(some) /\ Cardinality(some) \in Nat
      /\ Cardinality(rows) = Cardinality(some) => rows = some
  BY <1>1, FS_Subset, FS_CardinalityType
<1> DEFINE S == {scenario.limit, Cardinality(rows)}
<1>3. \E x \in S : \A y \in S : x <= y
  BY <1>2
<1>4. Min(S) \in S
  BY <1>3 DEF Min
<1>5. Cardinality(some) = Min(S)
  BY DEF FirstRows
<1>6. Cardinality(some) = scenario.limit \/ Cardinality(some) = Cardinality(rows)
  BY <1>4, <1>5
<1> QED
  BY <1>2, <1>6

(* What comes after a page's last row is ahead of the next cursor.         *)
LEMMA StaysAhead ==
  ASSUME NEW c \in Row, NEW r \in Row, Sooner(c, r), cursor' = c, scenario' = scenario
  PROVE  Ahead(r)'
<1>1. /\ c.epoch \in Nat /\ c.key.ts \in Nat /\ c.key.idx \in Nat
      /\ r.epoch \in Nat /\ r.key.ts \in Nat /\ r.key.idx \in Nat
  BY RowFields, PagingAssumption
<1>2. CASE scenario.forward
  BY <1>1, <1>2 DEF Ahead, Sooner, Before, KeyBefore
<1>3. CASE ~ scenario.forward
  BY <1>1, <1>3 DEF Ahead, Sooner, Before, KeyBefore
<1> QED
  BY <1>2, <1>3

(* A promised row ahead of the cursor is in the page, or after its last    *)
(* row, and then the page is full and the scan goes on.                    *)
LEMMA PageCompletes == ASSUME Complete, Page PROVE Complete'
<1>0. Disk /\ Inv
  BY DEF Complete
<1> DEFINE rows == {r \in InScan : Ahead(r)}
<1>1. PICK some \in SUBSET rows :
        /\ FirstRows(rows, some)
        /\ got' = got \cup Passing(some)
        /\ cursor' = IF some = {} THEN cursor ELSE LastRow(some)
        /\ session' = [session EXCEPT
             !.phase = IF Cardinality(some) >= scenario.limit THEN "Paging" ELSE "Done",
             !.again = @ \/ some \cap got # {}]
  BY DEF Page
<1>2. UNCHANGED service /\ scenario' = scenario /\ session.phase = "Paging"
  BY DEF Page, service
<1>3. /\ DOMAIN session' = DOMAIN NoSession
      /\ session'.phase = (IF Cardinality(some) >= scenario.limit THEN "Paging" ELSE "Done")
      /\ session'.targets = session.targets /\ session'.snap = session.snap
      /\ session'.last = session.last /\ session'.window = session.window
      /\ session'.promised = session.promised
  BY <1>0, <1>1 DEF Disk, NoSession
<1>4. session'.phase \in {"Paging", "Done"}
  BY <1>3
<1>5. Inv'
  BY <1>0, ReaderKeeps DEF Reader
<1>6. Disk'
  BY <1>0, <1>2, <1>3, <1>4 DEF Disk, service
<1>7. Askable' => Askable
  BY <1>2 DEF Askable
<1>8. ASSUME Askable PROVE Frozen' /\ Spanned' /\ Promise'
  <2>1. Frozen /\ Spanned /\ Promise
    BY <1>8 DEF Complete
  <2>2. Frozen' /\ Spanned'
    BY <1>2, <2>1, NothingSeen DEF Frozen, service, BoundsOf, TimesOf
  <2>3. InScan' = InScan
    BY <1>2, <1>3 DEF InScan, Content, Within, service
  <2>4. rows \in SUBSET Row /\ some \in SUBSET Row
    BY <1>1 DEF InScan
  <2>5. ASSUME NEW r \in session.promised
        PROVE  r \in InScan /\ (Returned(r)' \/ (Ahead(r)' /\ session'.phase = "Paging"))
    <3>1. r \in InScan /\ (Returned(r) \/ Ahead(r))
      BY <1>2, <2>1 DEF Promise
    <3>2. CASE Returned(r)
      BY <1>1, <1>2, <3>1, <3>2 DEF Returned
    <3>3. CASE r \in some
      BY <1>1, <1>2, <3>1, <3>3 DEF Returned, Passing
    <3>4. CASE r \in rows /\ r \notin some
      <4>1. Cardinality(some) >= scenario.limit
        BY <1>0, <1>1, <2>4, <3>4, WholePage, ScenarioType
      <4>2. some # {}
        BY <1>0, <4>1, ScenarioType, FS_EmptySet
      <4>3. LastRow(some) \in some /\ cursor' = LastRow(some)
        BY <1>1, <2>4, <4>2, LastRowIsLast
      <4>4. Sooner(LastRow(some), r)
        BY <1>1, <3>4, <4>3 DEF FirstRows
      <4>5. Ahead(r)'
        BY <1>2, <2>4, <3>4, <4>3, <4>4, StaysAhead
      <4> QED
        BY <1>3, <3>1, <4>1, <4>5
    <3> QED
      BY <3>1, <3>2, <3>3, <3>4
  <2>6. Promise'
    BY <1>3, <1>4, <2>3, <2>5 DEF Promise
  <2> QED
    BY <2>2, <2>6
<1>9. Numbered'
  BY <1>2, NothingSeen DEF Complete, service
<1> QED
  BY <1>5, <1>6, <1>7, <1>8, <1>9 DEF Complete

(* A scan that has come to its end has returned every row that was on disk *)
(* when it began (by connection, every row both databases had) and that    *)
(* the filter lets pass, whatever the service writes, rotates, loses and   *)
(* writes again between the pages, however small the page and whichever    *)
(* epochs were pruned, for every scan that Askable describes: pruning      *)
(* keeps the epoch of every such row (prune_targets_by_window), a row      *)
(* leaves neither its epoch nor the snapshot, and a page passes over no    *)
(* row of the scan (scan_epoch_range, page_rows_epochs).                   *)
THEOREM ScanTheorem == Spec => []ScanIsComplete
<1>1. Init => Complete
  BY CompleteInit
<1>2. Complete /\ [Next]_vars => Complete'
  <2> SUFFICES ASSUME Complete, [Next]_vars PROVE Complete'
    OBVIOUS
  <2>1. ASSUME NEW ts \in Time, Write(ts) PROVE Complete'
    BY <2>1, WriteCompletes
  <2>2. CASE Crash \/ CommitLive
    BY <2>2, CrashCompletes, CommitLiveCompletes
  <2>3. CASE Replay
    BY <2>3, ReplayCompletes
  <2>4. CASE Rotate
    BY <2>4, RotateCompletes
  <2>5. CASE RotateFails
    BY <2>5, RotateFailsCompletes
  <2>6. CASE OpenRegistry \/ Close
    BY <2>6, OpenCompletes
  <2>7. CASE OpenWithWindow \/ OpenForConn
    BY <2>7, BeginCompletes
  <2>8. CASE Build
    BY <2>8, BuildCompletes
  <2>9. CASE Page
    BY <2>9, PageCompletes
  <2>10. CASE UNCHANGED vars
    <3>1. UNCHANGED service /\ UNCHANGED reader
      BY <2>10 DEF vars
    <3>2. Inv' /\ Disk'
      BY <3>1 DEF Complete, Inv, Shape, Behind, Ahead, Disk, service, reader
    <3>3. Askable' => Askable
      BY <3>1 DEF Askable, service
    <3>4. Askable => Frozen' /\ Spanned' /\ Promise'
      BY <3>1, PromiseKept, NothingSeen DEF Complete, Frozen, BoundsOf, TimesOf, service
    <3>5. Numbered'
      BY <3>1, NothingSeen DEF Complete, service
    <3> QED
      BY <3>2, <3>3, <3>4, <3>5 DEF Complete
  <2> QED
    BY <2>1, <2>2, <2>3, <2>4, <2>5, <2>6, <2>7, <2>8, <2>9, <2>10 DEF Next, Service, Reader
<1>3. Complete => ScanIsComplete
  BY DEF Complete, Promise, Returned, ScanIsComplete, Passing
<1> QED
  BY <1>1, <1>2, <1>3, PTL DEF Spec
=============================================================================
