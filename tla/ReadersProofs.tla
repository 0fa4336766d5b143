--------------------------- MODULE ReadersProofs ---------------------------
(***************************************************************************)
(* Theorems about the keys, for every width of their fields, and about the *)
(* readers of the recorded files, for all files, reads and chunks.         *)
(***************************************************************************)
EXTENDS WalReaders, SumProofs, SequenceTheorems, TLAPS

(* A step of a higher digit outweighs every lower digit.                   *)
LEMMA StepOutweighs ==
  ASSUME NEW n \in Nat \ {0}, NEW a \in Nat, NEW b \in Nat, a < b
  PROVE  a * n + n <= b * n
<1> DEFINE d == b - a - 1
<1>1. d \in Nat /\ b = a + 1 + d
  OBVIOUS
<1> HIDE DEF d
<1>2. b * n = a * n + n + d * n
  BY <1>1
<1>3. d * n \in Nat /\ a * n \in Nat
  BY <1>1
<1> QED
  BY <1>2, <1>3

(* Keys of two fields compare field by field, from the left.               *)
LEMMA OverOrder ==
  ASSUME NEW n \in Nat \ {0},
         NEW a \in Nat, NEW b \in Nat, NEW x \in 0 .. n - 1, NEW y \in 0 .. n - 1
  PROVE  /\ Over(a, n, x) \in Nat
         /\ Over(a, n, x) < Over(b, n, y) <=> a < b \/ (a = b /\ x < y)
         /\ Over(a, n, x) = Over(b, n, y) <=> a = b /\ x = y
<1>1. a * n \in Nat /\ b * n \in Nat
  OBVIOUS
<1>2. CASE a < b
  <2>1. a * n + n <= b * n
    BY <1>2, StepOutweighs
  <2> QED
    BY <1>1, <1>2, <2>1 DEF Over
<1>3. CASE b < a
  <2>1. b * n + n <= a * n
    BY <1>3, StepOutweighs
  <2> QED
    BY <1>1, <1>3, <2>1 DEF Over
<1>4. CASE a = b
  BY <1>1, <1>4 DEF Over
<1> QED
  BY <1>2, <1>3, <1>4

(* A key of two fields is below the product of their ranges.               *)
LEMMA OverBound ==
  ASSUME NEW n \in Nat \ {0}, NEW m \in Nat \ {0}, NEW a \in 0 .. m - 1, NEW x \in 0 .. n - 1
  PROVE  m * n \in Nat \ {0} /\ Over(a, n, x) \in 0 .. (m * n) - 1
<1>1. a * n + n <= m * n
  BY StepOutweighs
<1>2. a * n \in Nat /\ m * n \in Nat
  OBVIOUS
<1> QED
  BY <1>1, <1>2 DEF Over

(* Division undoes Over.                                                   *)
LEMMA OverDivision ==
  ASSUME NEW n \in Nat \ {0}, NEW a \in Nat, NEW x \in 0 .. n - 1
  PROVE  Over(a, n, x) \div n = a /\ Over(a, n, x) % n = x
<1> DEFINE k == Over(a, n, x)
           q == k \div n
           r == k % n
<1>1. k \in Nat
  BY OverOrder
<1>2. q \in Nat /\ r \in 0 .. n - 1 /\ k = q * n + r
  <2> HIDE DEF k
  <2>1. r \in 0 .. n - 1
    BY <1>1
  <2>2. q \in Int
    BY <1>1
  <2>3. k = q * n + r
    BY <1>1
  <2>4. q >= 0
    BY <1>1
  <2> QED
    BY <2>1, <2>2, <2>3, <2>4
<1> HIDE DEF q, r
<1>3. Over(q, n, r) = Over(a, n, x)
  BY <1>2 DEF Over
<1>4. q = a /\ r = x
  BY <1>2, <1>3, OverOrder
<1> QED
  BY <1>4 DEF q, r

-----------------------------------------------------------------------------
LEMMA IdxRangeType == IdxRange \in Nat \ {0}
<1>1. \A m, n \in Nat \ {0} : m * n \in Nat \ {0}
  <2> SUFFICES ASSUME NEW m \in Nat \ {0}, NEW n \in Nat \ {0} PROVE m * n \in Nat \ {0}
    OBVIOUS
  <2>1. 0 \in 0 .. n - 1 /\ 0 \in 0 .. m - 1
    OBVIOUS
  <2> QED
    BY <2>1, OverBound
<1> QED
  BY <1>1, KeysAssumption DEF IdxRange

(* The locator of a record names the record: the file and the offset come  *)
(* back from it, and it fits its 64 bits (id.rs, encode and decode).       *)
THEOREM IdxRoundTrip ==
  ASSUME NEW file \in File, NEW offset \in Offset
  PROVE  /\ Idx(file, offset) \in Idxs
         /\ FileOf(Idx(file, offset)) = file
         /\ OffsetOf(Idx(file, offset)) = offset
<1>1. file \in Nat /\ OffsetRange \in Nat \ {0} /\ FileRange \in Nat \ {0}
  BY KeysAssumption DEF File
<1>2. Idx(file, offset) \in Idxs
  BY <1>1, OverBound DEF Idx, Idxs, IdxRange, File, Offset
<1>3. Over(file, OffsetRange, offset) \div OffsetRange = file /\ Over(file, OffsetRange, offset) % OffsetRange = offset
  BY <1>1, OverDivision DEF Offset
<1> QED
  BY <1>2, <1>3 DEF Idx, FileOf, OffsetOf

(* The records of one table lie in the order of time, and those of one     *)
(* instant in the order of the log (k_record_ts, k_qr_time).               *)
THEOREM TimeKeyOrder ==
  ASSUME NEW t \in Time, NEW u \in Time, NEW i \in Idxs, NEW j \in Idxs
  PROVE  /\ TimeKey(t, i) < TimeKey(u, j) <=> t < u \/ (t = u /\ i < j)
         /\ TimeKey(t, i) = TimeKey(u, j) <=> t = u /\ i = j
<1>1. t \in Nat /\ u \in Nat
  BY KeysAssumption DEF Time
<1>2. i \in 0 .. IdxRange - 1 /\ j \in 0 .. IdxRange - 1
  BY DEF Idxs
<1> QED
  BY <1>1, <1>2, IdxRangeType, OverOrder DEF TimeKey

(* A key lies above the first key of a digit in front of it just when its  *)
(* own digit is no smaller, and below the last key likewise.               *)
LEMMA OverSpans ==
  ASSUME NEW n \in Nat \ {0}, NEW a \in Nat, NEW b \in Nat, NEW x \in 0 .. n - 1
  PROVE  /\ Over(b, n, 0) <= Over(a, n, x) <=> b <= a
         /\ Over(a, n, x) <= Over(b, n, n - 1) <=> a <= b
<1> DEFINE top == n - 1
<1>1. 0 \in 0 .. n - 1 /\ top \in 0 .. n - 1
  OBVIOUS
<1>2. x \in Nat /\ 0 <= x /\ x <= top /\ top \in Nat
  OBVIOUS
<1> HIDE DEF top
<1>3. Over(a, n, x) \in Nat /\ Over(b, n, 0) \in Nat /\ Over(b, n, top) \in Nat
  BY <1>1, OverOrder
<1>4. Over(a, n, x) < Over(b, n, 0) <=> a < b \/ (a = b /\ x < 0)
  BY <1>1, OverOrder
<1>5. Over(b, n, top) < Over(a, n, x) <=> b < a \/ (b = a /\ top < x)
  BY <1>1, OverOrder
<1>6. Over(b, n, 0) <= Over(a, n, x) <=> b <= a
  BY <1>2, <1>3, <1>4
<1>7. Over(a, n, x) <= Over(b, n, top) <=> a <= b
  BY <1>2, <1>3, <1>5
<1> QED
  BY <1>6, <1>7 DEF top

(* A window of time is one range of keys: it holds every record of its     *)
(* first and of its last instant and no other instant's (ts_bounds), and   *)
(* the range of one connection holds nothing of any other                  *)
(* (conn_qr_bounds).                                                       *)
THEOREM WindowIsARange ==
  ASSUME NEW from \in Time, NEW to \in Time, NEW t \in Time, NEW i \in Idxs,
         NEW c \in Nat, NEW d \in Nat
  PROVE  /\ InRange(TimeKey(t, i), TsBounds(from, to)) <=> from <= t /\ t <= to
         /\ InRange(ConnQrKey(d, t, i), ConnQrBounds(c, from, to))
              <=> d = c /\ from <= t /\ t <= to
<1> DEFINE lo == Over(c, TimeRange, from)
           hi == Over(c, TimeRange, to)
           at == Over(d, TimeRange, t)
<1>1. /\ from \in Nat /\ to \in Nat /\ t \in Nat /\ i \in 0 .. IdxRange - 1
      /\ TimeRange \in Nat \ {0} /\ IdxRange \in Nat \ {0}
      /\ {from, to, t} \subseteq 0 .. TimeRange - 1
  BY IdxRangeType, KeysAssumption DEF Time, Idxs
<1>2. InRange(TimeKey(t, i), TsBounds(from, to)) <=> from <= t /\ t <= to
  <2>1. /\ Over(from, IdxRange, 0) <= Over(t, IdxRange, i) <=> from <= t
        /\ Over(t, IdxRange, i) <= Over(to, IdxRange, IdxRange - 1) <=> t <= to
    BY <1>1, OverSpans
  <2> QED
    BY <2>1 DEF InRange, TsBounds, TimeKey
<1>3. lo \in Nat /\ hi \in Nat /\ at \in Nat
  BY <1>1, OverOrder
<1>4. /\ at < lo <=> d < c \/ (d = c /\ t < from)
      /\ hi < at <=> c < d \/ (c = d /\ to < t)
  BY <1>1, OverOrder
<1>5. InRange(ConnQrKey(d, t, i), ConnQrBounds(c, from, to)) <=> lo <= at /\ at <= hi
  <2> HIDE DEF lo, hi, at
  <2>1. /\ Over(lo, IdxRange, 0) <= Over(at, IdxRange, i) <=> lo <= at
        /\ Over(at, IdxRange, i) <= Over(hi, IdxRange, IdxRange - 1) <=> at <= hi
    BY <1>1, <1>3, OverSpans
  <2>2. /\ ConnQrKey(d, t, i) = Over(at, IdxRange, i)
        /\ ConnQrBounds(c, from, to) = [lo |-> Over(lo, IdxRange, 0),
                                        hi |-> Over(hi, IdxRange, IdxRange - 1)]
    BY DEF ConnQrKey, ConnQrBounds, lo, hi, at
  <2> QED
    BY <2>1, <2>2 DEF InRange
<1>6. lo <= at /\ at <= hi <=> d = c /\ from <= t /\ t <= to
  <2> HIDE DEF lo, hi, at
  <2>1. lo <= at <=> ~(d < c \/ (d = c /\ t < from))
    BY <1>3, <1>4
  <2>2. at <= hi <=> ~(c < d \/ (c = d /\ to < t))
    BY <1>3, <1>4
  <2> QED
    BY <1>1, <2>1, <2>2
<1> QED
  BY <1>2, <1>5, <1>6

(* The scan of the pending requests of one incarnation of one connection   *)
(* finds those up to the limit and nothing of any other incarnation or     *)
(* connection, if no end has outgrown its 48 bits (k_qr_pending,           *)
(* scan_pending_upto).                                                     *)
THEOREM PendingIsIsolated ==
  ASSUME NEW c \in Nat, NEW d \in Nat,
         NEW m \in 0 .. IncRange - 1, NEW n \in 0 .. IncRange - 1,
         NEW end \in 0 .. EndRange - 1, NEW limit \in Nat
  PROVE  InRange(PendingKey(d, n, end), PendingBounds(c, m, limit))
           <=> d = c /\ n = m /\ end <= limit
<1> DEFINE top == IF limit < EndRange THEN limit ELSE EndRange - 1
           p == Over(c, IncRange, m)
           q == Over(d, IncRange, n)
<1>1. EndRange \in Nat \ {0} /\ IncRange \in Nat \ {0}
  BY KeysAssumption
<1>2. top \in 0 .. EndRange - 1 /\ 0 \in 0 .. EndRange - 1
  BY <1>1
<1>3. \A x \in 0 .. EndRange - 1 : x % EndRange = x
  <2> SUFFICES ASSUME NEW x \in 0 .. EndRange - 1 PROVE x % EndRange = x
    OBVIOUS
  <2>1. Over(0, EndRange, x) % EndRange = x
    BY <1>1, OverDivision
  <2>2. Over(0, EndRange, x) = x
    BY <1>1 DEF Over
  <2> QED
    BY <2>1, <2>2
<1>4. /\ PendingKey(d, n, end) = Over(q, EndRange, end)
      /\ PendingKey(c, m, 0) = Over(p, EndRange, 0)
      /\ PendingKey(c, m, top) = Over(p, EndRange, top)
  BY <1>2, <1>3 DEF PendingKey
<1>5. p \in Nat /\ q \in Nat /\ (p = q <=> c = d /\ m = n)
  BY <1>1, OverOrder
<1>6. end <= top <=> end <= limit
  BY <1>1
<1>7. PendingBounds(c, m, limit) = [lo |-> Over(p, EndRange, 0), hi |-> Over(p, EndRange, top)]
  BY <1>4 DEF PendingBounds
<1> HIDE DEF p, q, top
<1>8. /\ Over(q, EndRange, end) \in Nat
      /\ Over(p, EndRange, 0) \in Nat
      /\ Over(p, EndRange, top) \in Nat
  BY <1>1, <1>2, <1>5, OverOrder
<1>9. Over(p, EndRange, 0) <= Over(q, EndRange, end) <=> p <= q
  <2>1. Over(q, EndRange, end) < Over(p, EndRange, 0) <=> q < p \/ (q = p /\ end < 0)
    BY <1>1, <1>2, <1>5, OverOrder
  <2> QED
    BY <1>1, <1>5, <1>8, <2>1
<1>10. Over(q, EndRange, end) <= Over(p, EndRange, top) <=> q < p \/ (q = p /\ end <= top)
  <2>1. Over(p, EndRange, top) < Over(q, EndRange, end) <=> p < q \/ (p = q /\ top < end)
    BY <1>1, <1>2, <1>5, OverOrder
  <2>2. end \in Int /\ top \in Int
    BY <1>1, <1>2
  <2> QED
    BY <1>5, <1>8, <2>1, <2>2
<1>11. InRange(PendingKey(d, n, end), PendingBounds(c, m, limit))
         <=> p = q /\ end <= top
  BY <1>4, <1>5, <1>7, <1>9, <1>10 DEF InRange
<1> QED
  BY <1>5, <1>6, <1>11

-----------------------------------------------------------------------------
(* A part of a sequence, by its elements.                                  *)
LEMMA PartOf ==
  ASSUME NEW S, NEW s \in Seq(S), NEW T, NEW r \in Seq(T), NEW m \in Nat,
         m + Len(r) <= Len(s),
         \A i \in 1 .. Len(r) : s[m + i] = r[i]
  PROVE  SubSeq(s, m + 1, m + Len(r)) = r
<1> DEFINE p == SubSeq(s, m + 1, m + Len(r))
<1>1. p \in Seq(S) /\ Len(p) = Len(r)
  OBVIOUS
<1>2. ASSUME NEW i \in 1 .. Len(r) PROVE p[i] = r[i]
  <2>1. p[i] = s[m + i]
    OBVIOUS
  <2> QED
    BY <2>1
<1> HIDE DEF p
<1>3. p \in Seq(S \cup T) /\ r \in Seq(S \cup T)
  BY <1>1, SeqMonotonic
<1>4. p = r
  BY <1>1, <1>2, <1>3, SeqEqual
<1> QED
  BY <1>4 DEF p

(* A row that aggregates fewer requests than its count can tell is read    *)
(* back as it was written (QrPairValue::encode and decode).                *)
THEOREM PairRoundTrip ==
  ASSUME NEW Word, NEW pair \in [head : Word, q : Seq(Word), r : Seq(Word), keys : Word],
         Len(pair.q) < CountRange, Len(pair.r) < CountRange
  PROVE  DecodePair(EncodePair(pair)) = pair
<1> DEFINE words == EncodePair(pair)
           nq == Len(pair.q)
           nr == Len(pair.r)
<1>1. nq \in 0 .. CountRange - 1 /\ nr \in 0 .. CountRange - 1 /\ CountRange \in Nat \ {0}
  BY KeysAssumption
<1>2. nq % CountRange = nq /\ nr % CountRange = nr
  <2>1. \A n \in Nat \ {0} : \A x \in 0 .. n - 1 : x % n = x
    <3> SUFFICES ASSUME NEW n \in Nat \ {0}, NEW x \in 0 .. n - 1 PROVE x % n = x
      OBVIOUS
    <3>1. Over(0, n, x) % n = x
      BY OverDivision
    <3>2. Over(0, n, x) = x
      BY DEF Over
    <3> QED
      BY <3>1, <3>2
  <2> QED
    BY <1>1, <2>1
<1>3. words = <<pair.head, nq, nr>> \o pair.q \o pair.r \o <<pair.keys>>
  BY <1>2 DEF EncodePair
<1>4. /\ Len(words) = nq + nr + 4
      /\ words[1] = pair.head /\ words[2] = nq /\ words[3] = nr
      /\ \A n \in 1 .. nq : words[3 + n] = pair.q[n]
      /\ \A n \in 1 .. nr : words[3 + nq + n] = pair.r[n]
      /\ words[4 + nq + nr] = pair.keys
  <2> DEFINE All == Word \cup Nat
  <2>1. /\ <<pair.head, nq, nr>> \in Seq(All) /\ pair.q \in Seq(All)
        /\ pair.r \in Seq(All) /\ <<pair.keys>> \in Seq(All)
    BY <1>1
  <2> HIDE DEF words, All
  <2> QED
    BY <1>3, <2>1
<1>5. words \in Seq(Word \cup Nat)
  <2> HIDE DEF words
  <2> QED
    BY <1>1, <1>3
<1> HIDE DEF words
<1>6. SubSeq(words, 4, 3 + nq) = pair.q
  BY <1>1, <1>4, <1>5
<1>7. SubSeq(words, 3 + nq + 1, 3 + nq + nr) = pair.r
  <2>1. 3 + nq \in Nat /\ 3 + nq + nr <= Len(words)
    BY <1>1, <1>4
  <2> QED
    BY <1>4, <1>5, <2>1, PartOf
<1>8. DecodePair(words) = [head |-> pair.head, q |-> pair.q, r |-> pair.r, keys |-> pair.keys]
  <2> HIDE DEF nq, nr
  <2>1. Len(words) = 3 + nq + nr + 1 /\ 4 + nq + nr = 3 + nq + nr + 1
    BY <1>1, <1>4
  <2>2. DecodePair(words) =
          [head |-> words[1], q |-> SubSeq(words, 4, 3 + nq),
           r |-> SubSeq(words, 3 + nq + 1, 3 + nq + nr), keys |-> words[3 + nq + nr + 1]]
    BY <1>4, <2>1 DEF DecodePair
  <2> QED
    BY <1>4, <1>6, <1>7, <2>1, <2>2
<1> QED
  BY <1>8 DEF words

(***************************************************************************)
(* Where blocks lie in a file.                                             *)
(***************************************************************************)
(* A function that satisfies the recursion by which EndsOf is defined.     *)
Ending(e, blocks) ==
  e = [i \in 0 .. Len(blocks) |-> IF i = 0 THEN 0 ELSE e[i - 1] + blocks[i].len]

(* A block has a length of at least one byte.                              *)
LEMMA BlocksAre ==
  ASSUME NEW blocks \in Seq(Block)
  PROVE  /\ Len(blocks) \in Nat
         /\ \A i \in 1 .. Len(blocks) :
              blocks[i] \in Block /\ blocks[i].len \in Nat /\ blocks[i].len > 0
<1>1. Len(blocks) \in Nat /\ \A i \in 1 .. Len(blocks) : blocks[i] \in Block
  OBVIOUS
<1>2. \A b \in Block : b.len \in Nat \ {0}
  BY DEF Block
<1> QED BY <1>1, <1>2

(* The recursion has a solution over any list of blocks: solutions up to   *)
(* n, for each n in turn.                                                  *)
LEMMA EndingExists ==
  ASSUME NEW blocks \in Seq(Block)
  PROVE  \E e \in [0 .. Len(blocks) -> Nat] : Ending(e, blocks)
<1> DEFINE N == Len(blocks)
           Upto(e, n) == e[0] = 0 /\ \A i \in 1 .. N : i <= n => e[i] = e[i - 1] + blocks[i].len
           T == {n \in Nat : \E e \in [0 .. N -> Nat] : Upto(e, n)}
<1>0. N \in Nat /\ \A i \in 1 .. N : blocks[i].len \in Nat
  BY BlocksAre
<1>1. 0 \in T
  <2> DEFINE e == [i \in 0 .. N |-> 0]
  <2>1. e \in [0 .. N -> Nat] /\ Upto(e, 0)
    BY <1>0
  <2> QED BY <2>1
<1>2. ASSUME NEW n \in T PROVE n + 1 \in T
  <2>1. n \in Nat
    OBVIOUS
  <2>2. PICK e \in [0 .. N -> Nat] : Upto(e, n)
    OBVIOUS
  <2> DEFINE new == e[n] + blocks[n + 1].len
             h == [i \in 0 .. N |-> IF i = n + 1 THEN new ELSE e[i]]
  <2>3. CASE n + 1 \notin 0 .. N
    <3>1. \A i \in 1 .. N : i <= n
      BY <1>0, <2>1, <2>3
    <3>2. Upto(e, n + 1)
      BY <2>2, <3>1
    <3>3. n + 1 \in Nat
      BY <2>1
    <3> HIDE DEF Upto
    <3>4. \E x \in [0 .. N -> Nat] : Upto(x, n + 1)
      BY <2>2, <3>2
    <3> QED BY <3>3, <3>4
  <2>4. CASE n + 1 \in 0 .. N
    <3>1. n + 1 \in 1 .. N /\ n \in 0 .. N
      BY <1>0, <2>1, <2>4
    <3>2. new \in Nat
      BY <1>0, <3>1
    <3> HIDE DEF new
    <3>3. h \in [0 .. N -> Nat]
      BY <3>2
    <3>4. h[0] = 0
      BY <1>0, <2>1, <2>2
    <3>5. ASSUME NEW i \in 1 .. N, i <= n + 1
          PROVE  h[i] = h[i - 1] + blocks[i].len
      <4>1. i \in 0 .. N /\ i - 1 \in 0 .. N /\ i - 1 # n + 1 /\ h[i - 1] = e[i - 1]
        BY <1>0, <2>1, <3>5
      <4>2. CASE i = n + 1
        BY <2>1, <4>1, <4>2 DEF new
      <4>3. CASE i # n + 1
        <5>1. i <= n
          BY <2>1, <3>5, <4>3
        <5> QED BY <2>2, <4>1, <4>3, <5>1
      <4> QED BY <4>2, <4>3
    <3> HIDE DEF h
    <3>6. Upto(h, n + 1)
      BY <3>4, <3>5
    <3> QED BY <2>1, <3>3, <3>6
  <2> QED BY <2>3, <2>4
<1>3. T = Nat
  <2>1. T \in SUBSET Nat
    OBVIOUS
  <2> HIDE DEF T
  <2> QED BY <1>1, <1>2, <2>1, SetInduction
<1>4. PICK e \in [0 .. N -> Nat] : Upto(e, N)
  BY <1>0, <1>3
<1>5. ASSUME NEW i \in 0 .. N
      PROVE  e[i] = IF i = 0 THEN 0 ELSE e[i - 1] + blocks[i].len
  BY <1>0, <1>4
<1>6. e = [i \in 0 .. N |-> IF i = 0 THEN 0 ELSE e[i - 1] + blocks[i].len]
  BY <1>5
<1> QED BY <1>6 DEF Ending

(* EndsOf is a solution, provided there is one.                            *)
LEMMA EndsIs ==
  ASSUME NEW blocks, \E e : Ending(e, blocks)
  PROVE  Ending(EndsOf(blocks), blocks)
BY DEF EndsOf, Ending

(* Where blocks end: the 0-th at 0, every other as far behind the one      *)
(* before as it is long.                                                   *)
LEMMA EndsFacts ==
  ASSUME NEW blocks \in Seq(Block)
  PROVE  /\ EndsOf(blocks)[0] = 0
         /\ \A i \in 0 .. Len(blocks) : EndsOf(blocks)[i] \in Nat
         /\ \A i \in 1 .. Len(blocks) :
              EndsOf(blocks)[i] = EndsOf(blocks)[i - 1] + blocks[i].len
<1> DEFINE E == EndsOf(blocks)
           N == Len(blocks)
<1>1. E = [i \in 0 .. N |-> IF i = 0 THEN 0 ELSE E[i - 1] + blocks[i].len]
  <2>1. Ending(EndsOf(blocks), blocks)
    BY EndingExists, EndsIs
  <2> QED BY <2>1 DEF Ending
<1> HIDE DEF E
<1>2. N \in Nat /\ \A i \in 1 .. N : blocks[i].len \in Nat
  BY BlocksAre
<1>3. E[0] = 0 /\ \A i \in 1 .. N : E[i] = E[i - 1] + blocks[i].len
  <2>1. \A i \in 0 .. N : E[i] = IF i = 0 THEN 0 ELSE E[i - 1] + blocks[i].len
    BY <1>1, Zenon
  <2> QED BY <1>2, <2>1
<1>4. \A i \in 0 .. N : E[i] \in Nat
  <2> DEFINE T == {n \in Nat : n \in 0 .. N => E[n] \in Nat}
  <2>1. 0 \in T
    BY <1>3
  <2>2. ASSUME NEW n \in T PROVE n + 1 \in T
    <3>1. n + 1 \in 0 .. N => n \in 0 .. N /\ n + 1 \in 1 .. N
      BY <1>2
    <3> QED BY <1>2, <1>3, <3>1
  <2>3. T \in SUBSET Nat
    OBVIOUS
  <2> HIDE DEF T
  <2>4. T = Nat
    BY <2>1, <2>2, <2>3, SetInduction
  <2> QED BY <1>2, <2>4 DEF T
<1> QED BY <1>3, <1>4 DEF E

(* A later block ends later.                                               *)
LEMMA EndsGrow ==
  ASSUME NEW blocks \in Seq(Block), NEW i \in 0 .. Len(blocks), NEW j \in 0 .. Len(blocks), i < j
  PROVE  EndsOf(blocks)[i] < EndsOf(blocks)[j]
<1> DEFINE E == EndsOf(blocks)
           N == Len(blocks)
           T == {n \in Nat : n \in 0 .. N /\ i < n => E[i] < E[n]}
<1>0. N \in Nat /\ \A k \in 1 .. N : blocks[k].len \in Nat /\ blocks[k].len > 0
  BY BlocksAre
<1>1. (\A k \in 0 .. N : E[k] \in Nat) /\ \A k \in 1 .. N : E[k] = E[k - 1] + blocks[k].len
  BY EndsFacts
<1> HIDE DEF E
<1>2. 0 \in T
  OBVIOUS
<1>3. ASSUME NEW n \in T PROVE n + 1 \in T
  <2>1. n \in Nat /\ (n \in 0 .. N /\ i < n => E[i] < E[n])
    OBVIOUS
  <2> SUFFICES ASSUME n + 1 \in 0 .. N, i < n + 1 PROVE E[i] < E[n + 1]
    BY <2>1
  <2>2. n \in 0 .. N /\ n + 1 \in 1 .. N /\ E[n] \in Nat /\ E[i] \in Nat
    BY <1>0, <1>1, <2>1
  <2>3. E[n] < E[n + 1]
    BY <1>0, <1>1, <2>1, <2>2
  <2>4. i = n \/ i < n
    BY <2>1
  <2> QED BY <1>1, <2>1, <2>2, <2>3, <2>4
<1>4. T = Nat
  <2>1. T \in SUBSET Nat
    OBVIOUS
  <2> HIDE DEF T
  <2> QED BY <1>2, <1>3, <2>1, SetInduction
<1> QED BY <1>0, <1>4 DEF E

(* The ends of two blocks compare like their numbers.                      *)
LEMMA EndsOrder ==
  ASSUME NEW blocks \in Seq(Block), NEW i \in 0 .. Len(blocks), NEW j \in 0 .. Len(blocks)
  PROVE  /\ EndsOf(blocks)[i] < EndsOf(blocks)[j] <=> i < j
         /\ EndsOf(blocks)[i] <= EndsOf(blocks)[j] <=> i <= j
         /\ EndsOf(blocks)[i] = EndsOf(blocks)[j] <=> i = j
<1>1. EndsOf(blocks)[i] \in Nat /\ EndsOf(blocks)[j] \in Nat
  BY EndsFacts
<1>2. i < j => EndsOf(blocks)[i] < EndsOf(blocks)[j]
  BY EndsGrow
<1>3. j < i => EndsOf(blocks)[j] < EndsOf(blocks)[i]
  BY EndsGrow
<1>4. Len(blocks) \in Nat /\ i \in Nat /\ j \in Nat
  BY BlocksAre
<1>5. i < j \/ j < i \/ i = j
  BY <1>4
<1> QED BY <1>1, <1>2, <1>3, <1>4, <1>5

(* At most one block starts at a position.                                 *)
LEMMA StartsOne ==
  ASSUME NEW blocks \in Seq(Block), NEW at
  PROVE  \A i, j \in StartingAt(blocks, at) : i = j
<1> TAKE i, j \in StartingAt(blocks, at)
<1>1. Len(blocks) \in Nat
  BY BlocksAre
<1>2. /\ i \in 1 .. Len(blocks) /\ j \in 1 .. Len(blocks)
      /\ EndsOf(blocks)[i - 1] = EndsOf(blocks)[j - 1]
  BY DEF StartingAt
<1>3. i - 1 \in 0 .. Len(blocks) /\ j - 1 \in 0 .. Len(blocks)
  BY <1>1, <1>2
<1>4. i - 1 = j - 1
  BY <1>2, <1>3, EndsOrder
<1> QED BY <1>1, <1>2, <1>4

(* Where a block ends the next one starts, if there is one.                *)
LEMMA StartsAtEnd ==
  ASSUME NEW blocks \in Seq(Block), NEW k \in 0 .. Len(blocks)
  PROVE  StartingAt(blocks, EndsOf(blocks)[k]) = {k + 1} \cap 1 .. Len(blocks)
<1>1. Len(blocks) \in Nat /\ k \in Nat
  BY BlocksAre
<1>2. \A i \in 1 .. Len(blocks) : EndsOf(blocks)[i - 1] = EndsOf(blocks)[k] <=> i = k + 1
  <2> TAKE i \in 1 .. Len(blocks)
  <2>1. i - 1 \in 0 .. Len(blocks) /\ i \in Nat
    BY <1>1
  <2>2. EndsOf(blocks)[i - 1] = EndsOf(blocks)[k] <=> i - 1 = k
    BY <2>1, EndsOrder
  <2> QED BY <1>1, <2>1, <2>2, SMTT(40)
<1> QED BY <1>2 DEF StartingAt

(* Two lists that begin with the same blocks have the same ends so far.    *)
LEMMA EndsAlike ==
  ASSUME NEW a \in Seq(Block), NEW b \in Seq(Block), NEW k \in Nat,
         k <= Len(a), k <= Len(b), \A i \in 1 .. k : a[i] = b[i]
  PROVE  \A i \in 0 .. k : EndsOf(a)[i] = EndsOf(b)[i]
<1> DEFINE T == {n \in Nat : n <= k => EndsOf(a)[n] = EndsOf(b)[n]}
<1>1. 0 \in T
  BY EndsFacts
<1>2. ASSUME NEW n \in T PROVE n + 1 \in T
  <2>1. n \in Nat /\ (n <= k => EndsOf(a)[n] = EndsOf(b)[n])
    OBVIOUS
  <2> SUFFICES ASSUME n + 1 <= k PROVE EndsOf(a)[n + 1] = EndsOf(b)[n + 1]
    BY <2>1
  <2>2. Len(a) \in Nat /\ Len(b) \in Nat
    BY BlocksAre
  <2>3. n + 1 \in 1 .. Len(a) /\ n + 1 \in 1 .. Len(b) /\ n + 1 \in 1 .. k /\ n <= k /\ n + 1 - 1 = n
    BY <2>1, <2>2
  <2>4. EndsOf(a)[n + 1] = EndsOf(a)[n] + a[n + 1].len
    BY <2>3, EndsFacts
  <2>5. EndsOf(b)[n + 1] = EndsOf(b)[n] + b[n + 1].len
    BY <2>3, EndsFacts
  <2> QED BY <2>1, <2>3, <2>4, <2>5
<1>3. T = Nat
  <2>1. T \in SUBSET Nat
    OBVIOUS
  <2> HIDE DEF T
  <2> QED BY <1>1, <1>2, <2>1, SetInduction
<1> QED BY <1>3

(* A set of numbers from 1 on that has with a member all those below it is *)
(* an interval, and its cardinality is where that ends.                    *)
LEMMA InitialSegment ==
  ASSUME NEW n \in Nat, NEW S \in SUBSET (1 .. n), \A i \in S : \A j \in 1 .. i : j \in S
  PROVE  Cardinality(S) \in 0 .. n /\ S = 1 .. Cardinality(S)
<1> DEFINE U == (1 .. n + 1) \ S
<1>1. U \in SUBSET Nat /\ n + 1 \in U
  OBVIOUS
<1> HIDE DEF U
<1>2. PICK m \in U : \A k \in U : m <= k
  BY <1>1, LeastNatural
<1>3. m \in 1 .. n + 1 /\ m \notin S
  BY DEF U
<1>4. S = 1 .. m - 1
  <2>1. ASSUME NEW i \in S PROVE i \in 1 .. m - 1
    <3>1. i \in 1 .. n /\ ~(m \in 1 .. i)
      BY <1>3
    <3> QED BY <1>3, <3>1
  <2>2. ASSUME NEW i \in 1 .. m - 1 PROVE i \in S
    <3>1. i \in 1 .. n + 1 /\ ~(m <= i)
      BY <1>3
    <3> QED BY <1>2, <3>1 DEF U
  <2> QED BY <2>1, <2>2
<1>5. Cardinality(1 .. m - 1) = m - 1
  <2>1. m - 1 \in Int /\ 1 \in Int
    BY <1>3
  <2>2. Cardinality(1 .. m - 1) = IF 1 > m - 1 THEN 0 ELSE m - 1 - 1 + 1
    BY <2>1, FS_Interval
  <2> QED BY <1>3, <2>2
<1> QED BY <1>3, <1>4, <1>5

(* The records that end by a position with no damage in front of them.     *)
Sane(blocks, upto) ==
  {i \in 1 .. Len(blocks) :
     EndsOf(blocks)[i] <= upto /\ \A k \in 1 .. i : blocks[k].state = "Good"}
(* How many they are.                                                      *)
GoodTo(blocks, upto) == Cardinality(Sane(blocks, upto))

(* They are the first ones, and end by the position.                       *)
LEMMA GoodToIs ==
  ASSUME NEW blocks \in Seq(Block), NEW upto \in Nat
  PROVE  /\ GoodTo(blocks, upto) \in 0 .. Len(blocks)
         /\ \A i \in 1 .. Len(blocks) :
              i <= GoodTo(blocks, upto) <=>
                EndsOf(blocks)[i] <= upto /\ \A k \in 1 .. i : blocks[k].state = "Good"
         /\ EndsOf(blocks)[GoodTo(blocks, upto)] <= upto
<1> DEFINE S == Sane(blocks, upto)
           N == Len(blocks)
<1>0. N \in Nat
  BY BlocksAre
<1>1. ASSUME NEW i \in S, NEW j \in 1 .. i PROVE j \in S
  <2>1. i \in 1 .. N /\ EndsOf(blocks)[i] <= upto /\ \A k \in 1 .. i : blocks[k].state = "Good"
    BY DEF Sane
  <2>2. j \in 1 .. N /\ j <= i /\ i \in 0 .. N /\ j \in 0 .. N
    BY <1>0, <2>1
  <2>3. EndsOf(blocks)[j] <= EndsOf(blocks)[i]
    BY <2>2, EndsOrder
  <2>4. EndsOf(blocks)[j] <= upto
    BY <2>1, <2>2, <2>3, EndsFacts
  <2>5. \A k \in 1 .. j : blocks[k].state = "Good"
    <3>1. \A k \in 1 .. j : k \in 1 .. i
      BY <2>1, <2>2
    <3> QED BY <2>1, <3>1
  <2> QED BY <2>2, <2>4, <2>5 DEF Sane
<1>2. S \in SUBSET (1 .. N)
  BY DEF Sane
<1> HIDE DEF S
<1>3. Cardinality(S) \in 0 .. N /\ S = 1 .. Cardinality(S)
  BY <1>0, <1>1, <1>2, InitialSegment
<1>4. \A i \in 1 .. N : i <= Cardinality(S) <=> i \in S
  <2>1. \A i \in 1 .. N : i <= Cardinality(S) <=> i \in 1 .. Cardinality(S)
    BY <1>0, <1>3
  <2> QED BY <1>3, <2>1
<1>5. EndsOf(blocks)[Cardinality(S)] <= upto
  <2>1. CASE Cardinality(S) = 0
    BY <2>1, EndsFacts
  <2>2. CASE Cardinality(S) # 0
    <3>1. Cardinality(S) \in 1 .. N /\ Cardinality(S) <= Cardinality(S)
      BY <1>0, <1>3, <2>2
    <3>2. Cardinality(S) \in S
      BY <1>4, <3>1
    <3> QED BY <3>2 DEF S, Sane
  <2> QED BY <2>1, <2>2
<1> QED BY <1>3, <1>4, <1>5 DEF GoodTo, S, Sane

(* The records a scan should find.                                         *)
LEMMA IntactIs ==
  ASSUME NEW blocks, NEW upto
  PROVE  Intact(blocks, upto) = SubSeq(blocks, 1, GoodTo(blocks, upto))
BY DEF Intact, GoodTo, Sane

(* More bytes do not make them fewer.                                      *)
LEMMA GoodToGrows ==
  ASSUME NEW blocks \in Seq(Block), NEW p \in Nat, NEW q \in Nat, p <= q
  PROVE  GoodTo(blocks, p) <= GoodTo(blocks, q)
<1> DEFINE k == GoodTo(blocks, p)
<1>1. k \in 0 .. Len(blocks) /\ GoodTo(blocks, q) \in 0 .. Len(blocks) /\ Len(blocks) \in Nat
  BY GoodToIs, BlocksAre
<1>2. CASE k = 0
  BY <1>1, <1>2
<1>3. CASE k # 0
  <2>1. k \in 1 .. Len(blocks) /\ k <= k
    BY <1>1, <1>3
  <2>2. EndsOf(blocks)[k] <= p /\ \A i \in 1 .. k : blocks[i].state = "Good"
    BY <2>1, GoodToIs
  <2>3. EndsOf(blocks)[k] <= q
    <3>1. EndsOf(blocks)[k] \in Nat
      BY <1>1, EndsFacts
    <3> QED BY <2>2, <3>1
  <2> QED BY <2>1, <2>2, <2>3, GoodToIs
<1> QED BY <1>2, <1>3

(* Cut where a block ends, the blocks up to that one are left.             *)
LEMMA UpToIs ==
  ASSUME NEW blocks \in Seq(Block), NEW m \in 0 .. Len(blocks)
  PROVE  UpTo(blocks, EndsOf(blocks)[m]) = SubSeq(blocks, 1, m)
<1> DEFINE S == {i \in 1 .. Len(blocks) : EndsOf(blocks)[i] <= EndsOf(blocks)[m]}
<1>1. Len(blocks) \in Nat /\ m \in Nat
  BY BlocksAre
<1>2. S = 1 .. m
  <2>1. \A i \in 1 .. Len(blocks) : EndsOf(blocks)[i] <= EndsOf(blocks)[m] <=> i <= m
    <3> TAKE i \in 1 .. Len(blocks)
    <3>1. i \in 0 .. Len(blocks)
      BY <1>1
    <3> QED BY <3>1, EndsOrder
  <2> QED BY <1>1, <2>1
<1>3. Cardinality(1 .. m) = m
  <2>1. Cardinality(1 .. m) = IF 1 > m THEN 0 ELSE m - 1 + 1
    BY <1>1, FS_Interval
  <2> QED BY <1>1, <2>1
<1> QED BY <1>2, <1>3 DEF UpTo

(* The least and the greatest number of an interval.                       *)
LEMMA Extremes ==
  ASSUME NEW lo \in Int, NEW hi \in Int, lo <= hi
  PROVE  Min(lo .. hi) = lo /\ Max(lo .. hi) = hi
<1>1. /\ \A x \in lo .. hi : (\A y \in lo .. hi : x <= y) => x = lo
      /\ lo \in lo .. hi /\ \A y \in lo .. hi : lo <= y
  OBVIOUS
<1>2. /\ \A x \in lo .. hi : (\A y \in lo .. hi : x >= y) => x = hi
      /\ hi \in lo .. hi /\ \A y \in lo .. hi : hi >= y
  OBVIOUS
<1>3. Min(lo .. hi) = lo
  BY <1>1 DEF Min
<1>4. Max(lo .. hi) = hi
  BY <1>2 DEF Max
<1> QED BY <1>3, <1>4

(* From where the sound records of the first p bytes end, DecodeStream     *)
(* goes on to where those of the first q bytes end, and takes the records  *)
(* between: the reason why it does not matter how the bytes are cut.       *)
LEMMA Decodes ==
  ASSUME NEW blocks \in Seq(Block), NEW p \in Nat, NEW q \in Nat, p <= q
  PROVE  LET k == GoodTo(blocks, p)
             decoded == DecodeStream(blocks, EndsOf(blocks)[k], q)
         IN  /\ decoded.at = EndsOf(blocks)[GoodTo(blocks, q)]
             /\ SubSeq(blocks, 1, k) \o decoded.records = SubSeq(blocks, 1, GoodTo(blocks, q))
<1> DEFINE E == EndsOf(blocks)
           N == Len(blocks)
           k == GoodTo(blocks, p)
           g == GoodTo(blocks, q)
           whole == {i \in 1 .. N :
                       /\ E[i] <= q
                       /\ \E j \in StartingAt(blocks, E[k]) :
                            j <= i /\ \A n \in j .. i : blocks[n].state = "Good"}
           decoded == DecodeStream(blocks, E[k], q)
<1>1. N \in Nat /\ k \in 0 .. N /\ g \in 0 .. N /\ k <= g
  BY BlocksAre, GoodToIs, GoodToGrows
<1>2. StartingAt(blocks, E[k]) = {k + 1} \cap 1 .. N
  BY <1>1, StartsAtEnd
<1>3. \A i \in 1 .. k : blocks[i].state = "Good"
  <2> TAKE i \in 1 .. k
  <2>1. i \in 1 .. N /\ i <= k /\ i \in 1 .. i
    BY <1>1
  <2> QED BY <2>1, GoodToIs
<1>4. \A i \in 1 .. N : i <= g <=> E[i] <= q /\ \A n \in 1 .. i : blocks[n].state = "Good"
  BY GoodToIs
<1>5. whole = k + 1 .. g
  <2>1. ASSUME NEW i \in whole PROVE i \in k + 1 .. g
    <3>1. PICK j \in StartingAt(blocks, E[k]) :
            j <= i /\ \A n \in j .. i : blocks[n].state = "Good"
      BY <2>1
    <3>2. i \in 1 .. N /\ E[i] <= q /\ j = k + 1
      BY <1>2, <2>1
    <3>3. \A n \in 1 .. i : blocks[n].state = "Good"
      <4> TAKE n \in 1 .. i
      <4>1. n \in 1 .. k \/ n \in j .. i
        BY <1>1, <3>2
      <4> QED BY <1>3, <3>1, <4>1
    <3>4. i <= g
      BY <1>4, <3>2, <3>3
    <3> QED BY <1>1, <3>1, <3>2, <3>4
  <2>2. ASSUME NEW i \in k + 1 .. g PROVE i \in whole
    <3>1. i \in 1 .. N /\ i <= g /\ k + 1 <= i /\ k + 1 \in 1 .. N
      BY <1>1
    <3>2. E[i] <= q /\ \A n \in 1 .. i : blocks[n].state = "Good"
      BY <1>4, <3>1
    <3>3. \A n \in k + 1 .. i : n \in 1 .. i
      BY <1>1, <3>1
    <3>4. k + 1 \in StartingAt(blocks, E[k])
      BY <1>2, <3>1
    <3> QED BY <3>1, <3>2, <3>3, <3>4
  <2> HIDE DEF whole
  <2> QED BY <2>1, <2>2
<1>6. decoded = IF whole = {} THEN [records |-> <<>>, at |-> E[k]]
                ELSE [records |-> SubSeq(blocks, Min(whole), Max(whole)), at |-> E[Max(whole)]]
  BY DEF DecodeStream
<1> HIDE DEF E, k, g, whole, decoded, N
<1>7. CASE k = g
  <2>1. whole = {}
    BY <1>1, <1>5, <1>7
  <2>2. decoded.records = <<>> /\ decoded.at = E[k]
    BY <1>6, <2>1
  <2>3. SubSeq(blocks, 1, k) \in Seq(Block)
    BY <1>1 DEF N
  <2>4. SubSeq(blocks, 1, k) \o <<>> = SubSeq(blocks, 1, k)
    BY <2>3
  <2> QED BY <1>7, <2>2, <2>4 DEF E, k, g, decoded
<1>8. CASE k # g
  <2>1. k + 1 <= g /\ k + 1 \in Int /\ g \in Int
    BY <1>1, <1>8
  <2>2. whole # {} /\ Min(whole) = k + 1 /\ Max(whole) = g
    BY <1>5, <2>1, Extremes
  <2>3. decoded.records = SubSeq(blocks, k + 1, g) /\ decoded.at = E[g]
    BY <1>6, <2>2
  <2>4. SubSeq(blocks, 1, k) \o SubSeq(blocks, k + 1, g) = SubSeq(blocks, 1, g)
    BY <1>1, <2>1 DEF N
  <2> QED BY <2>3, <2>4 DEF E, k, g, decoded
<1> QED BY <1>7, <1>8

(* DecodeStream returns records and a position, wherever it is started.    *)
LEMMA DecodesTyped ==
  ASSUME NEW blocks \in Seq(Block), NEW at \in Nat, NEW upto \in Nat
  PROVE  /\ DecodeStream(blocks, at, upto).at \in Nat
         /\ DecodeStream(blocks, at, upto).records \in Seq(Block)
<1> DEFINE N == Len(blocks)
           whole == {i \in 1 .. N :
                       /\ EndsOf(blocks)[i] <= upto
                       /\ \E j \in StartingAt(blocks, at) :
                            j <= i /\ \A n \in j .. i : blocks[n].state = "Good"}
<1>1. DecodeStream(blocks, at, upto) =
        IF whole = {} THEN [records |-> <<>>, at |-> at]
        ELSE [records |-> SubSeq(blocks, Min(whole), Max(whole)), at |-> EndsOf(blocks)[Max(whole)]]
  BY DEF DecodeStream
<1>2. N \in Nat /\ whole \in SUBSET (1 .. N)
  BY BlocksAre
<1> HIDE DEF whole
<1>3. CASE whole = {}
  BY <1>1, <1>3
<1>4. CASE whole # {}
  <2>1. Min(whole) \in whole
    <3>1. whole \in SUBSET Nat
      BY <1>2
    <3>2. \E m \in whole : \A i \in whole : m <= i
      BY <1>4, <3>1, LeastNatural
    <3> QED BY <3>2 DEF Min
  <2>2. Max(whole) \in whole
    <3> DEFINE U == {N - i : i \in whole}
    <3>0. \A i \in whole : N - i \in Nat
      BY <1>2
    <3>1. U \in SUBSET Nat /\ U # {}
      BY <1>4, <3>0
    <3> HIDE DEF U
    <3>2. PICK m \in U : \A i \in U : m <= i
      BY <3>1, LeastNatural
    <3>3. PICK x \in whole : m = N - x
      BY DEF U
    <3>4. \A i \in whole : x >= i
      <4> TAKE i \in whole
      <4>1. m <= N - i
        BY <3>2 DEF U
      <4> QED BY <1>2, <3>3, <4>1
    <3> QED BY <3>4 DEF Max
  <2>3. Min(whole) \in 1 .. N /\ Max(whole) \in 1 .. N
    BY <1>2, <2>1, <2>2
  <2>4. SubSeq(blocks, Min(whole), Max(whole)) \in Seq(Block)
    BY <1>2, <2>3
  <2>5. EndsOf(blocks)[Max(whole)] \in Nat
    BY <1>2, <2>3, EndsFacts
  <2> QED BY <1>1, <1>4, <2>4, <2>5
<1> QED BY <1>3, <1>4

(* From where the sound records end, bad_header looks at the block behind  *)
(* them.                                                                   *)
LEMMA BadHeaderIs ==
  ASSUME NEW blocks \in Seq(Block), NEW p \in Nat, NEW q \in Nat, p <= q, q <= BytesOf(blocks)
  PROVE  LET k == GoodTo(blocks, p)
         IN  BadHeader(blocks, EndsOf(blocks)[k], q) <=>
               /\ k < Len(blocks) /\ blocks[k + 1].state = "BadHeader"
               /\ q - EndsOf(blocks)[k] >= HeaderSize
<1> DEFINE k == GoodTo(blocks, p)
           at == EndsOf(blocks)[k]
<1>1. k \in 0 .. Len(blocks) /\ Len(blocks) \in Nat
  BY BlocksAre, GoodToIs
<1>2. HeaderSize \in Nat \ {0} /\ at \in Nat
  BY <1>1, EndsFacts, ReadersAssumption
<1>3. StartingAt(blocks, at) = {k + 1} \cap 1 .. Len(blocks)
  BY <1>1, StartsAtEnd
<1> HIDE DEF k
<1>4. CASE k = Len(blocks)
  <2>1. ~(q - at >= HeaderSize)
    BY <1>2, <1>4 DEF BytesOf
  <2> QED BY <1>1, <1>4, <2>1 DEF BadHeader, k
<1>5. CASE k # Len(blocks)
  <2>1. StartingAt(blocks, at) = {k + 1} /\ k < Len(blocks)
    BY <1>1, <1>3, <1>5
  <2> HIDE DEF at
  <2>2. BadHeader(blocks, at, q) <=>
          q - at >= HeaderSize /\ blocks[k + 1].state = "BadHeader"
    BY <2>1 DEF BadHeader
  <2> QED BY <2>1, <2>2 DEF k, at
<1> QED BY <1>4, <1>5

(* Behind the first damage nothing is found, however much is read.         *)
LEMMA DamageStops ==
  ASSUME NEW blocks \in Seq(Block), NEW p \in Nat, NEW q \in Nat, p <= q,
         GoodTo(blocks, p) < Len(blocks), blocks[GoodTo(blocks, p) + 1].state # "Good"
  PROVE  GoodTo(blocks, q) = GoodTo(blocks, p)
<1> DEFINE k == GoodTo(blocks, p)
           g == GoodTo(blocks, q)
<1>1. k \in 0 .. Len(blocks) /\ Len(blocks) \in Nat /\ g \in 0 .. Len(blocks) /\ k <= g
  BY BlocksAre, GoodToIs, GoodToGrows
<1>2. k + 1 \in 1 .. Len(blocks) /\ k + 1 \in 1 .. k + 1
  BY <1>1
<1>3. ~(k + 1 <= g)
  BY <1>2, GoodToIs
<1> QED BY <1>1, <1>3

(* The first records of a file take as many bytes as the file has up to    *)
(* there.                                                                  *)
LEMMA IntactBytes ==
  ASSUME NEW blocks \in Seq(Block), NEW k \in 0 .. Len(blocks)
  PROVE  /\ SubSeq(blocks, 1, k) \in Seq(Block) /\ Len(SubSeq(blocks, 1, k)) = k
         /\ BytesOf(SubSeq(blocks, 1, k)) = EndsOf(blocks)[k]
<1>1. Len(blocks) \in Nat /\ k \in Nat
  BY BlocksAre
<1> DEFINE a == SubSeq(blocks, 1, k)
<1>2. a \in Seq(Block) /\ Len(a) = k /\ \A i \in 1 .. k : a[i] = blocks[i]
  BY <1>1
<1> HIDE DEF a
<1>3. \A i \in 0 .. k : EndsOf(a)[i] = EndsOf(blocks)[i]
  BY <1>1, <1>2, EndsAlike
<1> QED BY <1>1, <1>2, <1>3 DEF BytesOf, a

-----------------------------------------------------------------------------
(* The scenario is a proper one, whatever the number of crashes left.      *)
Scened == scene \in Scenario /\ Recorded(scene)

(* A file on the disk.                                                     *)
Written == [blocks : Seq(Block), known : BOOLEAN, there : BOOLEAN, size : Nat]

(* The files: all but the last as they were, whole; the last as it was or  *)
(* as it is written after a crash, never shorter than the watermark nor    *)
(* longer than its blocks.                                                 *)
Disked ==
  LET n == Len(scene.files)
      old == scene.files[n].blocks
  IN  /\ disk \in Seq(Written) /\ Len(disk) = n
      /\ \A i \in 1 .. n : disk[i].known = scene.files[i].known
      /\ \A i \in 1 .. n : i < n =>
           disk[i].blocks = scene.files[i].blocks /\ disk[i].size = BytesOf(disk[i].blocks)
      /\ scene.mark <= disk[n].size /\ disk[n].size <= BytesOf(disk[n].blocks)
      /\ disk[n].blocks = old \/ disk[n].blocks = UpTo(old, scene.mark) \o scene.resent

(* The scenario stays, but for the crashes; all files but the last stay,   *)
(* and of the last the blocks, unless it is altered.                       *)
Kept ==
  /\ scene' = [scene EXCEPT !.crashes = scene'.crashes]
  /\ Len(disk') = Len(disk)
  /\ \A i \in 1 .. Len(disk) : i < Len(disk) => disk'[i] = disk[i]
  /\ Unaltered' => Unaltered /\ disk'[Len(disk)].blocks = disk[Len(disk)].blocks

(* The parts of a scenario and their types.                                *)
LEMMA SceneFacts ==
  ASSUME Scened
  PROVE  /\ Len(scene.files) \in Nat /\ Len(scene.files) >= 1
         /\ \A i \in 1 .. Len(scene.files) :
              scene.files[i] \in WalFile /\ scene.files[i].blocks \in Seq(Block)
         /\ scene.mark \in Nat /\ scene.size \in Nat /\ scene.resent \in Seq(Block)
         /\ scene.crashes \in Nat
         /\ Last(scene.files) = scene.files[Len(scene.files)]
         /\ scene.epochs \in Seq(SUBSET Row)
<1>1. scene.files \in Seq(WalFile) /\ scene.files # <<>>
  BY DEF Scened, Scenario
<1>2. scene.mark \in Nat /\ scene.size \in Nat /\ scene.resent \in Seq(Block)
      /\ scene.crashes \in Nat /\ scene.epochs \in Seq(SUBSET Row)
  BY DEF Scened, Scenario
<1>3. \A f \in WalFile : f.blocks \in Seq(Block)
  BY DEF WalFile
<1> HIDE DEF Scened
<1>4. Len(scene.files) \in Nat /\ Len(scene.files) >= 1
  BY <1>1
<1>5. \A i \in 1 .. Len(scene.files) : scene.files[i] \in WalFile
  BY <1>1
<1> QED BY <1>2, <1>3, <1>4, <1>5 DEF Last

(* The files and their types.                                              *)
LEMMA DiskFacts ==
  ASSUME Scened, Disked
  PROVE  /\ Len(disk) = Len(scene.files) /\ Len(disk) \in Nat /\ Len(disk) >= 1
         /\ \A i \in 1 .. Len(disk) :
              /\ disk[i] \in Written /\ disk[i].blocks \in Seq(Block) /\ disk[i].size \in Nat
              /\ disk[i].size <= BytesOf(disk[i].blocks)
         /\ Last(disk) = disk[Len(disk)]
         /\ Unaltered => disk[Len(disk)].blocks = scene.files[Len(disk)].blocks
<1>1. disk \in Seq(Written) /\ Len(disk) = Len(scene.files)
  BY DEF Disked
<1>2. Len(disk) \in Nat /\ Len(disk) >= 1
  BY <1>1, SceneFacts
<1>3. \A i \in 1 .. Len(disk) : disk[i] \in Written
  BY <1>1
<1>4. \A w \in Written : w.blocks \in Seq(Block) /\ w.size \in Nat
  BY DEF Written
<1>5. ASSUME NEW i \in 1 .. Len(disk) PROVE disk[i].size <= BytesOf(disk[i].blocks)
  <2>1. CASE i = Len(disk)
    BY <1>1, <2>1 DEF Disked
  <2>2. CASE i # Len(disk)
    <3>1. disk[i].size = BytesOf(disk[i].blocks)
      BY <1>1, <1>2, <2>2 DEF Disked
    <3> QED BY <1>3, <1>4, <3>1
  <2> QED BY <2>1, <2>2
<1>6. Unaltered => disk[Len(disk)].blocks = scene.files[Len(disk)].blocks
  <2>1. Last(scene.files) = scene.files[Len(disk)] /\ Last(disk) = disk[Len(disk)]
    BY <1>1, SceneFacts DEF Last
  <2> QED BY <2>1 DEF Unaltered
<1> QED BY <1>1, <1>2, <1>3, <1>4, <1>5, <1>6 DEF Last

(* The watermark is the end of some block, and up to there what is on the  *)
(* disk is what was first written.                                         *)
LEMMA MarkIs ==
  ASSUME Scened, Disked
  PROVE  LET n == Len(scene.files)
             old == scene.files[n].blocks
         IN  \E m \in 0 .. Len(old) :
               /\ scene.mark = EndsOf(old)[m]
               /\ UpTo(old, scene.mark) = SubSeq(old, 1, m)
               /\ m <= Len(disk[n].blocks) /\ \A i \in 1 .. m : disk[n].blocks[i] = old[i]
               /\ \A i \in 0 .. m : EndsOf(disk[n].blocks)[i] = EndsOf(old)[i]
<1> DEFINE n == Len(scene.files)
           old == scene.files[n].blocks
           now == disk[n].blocks
<1>1. n \in Nat /\ n >= 1 /\ old \in Seq(Block) /\ Last(scene.files).blocks = old
      /\ scene.resent \in Seq(Block)
  BY SceneFacts
<1>2. PICK m \in 0 .. Len(old) : EndsOf(old)[m] = scene.mark
  <2>1. \E i \in 0 .. Len(Last(scene.files).blocks) :
          EndsOf(Last(scene.files).blocks)[i] = scene.mark
    BY DEF Scened, Recorded
  <2> HIDE DEF old
  <2> QED BY <1>1, <2>1
<1>3. UpTo(old, scene.mark) = SubSeq(old, 1, m)
  BY <1>1, <1>2, UpToIs
<1>4. now = old \/ now = SubSeq(old, 1, m) \o scene.resent
  BY <1>3 DEF Disked
<1>5. now \in Seq(Block)
  BY <1>1, DiskFacts
<1> HIDE DEF n, old, now
<1>6. m \in Nat /\ Len(old) \in Nat /\ m <= Len(old)
  BY <1>1, <1>2
<1>7. m <= Len(now) /\ \A i \in 1 .. m : now[i] = old[i]
  <2>1. CASE now = old
    BY <1>6, <2>1
  <2>2. CASE now = SubSeq(old, 1, m) \o scene.resent
    <3> DEFINE a == SubSeq(old, 1, m)
    <3>1. a \in Seq(Block) /\ Len(a) = m /\ \A i \in 1 .. m : a[i] = old[i]
      BY <1>1, <1>6
    <3> HIDE DEF a
    <3>2. now = a \o scene.resent
      BY <2>2 DEF a
    <3> QED BY <1>1, <1>6, <3>1, <3>2
  <2> QED BY <1>4, <2>1, <2>2
<1>8. \A i \in 0 .. m : EndsOf(now)[i] = EndsOf(old)[i]
  BY <1>1, <1>5, <1>6, <1>7, EndsAlike
<1> QED BY <1>2, <1>3, <1>7, <1>8 DEF n, old, now

(* The first state.                                                        *)
LEMMA InitDisk == Init => Scened /\ Disked
<1> SUFFICES ASSUME Init PROVE Scened /\ Disked
  OBVIOUS
<1>1. Scened
  BY ReadersAssumption DEF Init, Scened
<1> DEFINE n == Len(scene.files)
           old == scene.files[n].blocks
<1>2. n \in Nat /\ n >= 1 /\ scene.size \in Nat /\ Last(scene.files).blocks = old
      /\ \A i \in 1 .. n : scene.files[i] \in WalFile /\ scene.files[i].blocks \in Seq(Block)
  BY <1>1, SceneFacts
<1>3. disk = [i \in 1 .. n |-> Fresh(scene.files[i], i = n)]
  BY DEF Init
<1>4. \A i \in 1 .. n : BytesOf(scene.files[i].blocks) \in Nat
  <2> TAKE i \in 1 .. n
  <2>1. Len(scene.files[i].blocks) \in 0 .. Len(scene.files[i].blocks)
    BY <1>2, BlocksAre
  <2> QED BY <1>2, <2>1, EndsFacts DEF BytesOf
<1>5. \A i \in 1 .. n :
        /\ disk[i].blocks = scene.files[i].blocks /\ disk[i].known = scene.files[i].known
        /\ disk[i].size = IF i = n THEN scene.size ELSE BytesOf(scene.files[i].blocks)
        /\ disk[i] \in Written
  <2> TAKE i \in 1 .. n
  <2>1. disk[i] = [blocks |-> scene.files[i].blocks, known |-> scene.files[i].known,
                   there |-> scene.files[i].there,
                   size |-> IF i = n THEN scene.size ELSE BytesOf(scene.files[i].blocks)]
    BY <1>3 DEF Fresh, BytesOf
  <2>2. scene.files[i].known \in BOOLEAN /\ scene.files[i].there \in BOOLEAN
    BY <1>2 DEF WalFile
  <2> QED BY <1>2, <1>4, <2>1, <2>2 DEF Written
<1>6. disk \in Seq(Written) /\ Len(disk) = n
  <2>1. disk \in [1 .. n -> Written]
    BY <1>3, <1>5
  <2> QED BY <1>2, <2>1, SMTT(40)
<1>7. scene.mark <= scene.size /\ scene.size <= BytesOf(old)
  BY <1>1, <1>2 DEF Scened, Recorded
<1>8. n \in 1 .. n
  BY <1>2
<1>9. disk[n].blocks = old /\ disk[n].size = scene.size
  BY <1>5, <1>8
<1>10. \A i \in 1 .. n : disk[i].known = scene.files[i].known
  BY <1>5
<1>11. \A i \in 1 .. n : i < n =>
         disk[i].blocks = scene.files[i].blocks /\ disk[i].size = BytesOf(disk[i].blocks)
  BY <1>2, <1>5
<1> QED BY <1>1, <1>6, <1>7, <1>9, <1>10, <1>11 DEF Disked

(* A scenario with fewer crashes left is a proper one and differs in       *)
(* nothing else.                                                           *)
LEMMA SceneKept ==
  ASSUME Scened, scene' = [scene EXCEPT !.crashes = scene'.crashes], scene'.crashes \in Nat
  PROVE  /\ Scened'
         /\ scene'.files = scene.files /\ scene'.mark = scene.mark
         /\ scene'.resent = scene.resent /\ scene'.epochs = scene.epochs
         /\ scene'.job = scene.job /\ scene'.from = scene.from /\ scene'.to = scene.to
<1>1. scene \in Scenario
  BY DEF Scened
<1>2. /\ scene'.files = scene.files /\ scene'.mark = scene.mark /\ scene'.size = scene.size
      /\ scene'.resent = scene.resent /\ scene'.epochs = scene.epochs
      /\ scene'.job = scene.job /\ scene'.from = scene.from /\ scene'.to = scene.to
  BY <1>1 DEF Scenario
<1>3. scene' \in Scenario
  BY <1>1 DEF Scenario
<1>4. Recorded(scene')
  <2>1. Recorded(scene)
    BY DEF Scened
  <2> QED BY <1>2, <2>1 DEF Recorded
<1> QED BY <1>2, <1>3, <1>4 DEF Scened

(* The writer appends.                                                     *)
LEMMA WriteDisk ==
  ASSUME Scened, Disked, NEW k \in 1 .. ReadSize, Write(k)
  PROVE  Scened' /\ Disked' /\ Kept
<1> DEFINE n == Len(disk)
           grown == disk[n].size + k
<1>0. ReadSize \in Nat
  BY ReadersAssumption
<1>1. n = Len(scene.files) /\ n \in Nat /\ n >= 1 /\ disk[n] \in Written /\ disk[n].size \in Nat
      /\ Last(disk) = disk[n] /\ disk \in Seq(Written)
  <2>1. disk \in Seq(Written)
    BY DEF Disked
  <2>2. n = Len(scene.files) /\ n \in Nat /\ n >= 1 /\ Last(disk) = disk[n] /\ n \in 1 .. n
    BY DiskFacts
  <2> QED BY <2>1, <2>2, DiskFacts
<1>2. scene' = scene /\ grown <= BytesOf(disk[n].blocks)
      /\ disk' = [disk EXCEPT ![n] = [disk[n] EXCEPT !.size = grown]]
  BY <1>1 DEF Write, BytesOf
<1>3. grown \in Nat /\ scene.mark <= grown
  <2>1. scene.mark <= disk[n].size /\ scene.mark \in Nat
    BY <1>1, SceneFacts DEF Disked
  <2> QED BY <1>0, <1>1, <2>1
<1> HIDE DEF grown
<1>4. [disk[n] EXCEPT !.size = grown] \in Written /\ disk'[n] = [disk[n] EXCEPT !.size = grown]
  <2>1. [disk[n] EXCEPT !.size = grown] \in Written
    BY <1>1, <1>3 DEF Written
  <2>2. disk'[n] = [disk[n] EXCEPT !.size = grown]
    BY <1>1, <1>2
  <2> QED BY <2>1, <2>2
<1>5. disk'[n].blocks = disk[n].blocks /\ disk'[n].known = disk[n].known
      /\ disk'[n].size = grown
  BY <1>1, <1>4 DEF Written
<1>6. disk' \in Seq(Written) /\ Len(disk') = n /\ \A i \in 1 .. n : i # n => disk'[i] = disk[i]
  <2>1. disk' \in [1 .. n -> Written]
    BY <1>1, <1>2, <1>4
  <2>2. \A i \in 1 .. n : i # n => disk'[i] = disk[i]
    BY <1>1, <1>2
  <2> QED BY <1>1, <2>1, <2>2, SMTT(40)
<1>7. Scened'
  BY <1>2 DEF Scened
<1>8. Disked'
  <2>1. \A i \in 1 .. n : disk'[i].known = scene.files[i].known
    BY <1>1, <1>5, <1>6 DEF Disked
  <2>2. \A i \in 1 .. n : i < n =>
           disk'[i].blocks = scene.files[i].blocks /\ disk'[i].size = BytesOf(disk'[i].blocks)
    BY <1>1, <1>6 DEF Disked
  <2>3. disk[n].blocks = scene.files[n].blocks
        \/ disk[n].blocks = UpTo(scene.files[n].blocks, scene.mark) \o scene.resent
    BY <1>1 DEF Disked
  <2>4. scene' = scene
    BY <1>2
  <2>5. scene.mark <= disk'[n].size /\ disk'[n].size <= BytesOf(disk'[n].blocks)
    BY <1>2, <1>3, <1>5
  <2>6. disk'[n].blocks = scene.files[n].blocks
        \/ disk'[n].blocks = UpTo(scene.files[n].blocks, scene.mark) \o scene.resent
    BY <1>5, <2>3
  <2> QED BY <1>1, <1>6, <2>1, <2>2, <2>4, <2>5, <2>6 DEF Disked
<1>9. Kept
  <2>1. scene' = [scene EXCEPT !.crashes = scene'.crashes]
    BY <1>2 DEF Scened, Scenario
  <2>2. Last(disk') = disk'[n]
    BY <1>6 DEF Last
  <2>3. Unaltered' => Unaltered
    BY <1>1, <1>2, <1>5, <2>2 DEF Unaltered
  <2> QED BY <1>1, <1>5, <1>6, <2>1, <2>3 DEF Kept
<1> QED BY <1>7, <1>8, <1>9

(* The writer restarts: the file is cut at the watermark, which is the end *)
(* of a block of the old and the new file alike.                           *)
LEMMA RestartDisk ==
  ASSUME Scened, Disked, WriterRestarts
  PROVE  Scened' /\ Disked' /\ Kept
<1> DEFINE n == Len(disk)
           old == scene.files[n].blocks
           now == disk[n].blocks
           new == UpTo(now, scene.mark) \o scene.resent
           w == [disk[n] EXCEPT !.size = scene.mark, !.blocks = new]
<1>1. n = Len(scene.files) /\ n \in Nat /\ n >= 1 /\ disk[n] \in Written
      /\ Last(disk) = disk[n] /\ disk \in Seq(Written) /\ now \in Seq(Block)
  <2>1. disk \in Seq(Written)
    BY DEF Disked
  <2>2. n = Len(scene.files) /\ n \in Nat /\ n >= 1 /\ Last(disk) = disk[n] /\ n \in 1 .. n
    BY DiskFacts
  <2> QED BY <2>1, <2>2, DiskFacts
<1>2. scene.mark \in Nat /\ scene.resent \in Seq(Block) /\ old \in Seq(Block)
      /\ scene.crashes \in Nat /\ Last(scene.files).blocks = old
  BY <1>1, SceneFacts
<1>3. scene' = [scene EXCEPT !.crashes = scene.crashes - 1] /\ scene.crashes > 0
      /\ disk' = [disk EXCEPT ![n] = w]
  BY <1>1 DEF WriterRestarts
<1>4. scene'.crashes = scene.crashes - 1 /\ scene'.crashes \in Nat
      /\ scene' = [scene EXCEPT !.crashes = scene'.crashes]
  <2>1. scene'.crashes = scene.crashes - 1
    BY <1>3 DEF Scened, Scenario
  <2> QED BY <1>2, <1>3, <2>1
<1>5. PICK m \in 0 .. Len(old) :
        /\ scene.mark = EndsOf(old)[m]
        /\ UpTo(old, scene.mark) = SubSeq(old, 1, m)
        /\ m <= Len(now) /\ \A i \in 1 .. m : now[i] = old[i]
        /\ \A i \in 0 .. m : EndsOf(now)[i] = EndsOf(old)[i]
  BY <1>1, MarkIs
<1> HIDE DEF old, now
<1>6. m \in Nat /\ Len(old) \in Nat /\ m \in 0 .. Len(now) /\ m \in 0 .. m
  BY <1>1, <1>2, <1>5
<1>7. UpTo(now, scene.mark) = SubSeq(now, 1, m)
  <2>1. scene.mark = EndsOf(now)[m]
    BY <1>5, <1>6
  <2> QED BY <1>1, <1>6, <2>1, UpToIs
<1>8. SubSeq(now, 1, m) = SubSeq(old, 1, m)
  BY <1>1, <1>2, <1>5, <1>6
<1>9. new = UpTo(old, scene.mark) \o scene.resent
  BY <1>5, <1>7, <1>8
<1>10. new \in Seq(Block) /\ scene.mark <= BytesOf(new)
  <2> DEFINE a == SubSeq(old, 1, m)
  <2>1. a \in Seq(Block) /\ Len(a) = m /\ \A i \in 1 .. m : a[i] = old[i]
    BY <1>2, <1>5, <1>6
  <2>2. new = a \o scene.resent
    BY <1>5, <1>9
  <2> HIDE DEF a, new
  <2>3. new \in Seq(Block) /\ Len(new) \in Nat /\ m <= Len(new) /\ \A i \in 1 .. m : new[i] = old[i]
    BY <1>2, <1>6, <2>1, <2>2
  <2>4. \A i \in 0 .. m : EndsOf(new)[i] = EndsOf(old)[i]
    BY <1>2, <1>5, <1>6, <2>3, EndsAlike
  <2>5. EndsOf(new)[m] = scene.mark
    BY <1>5, <1>6, <2>4
  <2>6. m \in 0 .. Len(new) /\ Len(new) \in 0 .. Len(new)
    BY <1>6, <2>3
  <2>7. EndsOf(new)[m] <= EndsOf(new)[Len(new)]
    BY <2>3, <2>6, EndsOrder
  <2> QED BY <2>3, <2>5, <2>7 DEF BytesOf
<1> HIDE DEF new
<1>11. w \in Written /\ w.blocks = new /\ w.known = disk[n].known /\ w.size = scene.mark
  BY <1>1, <1>2, <1>10 DEF Written
<1> HIDE DEF w
<1>12. disk' \in Seq(Written) /\ Len(disk') = n /\ disk'[n] = w
       /\ \A i \in 1 .. n : i # n => disk'[i] = disk[i]
  <2>1. disk' \in [1 .. n -> Written]
    BY <1>1, <1>3, <1>11
  <2>2. disk'[n] = w /\ \A i \in 1 .. n : i # n => disk'[i] = disk[i]
    BY <1>1, <1>3
  <2> QED BY <1>1, <2>1, <2>2, SMTT(40)
<1>13. Scened' /\ scene'.files = scene.files /\ scene'.mark = scene.mark
       /\ scene'.resent = scene.resent
  BY <1>4, SceneKept
<1>14. Disked'
  <2>1. \A i \in 1 .. n : disk'[i].known = scene.files[i].known
    BY <1>1, <1>11, <1>12 DEF Disked
  <2>2. \A i \in 1 .. n : i < n =>
           disk'[i].blocks = scene.files[i].blocks /\ disk'[i].size = BytesOf(disk'[i].blocks)
    BY <1>1, <1>12 DEF Disked
  <2>3. disk'[n].blocks = UpTo(scene.files[n].blocks, scene.mark) \o scene.resent
    BY <1>9, <1>11, <1>12 DEF old
  <2>4. scene.mark <= disk'[n].size /\ disk'[n].size <= BytesOf(disk'[n].blocks)
    BY <1>2, <1>10, <1>11, <1>12
  <2> QED BY <1>1, <1>12, <1>13, <2>1, <2>2, <2>3, <2>4 DEF Disked
<1>15. Kept
  <2>1. now = old \/ now = new
    BY <1>1, <1>9 DEF Disked, now, old
  <2>2. Unaltered' => Unaltered /\ disk'[n].blocks = disk[n].blocks
    <3> SUFFICES ASSUME Unaltered' PROVE now = old /\ new = old
      BY <1>1, <1>2, <1>11, <1>12 DEF Unaltered, now
    <3>1. Last(disk') = disk'[n]
      BY <1>12 DEF Last
    <3>2. new = old
      BY <1>2, <1>11, <1>12, <1>13, <3>1 DEF Unaltered
    <3> QED BY <2>1, <3>2
  <2>3. \A i \in 1 .. n : i < n => disk'[i] = disk[i]
    BY <1>1, <1>12
  <2> QED BY <1>4, <1>12, <2>2, <2>3 DEF Kept
<1> QED BY <1>13, <1>14, <1>15

-----------------------------------------------------------------------------
(* A reader that has read so many bytes has taken the sound records among  *)
(* them and stands where they end.                                         *)
Amid(blocks, read, at, records) ==
  /\ read <= BytesOf(blocks)
  /\ at = EndsOf(blocks)[GoodTo(blocks, read)]
  /\ records = SubSeq(blocks, 1, GoodTo(blocks, read))

(* A reader that has read nothing.                                         *)
LEMMA AmidStarts ==
  ASSUME NEW blocks \in Seq(Block)
  PROVE  Amid(blocks, 0, 0, <<>>)
<1> DEFINE k == GoodTo(blocks, 0)
<1>1. k \in 0 .. Len(blocks) /\ Len(blocks) \in Nat /\ EndsOf(blocks)[k] <= 0
  BY BlocksAre, GoodToIs
<1>2. EndsOf(blocks)[0] = 0 /\ EndsOf(blocks)[k] \in Nat /\ 0 \in 0 .. Len(blocks)
  BY <1>1, EndsFacts
<1>3. k = 0
  <2>1. EndsOf(blocks)[k] = EndsOf(blocks)[0]
    BY <1>1, <1>2
  <2> QED BY <1>1, <1>2, <2>1, EndsOrder
<1>4. BytesOf(blocks) \in Nat
  <2>1. Len(blocks) \in 0 .. Len(blocks)
    BY <1>1
  <2> QED BY <2>1, EndsFacts DEF BytesOf
<1>5. SubSeq(blocks, 1, 0) = <<>>
  OBVIOUS
<1> QED BY <1>2, <1>3, <1>4, <1>5 DEF Amid

(* Reading on and decoding takes a reader to where it should be.           *)
LEMMA AmidGoes ==
  ASSUME NEW blocks \in Seq(Block), NEW p \in Nat, NEW q \in Nat, NEW at, NEW records,
         p <= q, q <= BytesOf(blocks), Amid(blocks, p, at, records)
  PROVE  Amid(blocks, q, DecodeStream(blocks, at, q).at,
              records \o DecodeStream(blocks, at, q).records)
BY Decodes DEF Amid

(* What the result of a scan says of a file is so.                         *)
Exact(r, blocks) ==
  LET good == Intact(blocks, r.total)
  IN  /\ r.records = good
      /\ r.total = BytesOf(good) + r.dirty
      /\ r.early <=> /\ Len(good) < Len(blocks)
                     /\ blocks[Len(good) + 1].state = "BadHeader"
                     /\ r.dirty >= HeaderSize

(* A scan that ends with the file, or at a damaged header, has an exact    *)
(* result.                                                                 *)
LEMMA AmidEnds ==
  ASSUME NEW blocks \in Seq(Block), NEW p \in Nat, NEW q \in Nat, NEW at, NEW records,
         p <= q, q <= BytesOf(blocks), Amid(blocks, p, at, records),
         p = q \/ BadHeader(blocks, at, q)
  PROVE  Exact([records |-> records, total |-> q, dirty |-> q - at,
                early |-> BadHeader(blocks, at, q)], blocks)
<1> DEFINE k == GoodTo(blocks, p)
           good == SubSeq(blocks, 1, k)
<1>1. at = EndsOf(blocks)[k] /\ records = good
  BY DEF Amid
<1>2. k \in 0 .. Len(blocks) /\ Len(blocks) \in Nat
  BY BlocksAre, GoodToIs
<1>3. BadHeader(blocks, at, q) <=>
        k < Len(blocks) /\ blocks[k + 1].state = "BadHeader" /\ q - at >= HeaderSize
  BY <1>1, BadHeaderIs
<1>4. GoodTo(blocks, q) = k
  <2>1. CASE p = q
    BY <2>1
  <2>2. CASE BadHeader(blocks, at, q)
    <3>1. k < Len(blocks) /\ blocks[k + 1].state # "Good"
      BY <1>3, <2>2
    <3> QED BY <3>1, DamageStops
  <2> QED BY <2>1, <2>2
<1>5. Intact(blocks, q) = good
  BY <1>4, IntactIs
<1>6. Len(good) = k /\ BytesOf(good) = at
  BY <1>1, <1>2, IntactBytes
<1>7. at \in Nat
  BY <1>1, <1>2, EndsFacts
<1>8. q = BytesOf(good) + (q - at)
  BY <1>6, <1>7
<1> HIDE DEF good, k
<1> DEFINE r == [records |-> records, total |-> q, dirty |-> q - at,
                 early |-> BadHeader(blocks, at, q)]
<1>9. r.records = good /\ r.total = q /\ r.dirty = q - at
      /\ r.early = BadHeader(blocks, at, q) /\ Intact(blocks, r.total) = good
  BY <1>1, <1>5
<1> HIDE DEF r
<1>10. r.early <=> k < Len(blocks) /\ blocks[k + 1].state = "BadHeader" /\ r.dirty >= HeaderSize
  BY <1>3, <1>9
<1>11. r.total = BytesOf(good) + r.dirty
  BY <1>8, <1>9
<1>12. Exact(r, blocks)
  BY <1>6, <1>9, <1>10, <1>11 DEF Exact
<1> QED BY <1>12 DEF r

(* The result of the scan of a file.                                       *)
Result == [records : Seq(Block), total : Nat, dirty : Int, early : BOOLEAN]
(* The states of a scan.                                                   *)
Scans == [file : Nat, read : Nat, at : Nat, records : Seq(Block), results : Seq(Result)]

(* What is said of a file counts unless it is written differently after a  *)
(* crash.                                                                  *)
Counts(n) == Unaltered \/ n < Len(disk)

(* The scan is where it should be in the file it reads, and its results    *)
(* are exact.                                                              *)
ScanInv ==
  /\ scan \in Scans
  /\ scan.file = Len(scan.results) + 1 /\ scan.file <= Len(disk) + 1
  /\ scan.file <= Len(disk) /\ Counts(scan.file) =>
       Amid(Scanned, scan.read, scan.at, scan.records)
  /\ \A n \in 1 .. Len(scan.results) : Counts(n) =>
       /\ Exact(scan.results[n], disk[n].blocks)
       /\ n < Len(disk) /\ ~scan.results[n].early => scan.results[n].total = disk[n].size

(* The invariant implies the property.                                     *)
LEMMA ScanInvImplies ==
  ASSUME ScanInv
  PROVE  ScanIsExact
<1>1. scan.results \in Seq(Result)
  BY DEF ScanInv, Scans
<1>2. DOMAIN scan.results = 1 .. Len(scan.results)
  BY <1>1
<1> QED BY <1>2 DEF ScanIsExact, ScanInv, Exact, Counts

(* What counts after a step of the writer counted before it, and was the   *)
(* same.                                                                   *)
LEMMA KeptFacts ==
  ASSUME Scened, Disked, Scened', Kept
  PROVE  /\ \A n : Counts(n)' => Counts(n)
         /\ \A n \in 1 .. Len(disk) : Counts(n)' => disk'[n].blocks = disk[n].blocks
         /\ \A n \in 1 .. Len(disk) : n < Len(disk) => disk'[n] = disk[n]
         /\ Len(disk') = Len(disk) /\ (Unaltered' => Unaltered)
<1>2. Unaltered' => Unaltered
  BY DEF Kept
<1>3. Len(disk') = Len(disk) /\ Len(disk) \in Nat
      /\ (\A n \in 1 .. Len(disk) : n < Len(disk) => disk'[n] = disk[n])
      /\ (Unaltered' => disk'[Len(disk)].blocks = disk[Len(disk)].blocks)
  BY DiskFacts DEF Kept
<1>4. \A n : Counts(n)' => Counts(n)
  BY <1>2, <1>3 DEF Counts
<1>5. ASSUME NEW n \in 1 .. Len(disk), Counts(n)' PROVE disk'[n].blocks = disk[n].blocks
  <2>1. n = Len(disk) \/ n < Len(disk)
    BY <1>3
  <2> QED BY <1>3, <1>5, <2>1 DEF Counts
<1> QED BY <1>2, <1>3, <1>4, <1>5

(* A step of the writer leaves the scan where it should be.                *)
LEMMA ScanStays ==
  ASSUME Scened, Disked, Scened', Kept, ScanInv, UNCHANGED scan
  PROVE  ScanInv'
<1>1. scan \in Scans /\ scan' = scan /\ scan.file \in Nat /\ scan.results \in Seq(Result)
  BY DEF ScanInv, Scans
<1>2. Len(disk) \in Nat /\ Len(scan.results) \in Nat
  BY <1>1, DiskFacts
<1>3. scan.file = Len(scan.results) + 1 /\ scan.file <= Len(disk) + 1
  BY DEF ScanInv
<1>4. \A n \in 1 .. Len(scan.results) : n \in 1 .. Len(disk)
  BY <1>1, <1>2, <1>3
<1>5. ASSUME scan.file <= Len(disk), Counts(scan.file)'
      PROVE  Amid(disk'[scan.file].blocks, scan.read, scan.at, scan.records)
  <2>1. Counts(scan.file) /\ scan.file \in 1 .. Len(disk)
    BY <1>1, <1>2, <1>3, <1>5, KeptFacts
  <2>2. disk'[scan.file].blocks = disk[scan.file].blocks
    BY <1>5, <2>1, KeptFacts
  <2> QED BY <1>5, <2>1, <2>2 DEF ScanInv, Scanned
<1>6. ASSUME NEW n \in 1 .. Len(scan.results), Counts(n)'
      PROVE  /\ Exact(scan.results[n], disk'[n].blocks)
             /\ n < Len(disk) /\ ~scan.results[n].early => scan.results[n].total = disk'[n].size
  <2>1. Counts(n) /\ n \in 1 .. Len(disk)
    BY <1>4, <1>6, KeptFacts
  <2>2. disk'[n].blocks = disk[n].blocks /\ (n < Len(disk) => disk'[n] = disk[n])
    BY <1>6, <2>1, KeptFacts
  <2> QED BY <2>1, <2>2 DEF ScanInv
<1>7. Len(disk') = Len(disk)
  BY KeptFacts
<1> QED BY <1>1, <1>3, <1>5, <1>6, <1>7 DEF ScanInv, Scanned

(* The scan of a file ends with an exact result and the next one begins.   *)
LEMMA FileScannedKeeps ==
  ASSUME Scened, Disked, ScanInv, Scanning, UNCHANGED <<scene, disk>>,
         NEW read \in Nat, NEW early \in BOOLEAN, FileScanned(read, early),
         Counts(scan.file) =>
           Exact([records |-> scan.records, total |-> read, dirty |-> read - scan.at,
                  early |-> early], Scanned),
         scan.file < Len(disk) /\ ~early => read = disk[scan.file].size
  PROVE  ScanInv'
<1> DEFINE r == [records |-> scan.records, total |-> read, dirty |-> read - scan.at,
                 early |-> early]
           results == Append(scan.results, r)
<1>1. /\ scan.file \in Nat /\ scan.at \in Nat /\ scan.records \in Seq(Block)
      /\ scan.results \in Seq(Result) /\ scan.file = Len(scan.results) + 1
      /\ scan.file <= Len(disk)
  BY DEF ScanInv, Scans, Scanning
<1>2. r \in Result /\ r.early = early /\ r.total = read
  BY <1>1 DEF Result
<1>3. scan' = [file |-> scan.file + 1, read |-> 0, at |-> 0, records |-> <<>>, results |-> results]
  BY DEF FileScanned, NewScan
<1>4. Counts(scan.file) => Exact(r, Scanned)
  OBVIOUS
<1> HIDE DEF r
<1>5. /\ results \in Seq(Result) /\ Len(results) = Len(scan.results) + 1
      /\ results[Len(scan.results) + 1] = r
      /\ \A n \in 1 .. Len(scan.results) : results[n] = scan.results[n]
  BY <1>1, <1>2
<1> HIDE DEF results
<1>6. /\ scan'.file = scan.file + 1 /\ scan'.read = 0 /\ scan'.at = 0 /\ scan'.records = <<>>
      /\ scan'.results = results
  BY <1>3
<1>7. <<>> \in Seq(Block)
  OBVIOUS
<1>8. scan' \in Scans
  BY <1>1, <1>3, <1>5, <1>7 DEF Scans
<1>9. Len(disk) \in Nat /\ Len(scan.results) \in Nat
  BY <1>1, DiskFacts
<1>10. scan'.file = Len(results) + 1 /\ scan'.file <= Len(disk) + 1
  BY <1>1, <1>5, <1>6, <1>9
<1>11. ASSUME scan'.file <= Len(disk)
       PROVE  Amid(disk[scan'.file].blocks, 0, 0, <<>>)
  <2>1. scan'.file \in 1 .. Len(disk)
    BY <1>1, <1>6, <1>9, <1>11
  <2>2. disk[scan'.file].blocks \in Seq(Block)
    BY <2>1, DiskFacts
  <2> QED BY <2>2, AmidStarts
<1>12. \A n : Counts(n)' <=> Counts(n)
  BY DEF Counts, Unaltered
<1>13. ASSUME NEW n \in 1 .. Len(results), Counts(n)
       PROVE  /\ Exact(results[n], disk[n].blocks)
              /\ n < Len(disk) /\ ~results[n].early => results[n].total = disk[n].size
  <2>1. CASE n = Len(scan.results) + 1
    <3>1. n = scan.file /\ results[n] = r
      BY <1>1, <1>5, <2>1
    <3> QED BY <1>2, <1>4, <1>13, <3>1 DEF Scanned
  <2>2. CASE n # Len(scan.results) + 1
    <3>1. n \in 1 .. Len(scan.results) /\ results[n] = scan.results[n]
      BY <1>5, <1>9, <2>2
    <3> QED BY <1>13, <3>1 DEF ScanInv
  <2> QED BY <2>1, <2>2
<1> QED BY <1>6, <1>8, <1>10, <1>11, <1>12, <1>13 DEF ScanInv, Scanned

(* The file that is scanned, and where the scan is.                        *)
LEMMA ScanningFacts ==
  ASSUME Scened, Disked, ScanInv, Scanning
  PROVE  /\ scan.file \in 1 .. Len(disk) /\ Scanned \in Seq(Block)
         /\ disk[scan.file].size \in Nat /\ disk[scan.file].size <= BytesOf(Scanned)
         /\ BytesOf(Scanned) \in Nat
         /\ scan.read \in Nat /\ scan.at \in Nat /\ scan.records \in Seq(Block)
         /\ Counts(scan.file) => Amid(Scanned, scan.read, scan.at, scan.records)
<1>1. /\ scan.file \in Nat /\ scan.read \in Nat /\ scan.at \in Nat
      /\ scan.records \in Seq(Block) /\ scan.results \in Seq(Result)
      /\ scan.file = Len(scan.results) + 1 /\ scan.file <= Len(disk)
  BY DEF ScanInv, Scans, Scanning
<1>2. Len(disk) \in Nat /\ Len(scan.results) \in Nat
  BY <1>1, DiskFacts
<1>3. scan.file \in 1 .. Len(disk)
  BY <1>1, <1>2
<1>4. /\ Scanned \in Seq(Block) /\ disk[scan.file].size \in Nat
      /\ disk[scan.file].size <= BytesOf(Scanned)
  BY <1>3, DiskFacts DEF Scanned
<1>5. BytesOf(Scanned) \in Nat
  <2>1. Len(Scanned) \in 0 .. Len(Scanned)
    BY <1>4, BlocksAre
  <2> QED BY <1>4, <2>1, EndsFacts DEF BytesOf
<1>6. Counts(scan.file) => Amid(Scanned, scan.read, scan.at, scan.records)
  BY <1>1 DEF ScanInv
<1> QED BY <1>1, <1>3, <1>4, <1>5, <1>6

(* A read, with the look for a damaged header in front of the decoding.    *)
LEMMA ScanReadKeeps ==
  ASSUME Scened, Disked, ScanInv, NEW n \in 1 .. ReadSize, ScanRead(n)
  PROVE  ScanInv'
<1> DEFINE read == scan.read + n
           decoded == DecodeStream(Scanned, scan.at, read)
<1>0. ReadSize \in Nat
  BY ReadersAssumption
<1>1. Scanning /\ read <= disk[scan.file].size /\ UNCHANGED <<scene, disk>>
  BY DEF ScanRead
<1>2. /\ scan.file \in 1 .. Len(disk) /\ Scanned \in Seq(Block)
      /\ disk[scan.file].size \in Nat /\ disk[scan.file].size <= BytesOf(Scanned)
      /\ BytesOf(Scanned) \in Nat
      /\ scan.read \in Nat /\ scan.at \in Nat /\ scan.records \in Seq(Block)
      /\ (Counts(scan.file) => Amid(Scanned, scan.read, scan.at, scan.records))
  BY <1>1, ScanningFacts
<1>3. read \in Nat /\ scan.read <= read /\ read <= BytesOf(Scanned)
  <2>1. n \in Nat /\ n >= 1
    BY <1>0
  <2>2. read \in Nat /\ scan.read <= read
    BY <1>2, <2>1
  <2> DEFINE size == disk[scan.file].size
             bytes == BytesOf(Scanned)
  <2>3. size \in Nat /\ bytes \in Nat /\ read <= size /\ size <= bytes
    BY <1>1, <1>2
  <2> HIDE DEF read, size, bytes
  <2>4. read <= bytes
    BY <2>2, <2>3
  <2> QED BY <2>2, <2>4 DEF bytes
<1>4. IF BadHeader(Scanned, scan.at, read)
      THEN FileScanned(read, TRUE)
      ELSE scan' = [scan EXCEPT !.read = read, !.at = decoded.at,
                                !.records = @ \o decoded.records]
  BY DEF ScanRead
<1> HIDE DEF read
<1>5. CASE BadHeader(Scanned, scan.at, read)
  <2>1. Counts(scan.file) =>
          Exact([records |-> scan.records, total |-> read, dirty |-> read - scan.at,
                 early |-> BadHeader(Scanned, scan.at, read)], Scanned)
    BY <1>2, <1>3, <1>5, AmidEnds
  <2>2. BadHeader(Scanned, scan.at, read) = TRUE
    BY <1>5 DEF BadHeader
  <2>3. Counts(scan.file) =>
          Exact([records |-> scan.records, total |-> read, dirty |-> read - scan.at,
                 early |-> TRUE], Scanned)
    BY <2>1, <2>2
  <2> QED BY <1>1, <1>3, <1>4, <1>5, <2>3, FileScannedKeeps
<1>6. CASE ~BadHeader(Scanned, scan.at, read)
  <2> DEFINE at == decoded.at
             records == scan.records \o decoded.records
  <2>1. at \in Nat /\ decoded.records \in Seq(Block)
    BY <1>2, <1>3, DecodesTyped
  <2>2. Counts(scan.file) => Amid(Scanned, read, at, records)
    BY <1>2, <1>3, AmidGoes
  <2>3. records \in Seq(Block)
    BY <1>2, <2>1
  <2>4. scan \in Scans
    BY DEF ScanInv
  <2>5. scan' = [scan EXCEPT !.read = read, !.at = at, !.records = records]
    BY <1>4, <1>6, <2>4 DEF Scans
  <2> HIDE DEF at, records, decoded
  <2>6. scan' \in Scans /\ scan'.file = scan.file /\ scan'.read = read /\ scan'.at = at
        /\ scan'.records = records /\ scan'.results = scan.results
    BY <1>3, <2>1, <2>3, <2>4, <2>5 DEF Scans
  <2>7. \A i : Counts(i)' <=> Counts(i)
    BY <1>1 DEF Counts, Unaltered
  <2>8. disk' = disk /\ Scanned' = Scanned
    BY <1>1, <2>6 DEF Scanned
  <2> QED BY <2>2, <2>6, <2>7, <2>8 DEF ScanInv
<1> QED BY <1>5, <1>6

(* The end of the file, where a damaged header may still be left.          *)
LEMMA ScanEofKeeps ==
  ASSUME Scened, Disked, ScanInv, ScanEof
  PROVE  ScanInv'
<1> DEFINE bad == BadHeader(Scanned, scan.at, scan.read)
<1>1. Scanning /\ scan.read >= disk[scan.file].size /\ UNCHANGED <<scene, disk>>
      /\ FileScanned(scan.read, bad)
  BY DEF ScanEof
<1>2. /\ scan.file \in 1 .. Len(disk) /\ Scanned \in Seq(Block)
      /\ disk[scan.file].size \in Nat /\ disk[scan.file].size <= BytesOf(Scanned)
      /\ BytesOf(Scanned) \in Nat
      /\ scan.read \in Nat /\ scan.at \in Nat /\ scan.records \in Seq(Block)
      /\ (Counts(scan.file) => Amid(Scanned, scan.read, scan.at, scan.records))
  BY <1>1, ScanningFacts
<1>3. bad \in BOOLEAN
  BY DEF BadHeader
<1>4. Counts(scan.file) => scan.read <= BytesOf(Scanned)
  BY <1>2 DEF Amid
<1>5. Counts(scan.file) =>
        Exact([records |-> scan.records, total |-> scan.read, dirty |-> scan.read - scan.at,
               early |-> bad], Scanned)
  BY <1>2, <1>4, AmidEnds
<1>6. scan.file < Len(disk) => scan.read = disk[scan.file].size
  <2> SUFFICES ASSUME scan.file < Len(disk) PROVE scan.read = disk[scan.file].size
    OBVIOUS
  <2>1. scan.read <= BytesOf(Scanned)
    BY <1>4 DEF Counts
  <2>2. disk[scan.file].size = BytesOf(Scanned)
    BY <1>2 DEF Disked, Scanned
  <2> QED BY <1>1, <1>2, <2>1, <2>2
<1> HIDE DEF bad
<1> QED BY <1>1, <1>2, <1>3, <1>5, <1>6, FileScannedKeeps

-----------------------------------------------------------------------------
(* The states of a decoder.                                                *)
Decoders == [fed : Nat, at : Nat, records : Seq(Block), cleared : BOOLEAN]

(* What a segment is given up for: a damage, or a record too long.         *)
TooMuch(blocks, fed) ==
  \E i \in 1 .. Len(blocks) :
    /\ EndsOf(blocks)[i - 1] < fed
    /\ blocks[i].state # "Good" \/ blocks[i].len + ReadSize > ResidualCap

(* The decoder is where it should be, or was given a cause to give up.     *)
DecodeInv ==
  /\ decoder \in Decoders
  /\ Counts(1) => /\ decoder.fed <= BytesOf(Stream)
                  /\ decoder.cleared => TooMuch(Stream, decoder.fed)
                  /\ ~decoder.cleared => Amid(Stream, decoder.fed, decoder.at, decoder.records)

(* The invariant implies the property.                                     *)
LEMMA DecodeInvImplies ==
  ASSUME Scened, Disked, DecodeInv
  PROVE  DecoderFollowsScan
<1>1. Unaltered \/ Len(disk) > 1 => Counts(1)
  BY DiskFacts DEF Counts
<1> QED BY <1>1, IntactIs DEF DecoderFollowsScan, DecodeInv, TooMuch, Amid

(* A step of the writer leaves the decoder where it should be.             *)
LEMMA DecodeStays ==
  ASSUME Scened, Disked, Scened', Kept, DecodeInv, UNCHANGED decoder
  PROVE  DecodeInv'
<1>1. 1 \in 1 .. Len(disk)
  BY DiskFacts
<1>2. Counts(1)' => Counts(1)
  BY KeptFacts
<1>3. Counts(1)' => disk'[1].blocks = disk[1].blocks
  BY <1>1, KeptFacts
<1> QED BY <1>2, <1>3 DEF DecodeInv, Stream

(* A chunk: if what is left with it exceeds the limit, the block the       *)
(* decoder stands at was not whole before the chunk, so that it is damaged *)
(* or too long.                                                            *)
LEMMA FeedKeeps ==
  ASSUME Scened, Disked, DecodeInv, NEW n \in 1 .. ReadSize, Feed(n)
  PROVE  DecodeInv'
<1> DEFINE fed == decoder.fed + n
           decoded == DecodeStream(Stream, decoder.at, fed)
           at == decoded.at
           records == decoder.records \o decoded.records
<1>0. ReadSize \in Nat /\ ResidualCap \in Nat
  BY ReadersAssumption
<1>1. fed <= disk[1].size /\ scene' = scene /\ disk' = disk
  BY DEF Feed
<1>2. 1 \in 1 .. Len(disk)
  BY DiskFacts
<1>3. Stream \in Seq(Block) /\ disk[1].size \in Nat /\ disk[1].size <= BytesOf(Stream)
  BY <1>2, DiskFacts DEF Stream
<1>4. BytesOf(Stream) \in Nat
  <2>1. Len(Stream) \in 0 .. Len(Stream)
    BY <1>3, BlocksAre
  <2> QED BY <1>3, <2>1, EndsFacts DEF BytesOf
<1>5. decoder \in Decoders /\ decoder.fed \in Nat /\ decoder.at \in Nat
      /\ decoder.records \in Seq(Block)
  BY DEF DecodeInv, Decoders
<1>6. fed \in Nat /\ decoder.fed <= fed /\ fed <= BytesOf(Stream) /\ fed - decoder.fed <= ReadSize
      /\ decoder.fed < fed
  <2>1. n \in Nat /\ n >= 1 /\ n <= ReadSize
    BY <1>0
  <2>2. fed \in Nat /\ decoder.fed < fed /\ decoder.fed <= fed /\ fed - decoder.fed <= ReadSize
    BY <1>0, <1>5, <2>1
  <2> DEFINE size == disk[1].size
             bytes == BytesOf(Stream)
  <2>3. size \in Nat /\ bytes \in Nat /\ fed <= size /\ size <= bytes
    BY <1>1, <1>3, <1>4
  <2> HIDE DEF fed, size, bytes
  <2>4. fed <= bytes
    BY <2>2, <2>3
  <2> QED BY <2>2, <2>4 DEF bytes
<1>7. decoder' = IF fed - decoder.at > ResidualCap
                 THEN [decoder EXCEPT !.fed = fed, !.at = fed, !.cleared = TRUE]
                 ELSE [decoder EXCEPT !.fed = fed, !.at = at, !.records = records]
  BY <1>5 DEF Feed, Decoders
<1> HIDE DEF fed
<1>8. at \in Nat /\ records \in Seq(Block)
  <2>1. at \in Nat /\ decoded.records \in Seq(Block)
    BY <1>3, <1>5, <1>6, DecodesTyped
  <2> QED BY <1>5, <2>1
<1>9. Counts(1)' <=> Counts(1)
  BY <1>1 DEF Counts, Unaltered
<1>10. Stream' = Stream
  BY <1>1 DEF Stream
<1>11. ASSUME Counts(1), decoder.cleared PROVE TooMuch(Stream, fed)
  <2>1. PICK i \in 1 .. Len(Stream) :
          /\ EndsOf(Stream)[i - 1] < decoder.fed
          /\ Stream[i].state # "Good" \/ Stream[i].len + ReadSize > ResidualCap
    BY <1>11 DEF DecodeInv, TooMuch
  <2>2. Len(Stream) \in Nat
    BY <1>3, BlocksAre
  <2>3. i - 1 \in 0 .. Len(Stream)
    BY <2>2
  <2>4. EndsOf(Stream)[i - 1] \in Nat
    BY <1>3, <2>3, EndsFacts
  <2>5. EndsOf(Stream)[i - 1] < fed
    BY <1>5, <1>6, <2>1, <2>4
  <2> QED BY <2>1, <2>5 DEF TooMuch
<1>12. ASSUME Counts(1), ~decoder.cleared
       PROVE  Amid(Stream, decoder.fed, decoder.at, decoder.records)
  BY <1>12 DEF DecodeInv
<1>13. CASE fed - decoder.at > ResidualCap
  <2>1. decoder' = [decoder EXCEPT !.fed = fed, !.at = fed, !.cleared = TRUE]
    BY <1>7, <1>13
  <2>2. decoder' \in Decoders /\ decoder'.fed = fed /\ decoder'.cleared
    BY <1>5, <1>6, <2>1 DEF Decoders
  <2>3. ASSUME Counts(1), ~decoder.cleared PROVE TooMuch(Stream, fed)
    <3> DEFINE k == GoodTo(Stream, decoder.fed)
    <3>1. decoder.at = EndsOf(Stream)[k]
      BY <1>12, <2>3 DEF Amid
    <3>2. k \in 0 .. Len(Stream) /\ Len(Stream) \in Nat
      BY <1>3, <1>5, BlocksAre, GoodToIs
    <3>3. EndsOf(Stream)[k] <= decoder.fed
      BY <1>3, <1>5, GoodToIs
    <3>10. \A i \in 1 .. Len(Stream) :
             i <= k <=> /\ EndsOf(Stream)[i] <= decoder.fed
                        /\ \A x \in 1 .. i : Stream[x].state = "Good"
      BY <1>3, <1>5, GoodToIs
    <3> HIDE DEF k
    <3>4. k # Len(Stream)
      <4>1. k = Len(Stream) => BytesOf(Stream) = decoder.at
        BY <3>1 DEF BytesOf
      <4> QED BY <1>0, <1>4, <1>5, <1>6, <1>13, <4>1
    <3>5. PICK j \in 1 .. Len(Stream) : j = k + 1 /\ j - 1 = k /\ j \in Nat
      BY <3>2, <3>4
    <3>6. EndsOf(Stream)[j - 1] < fed
      BY <1>5, <1>6, <3>1, <3>3, <3>5
    <3>7. ASSUME Stream[j].state = "Good"
          PROVE  Stream[j].len + ReadSize > ResidualCap
      <4>1. EndsOf(Stream)[j] = EndsOf(Stream)[k] + Stream[j].len
        BY <1>3, <3>5, EndsFacts
      <4>2. \A i \in 1 .. j : Stream[i].state = "Good"
        <5> TAKE i \in 1 .. j
        <5>1. i = j \/ i \in 1 .. k
          BY <3>2, <3>5
        <5>2. ASSUME i \in 1 .. k PROVE Stream[i].state = "Good"
          <6>1. i \in 1 .. Len(Stream) /\ i <= k /\ i \in 1 .. i
            BY <3>2, <5>2
          <6> QED BY <3>10, <6>1
        <5> QED BY <3>7, <5>1, <5>2
      <4>3. ~(j <= k)
        BY <3>2, <3>5
      <4>4. ~(EndsOf(Stream)[j] <= decoder.fed)
        BY <3>10, <4>2, <4>3
      <4>5. Stream[j].len \in Nat
        BY <1>3, BlocksAre
      <4>6. EndsOf(Stream)[j] = decoder.at + Stream[j].len
        BY <3>1, <4>1
      <4>7. decoder.fed < decoder.at + Stream[j].len
        BY <1>5, <4>4, <4>5, <4>6
      <4> QED BY <1>0, <1>5, <1>6, <1>13, <4>5, <4>7
    <3> QED BY <3>6, <3>7 DEF TooMuch
  <2> QED BY <1>6, <1>9, <1>10, <1>11, <2>2, <2>3 DEF DecodeInv
<1>14. CASE ~(fed - decoder.at > ResidualCap)
  <2>1. decoder' = [decoder EXCEPT !.fed = fed, !.at = at, !.records = records]
    BY <1>7, <1>14
  <2>2. ASSUME Counts(1), ~decoder.cleared PROVE Amid(Stream, fed, at, records)
    BY <1>3, <1>5, <1>6, <1>12, <2>2, AmidGoes
  <2> HIDE DEF at, records
  <2>3. decoder' \in Decoders /\ decoder'.fed = fed /\ decoder'.at = at
        /\ decoder'.records = records /\ decoder'.cleared = decoder.cleared
    BY <1>5, <1>6, <1>8, <2>1 DEF Decoders
  <2> QED BY <1>6, <1>9, <1>10, <1>11, <2>2, <2>3 DEF DecodeInv
<1> QED BY <1>13, <1>14

-----------------------------------------------------------------------------
(* A packet of the export, with the row it is for.                         *)
Packet == [row : Row, record : Block]
(* The states of an export.                                                *)
Exports == [epoch : Nat, after : Int, rows : Seq(Row), failed : BOOLEAN,
            packets : Seq(Packet), filtered : Nat, unresolved : Nat]

(* What makes a row sound: a record of the first writing, below the        *)
(* watermark if it is in the last file.                                    *)
Truth(row) ==
  LET n == FileOf(row.idx)
      blocks == scene.files[n].blocks
  IN  /\ n \in 1 .. Len(scene.files) /\ scene.files[n].known
      /\ row.kind = "Passes"
      /\ n = Len(scene.files) => OffsetOf(row.idx) < scene.mark
      /\ \E i \in StartingAt(blocks, OffsetOf(row.idx)) :
           blocks[i].state = "Good" /\ blocks[i].ts = row.ts /\ blocks[i].kind = "Passes"

(* A packet's record passes the filter, and is its row's if the same is    *)
(* written again.                                                          *)
Proper(p) ==
  /\ p.record.state = "Good" /\ p.record.kind # "FlagsFail"
  /\ Unaltered => p.record.ts = p.row.ts /\ p.record.kind = "Passes"

(* Every row replayed is counted once, the sound ones have their packets,  *)
(* every packet is proper, and no row of the epochs left or of the keys    *)
(* passed is missing.                                                      *)
ExportInv ==
  /\ export \in Exports /\ export.epoch >= 1
  /\ Len(export.packets) + export.filtered + export.unresolved = Len(export.rows)
  /\ \A row \in ToSet(export.rows) :
       Truth(row) => \E p \in ToSet(export.packets) : p.row = row
  /\ \A p \in ToSet(export.packets) : Proper(p)
  /\ \A n \in 1 .. export.epoch - 1 : InWindow(n) \subseteq ToSet(export.rows)
  /\ export.epoch \in DOMAIN scene.epochs =>
       \A r \in InWindow(export.epoch) : KeyOf(r) <= export.after => r \in ToSet(export.rows)

(* The members of a list that grows.                                       *)
LEMMA ToSetAppend ==
  ASSUME NEW S, NEW s \in Seq(S), NEW e \in S
  PROVE  ToSet(Append(s, e)) = ToSet(s) \cup {e} /\ Len(Append(s, e)) = Len(s) + 1
         /\ Append(s, e) \in Seq(S)
<1> DEFINE t == Append(s, e)
<1>1. Len(s) \in Nat /\ t \in Seq(S) /\ Len(t) = Len(s) + 1 /\ t[Len(s) + 1] = e
      /\ \A i \in 1 .. Len(s) : t[i] = s[i]
  OBVIOUS
<1>2. DOMAIN s = 1 .. Len(s) /\ DOMAIN t = 1 .. Len(s) + 1
  BY <1>1
<1> HIDE DEF t
<1>3. ToSet(t) = ToSet(s) \cup {e}
  <2>1. \A x \in ToSet(t) : x \in ToSet(s) \cup {e}
    <3> SUFFICES ASSUME NEW i \in DOMAIN t PROVE t[i] \in ToSet(s) \cup {e}
      BY DEF ToSet
    <3>1. i = Len(s) + 1 \/ i \in 1 .. Len(s)
      BY <1>1, <1>2
    <3> QED BY <1>1, <1>2, <3>1 DEF ToSet
  <2>2. \A x \in ToSet(s) : x \in ToSet(t)
    <3> SUFFICES ASSUME NEW i \in DOMAIN s PROVE s[i] \in ToSet(t)
      BY DEF ToSet
    <3>1. t[i] = s[i] /\ i \in DOMAIN t
      BY <1>1, <1>2
    <3> QED BY <3>1 DEF ToSet
  <2>3. e \in ToSet(t)
    <3>1. Len(s) + 1 \in DOMAIN t
      BY <1>1, <1>2
    <3> QED BY <1>1, <3>1 DEF ToSet
  <2> QED BY <2>1, <2>2, <2>3
<1> QED BY <1>1, <1>3 DEF t

(* A key is a number.                                                      *)
LEMMA KeyIs ==
  ASSUME NEW row \in Row
  PROVE  KeyOf(row) \in Nat
<1>1. TimeRange \in Nat /\ IdxRange \in Nat
  <2>1. FileRange \in Nat /\ OffsetRange \in Nat /\ TimeRange \in Nat
    BY KeysAssumption
  <2> QED BY <2>1 DEF IdxRange
<1>2. row.ts \in Nat /\ row.idx \in Nat
  BY <1>1 DEF Row, Time, Idxs
<1>3. row.ts * IdxRange \in Nat
  BY <1>1, <1>2
<1> QED BY <1>2, <1>3 DEF KeyOf, TimeKey, Over

(* What load returns is a good record at the place in a known file.        *)
LEMMA LoadIs ==
  ASSUME Scened, Disked, NEW idx \in Idxs, NEW r \in Load(idx)
  PROVE  LET n == FileOf(idx)
             blocks == disk[n].blocks
         IN  /\ n \in 1 .. Len(disk) /\ scene.files[n].known
             /\ r.state = "Good" /\ r \in Block
             /\ \E i \in StartingAt(blocks, OffsetOf(idx)) :
                  r = blocks[i] /\ EndsOf(blocks)[i] <= disk[n].size
<1> DEFINE n == FileOf(idx)
           blocks == disk[n].blocks
<1>1. Known(idx)
  BY DEF Load
<1>2. DOMAIN disk = 1 .. Len(disk) /\ Len(disk) = Len(scene.files)
  BY DEF Disked
<1>3. n \in 1 .. Len(disk) /\ scene.files[n].known
  <2>1. n \in DOMAIN disk /\ disk[n].known
    BY <1>1 DEF Known
  <2> QED BY <1>2, <2>1 DEF Disked
<1>4. PICK i \in StartingAt(blocks, OffsetOf(idx)) :
        EndsOf(blocks)[i] <= disk[n].size /\ blocks[i].state = "Good" /\ r = blocks[i]
  BY <1>1 DEF Load
<1>5. r \in Block
  <2>1. blocks \in Seq(Block)
    BY <1>3, DiskFacts
  <2>2. i \in 1 .. Len(blocks)
    BY DEF StartingAt
  <2> QED BY <1>4, <2>1, <2>2
<1> QED BY <1>3, <1>4, <1>5

(* It returns at most one.                                                 *)
LEMMA LoadOne ==
  ASSUME Scened, Disked, NEW idx \in Idxs, NEW r \in Load(idx), NEW q \in Load(idx)
  PROVE  r = q
<1> DEFINE blocks == disk[FileOf(idx)].blocks
<1>1. blocks \in Seq(Block)
  BY LoadIs, DiskFacts
<1>2. PICK i \in StartingAt(blocks, OffsetOf(idx)) : r = blocks[i]
  BY LoadIs
<1>3. PICK j \in StartingAt(blocks, OffsetOf(idx)) : q = blocks[j]
  BY LoadIs
<1>4. i = j
  BY <1>1, StartsOne
<1> QED BY <1>2, <1>3, <1>4

(* A place in a file that is complete, or below the watermark, has the     *)
(* record first written there, and has it whole.                           *)
LEMMA PlaceIs ==
  ASSUME Scened, Disked, NEW n \in 1 .. Len(scene.files), NEW off \in Nat,
         n = Len(scene.files) => off < scene.mark
  PROVE  LET old == scene.files[n].blocks
             now == disk[n].blocks
         IN  /\ StartingAt(now, off) = StartingAt(old, off)
             /\ \A i \in StartingAt(old, off) :
                  now[i] = old[i] /\ EndsOf(now)[i] <= disk[n].size
<1> DEFINE old == scene.files[n].blocks
           now == disk[n].blocks
<1>1. Len(disk) = Len(scene.files) /\ Len(disk) \in Nat /\ disk[n].size \in Nat
  BY DiskFacts
<1>2. old \in Seq(Block) /\ now \in Seq(Block)
  BY <1>1, SceneFacts, DiskFacts
<1>3. Len(old) \in Nat /\ Len(now) \in Nat
  BY <1>2, BlocksAre
<1>4. CASE n < Len(scene.files)
  <2>1. now = old /\ disk[n].size = BytesOf(now)
    BY <1>1, <1>4 DEF Disked
  <2>2. ASSUME NEW i \in StartingAt(now, off) PROVE EndsOf(now)[i] <= disk[n].size
    <3>1. i \in 1 .. Len(now)
      BY DEF StartingAt
    <3>2. i \in 0 .. Len(now) /\ Len(now) \in 0 .. Len(now) /\ i <= Len(now)
      BY <1>3, <3>1
    <3>3. EndsOf(now)[i] <= EndsOf(now)[Len(now)]
      BY <1>2, <3>2, EndsOrder
    <3> QED BY <2>1, <3>3 DEF BytesOf
  <2> QED BY <2>1, <2>2
<1>5. CASE n = Len(scene.files)
  <2>1. PICK m \in 0 .. Len(old) :
          /\ scene.mark = EndsOf(old)[m]
          /\ m <= Len(now) /\ \A i \in 1 .. m : now[i] = old[i]
          /\ \A i \in 0 .. m : EndsOf(now)[i] = EndsOf(old)[i]
    BY <1>5, MarkIs
  <2>2. scene.mark <= disk[n].size /\ scene.mark \in Nat
    BY <1>5, SceneFacts DEF Disked
  <2> HIDE DEF old, now
  <2>3. m \in Nat /\ m \in 0 .. m /\ m \in 0 .. Len(now) /\ EndsOf(now)[m] = scene.mark
    BY <1>3, <2>1
  <2>4. ASSUME NEW i \in StartingAt(old, off) PROVE i \in 1 .. m /\ EndsOf(old)[i - 1] = off
    <3>1. i \in 1 .. Len(old) /\ EndsOf(old)[i - 1] = off
      BY DEF StartingAt
    <3>2. i - 1 \in 0 .. Len(old)
      BY <1>3, <3>1
    <3>3. i - 1 < m
      BY <1>2, <1>5, <2>1, <3>1, <3>2, EndsOrder
    <3> QED BY <2>3, <3>1, <3>3
  <2>5. ASSUME NEW i \in StartingAt(now, off) PROVE i \in 1 .. m /\ EndsOf(now)[i - 1] = off
    <3>1. i \in 1 .. Len(now) /\ EndsOf(now)[i - 1] = off
      BY DEF StartingAt
    <3>2. i - 1 \in 0 .. Len(now)
      BY <1>3, <3>1
    <3>3. i - 1 < m
      BY <1>2, <1>5, <2>3, <3>1, <3>2, EndsOrder
    <3> QED BY <2>3, <3>1, <3>3
  <2>6. \A i \in 1 .. m : /\ i \in 1 .. Len(old) /\ i \in 1 .. Len(now)
                          /\ EndsOf(now)[i - 1] = EndsOf(old)[i - 1]
    <3> TAKE i \in 1 .. m
    <3>1. i \in 1 .. Len(old) /\ i \in 1 .. Len(now) /\ i - 1 \in 0 .. m
      BY <1>3, <2>1, <2>3
    <3> QED BY <2>1, <3>1
  <2>7. StartingAt(now, off) = StartingAt(old, off)
    <3>1. \A i \in StartingAt(old, off) : i \in StartingAt(now, off)
      BY <2>4, <2>6 DEF StartingAt
    <3>2. \A i \in StartingAt(now, off) : i \in StartingAt(old, off)
      BY <2>5, <2>6 DEF StartingAt
    <3> QED BY <3>1, <3>2
  <2>8. ASSUME NEW i \in StartingAt(old, off)
        PROVE  now[i] = old[i] /\ EndsOf(now)[i] <= disk[n].size
    <3>1. i \in 1 .. m
      BY <2>4
    <3>2. i \in 0 .. Len(now) /\ i <= m
      BY <1>3, <2>3, <3>1
    <3>3. EndsOf(now)[i] <= EndsOf(now)[m]
      BY <1>2, <2>3, <3>2, EndsOrder
    <3>4. EndsOf(now)[i] \in Nat
      BY <1>2, <3>2, EndsFacts
    <3> QED BY <1>1, <2>1, <2>2, <2>3, <3>1, <3>3, <3>4
  <2> QED BY <2>7, <2>8 DEF old, now
<1>6. n < Len(scene.files) \/ n = Len(scene.files)
  BY <1>1
<1> QED BY <1>4, <1>5, <1>6

(* An offset is a number.                                                  *)
LEMMA IdxIs ==
  ASSUME NEW idx \in Idxs
  PROVE  OffsetOf(idx) \in Nat
<1>1. FileRange \in Nat /\ OffsetRange \in Nat /\ OffsetRange > 0
  BY KeysAssumption
<1>2. FileRange * OffsetRange \in Nat
  BY <1>1
<1>3. idx \in Nat
  BY <1>2 DEF Idxs, IdxRange
<1> QED BY <1>1, <1>3 DEF OffsetOf

(* So a row is sound now just when it was from the start: what an export   *)
(* found of it stays true.                                                 *)
LEMMA SoundIs ==
  ASSUME Scened, Disked, NEW row \in Row
  PROVE  Sound(row) <=> Truth(row)
<1> DEFINE n == FileOf(row.idx)
           off == OffsetOf(row.idx)
           old == scene.files[n].blocks
           now == disk[n].blocks
<1>1. row.idx \in Idxs /\ off \in Nat
  BY IdxIs DEF Row
<1>2. Len(disk) = Len(scene.files) /\ DOMAIN disk = 1 .. Len(disk)
  BY DEF Disked
<1>3. ASSUME Sound(row) PROVE Truth(row)
  <2>1. PICK r \in Load(row.idx) :
          /\ r.ts = row.ts /\ r.kind = "Passes"
          /\ row.kind = "Passes" /\ (n = Len(disk) => off < scene.mark)
    BY <1>3 DEF Sound
  <2>2. /\ n \in 1 .. Len(disk) /\ scene.files[n].known /\ r.state = "Good"
        /\ \E i \in StartingAt(now, off) : r = now[i]
    BY <1>1, LoadIs
  <2>3. PICK i \in StartingAt(now, off) : r = now[i]
    BY <2>2
  <2>4. i \in StartingAt(old, off) /\ now[i] = old[i]
    BY <1>1, <1>2, <2>1, <2>2, PlaceIs
  <2> QED BY <1>2, <2>1, <2>2, <2>3, <2>4 DEF Truth
<1>4. ASSUME Truth(row) PROVE Sound(row)
  <2>1. /\ n \in 1 .. Len(scene.files) /\ scene.files[n].known /\ row.kind = "Passes"
        /\ (n = Len(scene.files) => off < scene.mark)
        /\ \E i \in StartingAt(old, off) :
             old[i].state = "Good" /\ old[i].ts = row.ts /\ old[i].kind = "Passes"
    BY <1>4 DEF Truth
  <2>2. PICK i \in StartingAt(old, off) :
          old[i].state = "Good" /\ old[i].ts = row.ts /\ old[i].kind = "Passes"
    BY <2>1
  <2>3. i \in StartingAt(now, off) /\ now[i] = old[i] /\ EndsOf(now)[i] <= disk[n].size
    BY <1>1, <2>1, PlaceIs
  <2>4. Known(row.idx)
    <3>1. disk[n].known
      BY <2>1 DEF Disked
    <3> QED BY <1>2, <2>1, <3>1 DEF Known
  <2>5. now[i] \in Load(row.idx)
    BY <2>2, <2>3, <2>4 DEF Load
  <2> QED BY <1>2, <2>1, <2>2, <2>3, <2>5 DEF Sound
<1> QED BY <1>3, <1>4

(* The rows of an epoch in the window, of which no two have the same key.  *)
LEMMA RowsAre ==
  ASSUME Scened, NEW n \in DOMAIN scene.epochs
  PROVE  /\ n \in Nat /\ InWindow(n) \subseteq Row /\ InWindow(n) \subseteq scene.epochs[n]
         /\ \A r, q \in InWindow(n) : KeyOf(r) = KeyOf(q) => r = q
<1>1. scene.epochs \in Seq(SUBSET Row)
  BY SceneFacts
<1>2. n \in Nat /\ scene.epochs[n] \subseteq Row
  BY <1>1
<1>3. InWindow(n) \subseteq scene.epochs[n]
  BY DEF InWindow
<1>4. \A r, q \in scene.epochs[n] : KeyOf(q) = KeyOf(r) => q = r
  BY DEF Scened, Recorded
<1> QED BY <1>2, <1>3, <1>4

(* A step of the writer changes nothing of what the export found.          *)
LEMMA ExportStays ==
  ASSUME Scened, Disked, Scened', Kept, ExportInv, UNCHANGED export
  PROVE  ExportInv'
<1>1. scene'.crashes \in Nat
  BY DEF Scened, Scenario
<1>2. /\ (Unaltered' => Unaltered)
      /\ scene'.files = scene.files /\ scene'.mark = scene.mark /\ scene'.epochs = scene.epochs
      /\ scene'.from = scene.from /\ scene'.to = scene.to
  BY <1>1, SceneKept DEF Kept
<1>3. \A row : Truth(row)' <=> Truth(row)
  BY <1>2 DEF Truth
<1>4. \A p : Proper(p) => Proper(p)'
  BY <1>2 DEF Proper
<1>5. \A n : InWindow(n)' = InWindow(n)
  BY <1>2 DEF InWindow
<1> QED BY <1>2, <1>3, <1>4, <1>5 DEF ExportInv

(* An epoch is left when no row is ahead.                                  *)
LEMMA NextEpochKeeps ==
  ASSUME Scened, ExportInv, NextEpoch
  PROVE  ExportInv'
<1>1. /\ export.epoch \in DOMAIN scene.epochs /\ Ahead = {} /\ scene' = scene /\ disk' = disk
      /\ export' = [export EXCEPT !.epoch = export.epoch + 1, !.after = -1]
  BY DEF NextEpoch, Exporting, ExportInv, Exports
<1>2. export \in Exports /\ export.epoch \in Nat /\ export.epoch >= 1 /\ export.after \in Int
  BY DEF ExportInv, Exports
<1>3. /\ export' \in Exports /\ export'.epoch = export.epoch + 1 /\ export'.after = -1
      /\ export'.rows = export.rows /\ export'.packets = export.packets
      /\ export'.filtered = export.filtered /\ export'.unresolved = export.unresolved
  <2> DEFINE next == export.epoch + 1
             none == -1
  <2>1. next \in Nat /\ none \in Int
    BY <1>2
  <2>2. export' = [export EXCEPT !.epoch = next, !.after = none]
    BY <1>1
  <2> HIDE DEF next, none
  <2>3. export' = [epoch |-> next, after |-> none, rows |-> export.rows, failed |-> export.failed,
                   packets |-> export.packets, filtered |-> export.filtered,
                   unresolved |-> export.unresolved]
    BY <1>2, <2>2 DEF Exports
  <2>4. export' \in Exports
    BY <1>2, <2>1, <2>3 DEF Exports
  <2> QED BY <2>3, <2>4 DEF next, none
<1>4. InWindow(export.epoch) \subseteq ToSet(export.rows)
  <2> SUFFICES ASSUME NEW r \in InWindow(export.epoch) PROVE r \in ToSet(export.rows)
    OBVIOUS
  <2>1. r \in Row
    BY <1>1, RowsAre
  <2>2. KeyOf(r) \in Nat
    BY <2>1, KeyIs
  <2>3. ~(KeyOf(r) > export.after)
    BY <1>1 DEF Ahead
  <2>4. KeyOf(r) <= export.after
    BY <1>2, <2>2, <2>3
  <2> QED BY <1>1, <2>4 DEF ExportInv
<1>5. \A row : Truth(row)' <=> Truth(row)
  BY <1>1 DEF Truth
<1>6. \A p : Proper(p)' <=> Proper(p)
  BY <1>1 DEF Proper, Unaltered
<1>7. \A n : InWindow(n)' = InWindow(n)
  BY <1>1 DEF InWindow
<1>8. \A n \in 1 .. export'.epoch - 1 : InWindow(n) \subseteq ToSet(export.rows)
  <2> TAKE n \in 1 .. export'.epoch - 1
  <2>1. n = export.epoch \/ n \in 1 .. export.epoch - 1
    BY <1>2, <1>3
  <2> QED BY <1>4, <2>1 DEF ExportInv
<1>9. export'.epoch \in DOMAIN scene.epochs =>
        \A r \in InWindow(export'.epoch) : KeyOf(r) <= -1 => r \in ToSet(export.rows)
  <2> SUFFICES ASSUME export'.epoch \in DOMAIN scene.epochs,
                      NEW r \in InWindow(export'.epoch), KeyOf(r) <= -1
               PROVE  FALSE
    OBVIOUS
  <2>1. r \in Row
    BY RowsAre
  <2>2. KeyOf(r) \in Nat
    BY <2>1, KeyIs
  <2> QED BY <2>2
<1>10. export'.epoch >= 1
  BY <1>2, <1>3
<1>11. scene'.epochs = scene.epochs
  BY <1>1
<1>12. Len(export.packets) + export.filtered + export.unresolved = Len(export.rows)
       /\ (\A row \in ToSet(export.rows) :
             Truth(row) => \E p \in ToSet(export.packets) : p.row = row)
       /\ \A p \in ToSet(export.packets) : Proper(p)
  BY DEF ExportInv
<1>13. /\ \A n \in 1 .. export'.epoch - 1 : InWindow(n)' \subseteq ToSet(export'.rows)
       /\ export'.epoch \in DOMAIN scene'.epochs =>
             \A r \in InWindow(export'.epoch) : KeyOf(r) <= export'.after => r \in ToSet(export'.rows)
  BY <1>3, <1>7, <1>8, <1>9, <1>11
<1>14. /\ Len(export'.packets) + export'.filtered + export'.unresolved = Len(export'.rows)
       /\ \A row \in ToSet(export'.rows) :
             Truth(row)' => \E p \in ToSet(export'.packets) : p.row = row
       /\ \A p \in ToSet(export'.packets) : Proper(p)'
  BY <1>3, <1>5, <1>6, <1>12
<1> QED BY <1>1, <1>3, <1>7, <1>10, <1>13, <1>14 DEF ExportInv

(* The next row by key is replayed: whatever becomes of it, the invariant  *)
(* holds if its counters grow by one and it has its packet when it is      *)
(* sound.                                                                  *)
LEMMA PassKeeps ==
  ASSUME Scened, ExportInv, scene' = scene, disk' = disk, export.epoch \in DOMAIN scene.epochs,
         NEW row \in Ahead, \A other \in Ahead : KeyOf(row) <= KeyOf(other),
         export' \in Exports, export'.epoch = export.epoch, export'.after = KeyOf(row),
         export'.rows = Append(export.rows, row),
         Len(export'.packets) + export'.filtered + export'.unresolved
           = Len(export.packets) + export.filtered + export.unresolved + 1,
         ToSet(export.packets) \subseteq ToSet(export'.packets),
         Truth(row) => \E p \in ToSet(export'.packets) : p.row = row,
         \A p \in ToSet(export'.packets) : Proper(p)
  PROVE  ExportInv'
<1>1. export \in Exports /\ export.rows \in Seq(Row) /\ export.after \in Int
      /\ export.epoch \in Nat /\ export.epoch >= 1
  BY DEF ExportInv, Exports
<1>2. row \in InWindow(export.epoch) /\ row \in Row
  BY RowsAre DEF Ahead
<1>3. ToSet(export'.rows) = ToSet(export.rows) \cup {row} /\ Len(export'.rows) = Len(export.rows) + 1
  BY <1>1, <1>2, ToSetAppend
<1>4. \A r : Truth(r)' <=> Truth(r)
  BY DEF Truth
<1>5. \A p : Proper(p)' <=> Proper(p)
  BY DEF Proper, Unaltered
<1>6. \A n : InWindow(n)' = InWindow(n)
  BY DEF InWindow
<1>7. ASSUME NEW r \in InWindow(export.epoch), KeyOf(r) <= KeyOf(row)
      PROVE  r \in ToSet(export'.rows)
  <2>1. r \in Row /\ KeyOf(r) \in Nat /\ KeyOf(row) \in Nat
    BY <1>2, RowsAre, KeyIs
  <2>2. CASE KeyOf(r) <= export.after
    BY <1>3, <2>2 DEF ExportInv
  <2>3. CASE ~(KeyOf(r) <= export.after)
    <3>1. r \in Ahead
      BY <1>1, <2>1, <2>3 DEF Ahead
    <3>2. KeyOf(r) = KeyOf(row)
      BY <1>7, <2>1, <3>1
    <3>3. r = row
      BY <1>2, <3>2, RowsAre
    <3> QED BY <1>3, <3>3
  <2> QED BY <2>2, <2>3
<1>8. ASSUME NEW r \in ToSet(export'.rows), Truth(r)
      PROVE  \E p \in ToSet(export'.packets) : p.row = r
  <2>1. CASE r = row
    BY <1>8, <2>1
  <2>2. CASE r # row
    <3>1. r \in ToSet(export.rows)
      BY <1>3, <2>2
    <3> QED BY <1>8, <3>1 DEF ExportInv
  <2> QED BY <2>1, <2>2
<1>9. \A n \in 1 .. export.epoch - 1 : InWindow(n) \subseteq ToSet(export'.rows)
  BY <1>3 DEF ExportInv
<1>10. Len(export.packets) + export.filtered + export.unresolved = Len(export.rows)
  BY DEF ExportInv
<1> QED BY <1>1, <1>3, <1>4, <1>5, <1>6, <1>7, <1>8, <1>9, <1>10 DEF ExportInv

(* What becomes of a row: filtered by its summary, by its record's flags,  *)
(* unresolved, a packet, or the end of the export.                         *)
LEMMA RecordKeeps ==
  ASSUME Scened, Disked, ExportInv, NEW row, Record(row)
  PROVE  ExportInv'
<1> DEFINE key == KeyOf(row)
           rows == Append(export.rows, row)
           more == export.filtered + 1
           lost == export.unresolved + 1
<1>1. /\ export.epoch \in DOMAIN scene.epochs /\ scene' = scene /\ disk' = disk /\ row \in Ahead
      /\ \A other \in Ahead : KeyOf(row) <= KeyOf(other)
  BY DEF Record, Exporting
<1>2. /\ export \in Exports /\ export.rows \in Seq(Row) /\ export.packets \in Seq(Packet)
      /\ export.filtered \in Nat /\ export.unresolved \in Nat /\ export.epoch \in Nat
      /\ export.failed \in BOOLEAN
      /\ Len(export.packets) \in Nat
  BY DEF ExportInv, Exports
<1>3. row \in Row /\ row \in InWindow(export.epoch) /\ row \in scene.epochs[export.epoch]
  BY <1>1, RowsAre DEF Ahead
<1>4. key \in Nat /\ rows \in Seq(Row) /\ more \in Nat /\ lost \in Nat /\ row.idx \in Idxs
  BY <1>2, <1>3, KeyIs DEF Row
<1>5. Passed(row) = [export EXCEPT !.after = key, !.rows = rows]
  BY DEF Passed
<1> HIDE DEF key, rows, more, lost
<1>6. Passed(row) \in Exports /\ Passed(row).after = key /\ Passed(row).rows = rows
      /\ Passed(row).epoch = export.epoch /\ Passed(row).packets = export.packets
      /\ Passed(row).filtered = export.filtered /\ Passed(row).unresolved = export.unresolved
      /\ Passed(row).failed = export.failed
  <2>1. Passed(row) = [epoch |-> export.epoch, after |-> key, rows |-> rows,
                       failed |-> export.failed, packets |-> export.packets,
                       filtered |-> export.filtered, unresolved |-> export.unresolved]
    BY <1>2, <1>5 DEF Exports
  <2>2. key \in Int
    BY <1>4
  <2>3. Passed(row) \in Exports
    BY <1>2, <1>4, <2>1, <2>2 DEF Exports
  <2> QED BY <2>1, <2>3
<1>7. \A p \in ToSet(export.packets) : Proper(p)
  BY DEF ExportInv
<1>8. Truth(row) => \E r \in Load(row.idx) : r.kind = "Passes" /\ row.kind = "Passes"
  <2>1. Truth(row) => Sound(row)
    BY <1>3, SoundIs
  <2> QED BY <2>1 DEF Sound
<1>9. ASSUME export' = [Passed(row) EXCEPT !.filtered = more], ~Truth(row)
      PROVE  ExportInv'
  <2>1. /\ export' \in Exports /\ export'.after = key /\ export'.rows = rows
        /\ export'.epoch = export.epoch /\ export'.packets = export.packets
        /\ export'.filtered = more /\ export'.unresolved = export.unresolved
    BY <1>4, <1>6, <1>9 DEF Exports
  <2>2. Len(export'.packets) + export'.filtered + export'.unresolved
          = Len(export.packets) + export.filtered + export.unresolved + 1
    <3>1. Len(export'.packets) = Len(export.packets)
      BY <2>1
    <3>2. more = export.filtered + 1
      BY DEF more
    <3> DEFINE l == Len(export.packets)
               f == export.filtered
               u == export.unresolved
    <3>3. l \in Nat /\ f \in Nat /\ u \in Nat
      BY <1>2
    <3> HIDE DEF l, f, u
    <3>4. l + (f + 1) + u = l + f + u + 1
      BY <3>3
    <3> QED BY <2>1, <3>1, <3>2, <3>4 DEF l, f, u
  <2> QED BY <1>1, <1>7, <1>9, <2>1, <2>2, PassKeeps DEF key, rows
<1>10. ASSUME export' = [Passed(row) EXCEPT !.unresolved = lost], ~Truth(row)
       PROVE  ExportInv'
  <2>1. /\ export' \in Exports /\ export'.after = key /\ export'.rows = rows
        /\ export'.epoch = export.epoch /\ export'.packets = export.packets
        /\ export'.filtered = export.filtered /\ export'.unresolved = lost
    BY <1>4, <1>6, <1>10 DEF Exports
  <2>2. Len(export'.packets) + export'.filtered + export'.unresolved
          = Len(export.packets) + export.filtered + export.unresolved + 1
    <3>1. Len(export'.packets) = Len(export.packets)
      BY <2>1
    <3>2. lost = export.unresolved + 1
      BY DEF lost
    <3> DEFINE l == Len(export.packets)
               f == export.filtered
               u == export.unresolved
    <3>3. l \in Nat /\ f \in Nat /\ u \in Nat
      BY <1>2
    <3> HIDE DEF l, f, u
    <3>4. l + f + (u + 1) = l + f + u + 1
      BY <3>3
    <3> QED BY <2>1, <3>1, <3>2, <3>4 DEF l, f, u
  <2> QED BY <1>1, <1>7, <1>10, <2>1, <2>2, PassKeeps DEF key, rows
<1>11. ASSUME NEW r \in Load(row.idx), row.kind # "SummaryFails", r.kind # "FlagsFail",
              export' = [Passed(row) EXCEPT
                           !.packets = Append(export.packets, [row |-> row, record |-> r])]
       PROVE  ExportInv'
  <2> DEFINE p == [row |-> row, record |-> r]
             packets == Append(export.packets, p)
             n == FileOf(row.idx)
  <2>1. /\ n \in 1 .. Len(disk) /\ r.state = "Good" /\ r \in Block
        /\ \E i \in StartingAt(disk[n].blocks, OffsetOf(row.idx)) : r = disk[n].blocks[i]
    BY <1>4, LoadIs
  <2>2. p \in Packet /\ p.row = row /\ p.record = r
    BY <1>3, <2>1 DEF Packet
  <2> HIDE DEF p
  <2>3. packets \in Seq(Packet) /\ Len(packets) = Len(export.packets) + 1
        /\ ToSet(packets) = ToSet(export.packets) \cup {p}
    BY <1>2, <2>2, ToSetAppend
  <2>4. export' = [Passed(row) EXCEPT !.packets = packets]
    BY <1>11 DEF p
  <2> HIDE DEF packets
  <2>5. /\ export' \in Exports /\ export'.after = key /\ export'.rows = rows
        /\ export'.epoch = export.epoch /\ export'.packets = packets
        /\ export'.filtered = export.filtered /\ export'.unresolved = export.unresolved
    BY <1>6, <2>3, <2>4 DEF Exports
  <2>6. Len(export'.packets) + export'.filtered + export'.unresolved
          = Len(export.packets) + export.filtered + export.unresolved + 1
    <3>1. Len(export'.packets) = Len(export.packets) + 1
      BY <2>3, <2>5
    <3> DEFINE l == Len(export.packets)
               f == export.filtered
               u == export.unresolved
    <3>2. l \in Nat /\ f \in Nat /\ u \in Nat
      BY <1>2
    <3> HIDE DEF l, f, u
    <3>3. (l + 1) + f + u = l + f + u + 1
      BY <3>2
    <3> QED BY <2>5, <3>1, <3>3 DEF l, f, u
  <2>7. ASSUME Unaltered PROVE r.ts = row.ts /\ r.kind = "Passes"
    <3>1. disk[n].blocks = scene.files[n].blocks /\ n \in DOMAIN scene.files
      <4>1. Len(disk) = Len(scene.files) /\ Len(disk) \in Nat
        BY DiskFacts
      <4>2. n = Len(disk) \/ n < Len(disk)
        BY <2>1, <4>1
      <4>3. n = Len(disk) => disk[n].blocks = scene.files[n].blocks
        BY <2>7, DiskFacts
      <4>4. n < Len(disk) => disk[n].blocks = scene.files[n].blocks
        BY <2>1, <4>1 DEF Disked
      <4>5. DOMAIN scene.files = 1 .. Len(scene.files)
        BY DEF Scened, Scenario
      <4> QED BY <2>1, <4>1, <4>2, <4>3, <4>4, <4>5
    <3> DEFINE blocks == scene.files[n].blocks
    <3>2. PICK i \in StartingAt(blocks, OffsetOf(row.idx)) : r = blocks[i]
      BY <2>1, <3>1
    <3>3. \A x \in scene.epochs[export.epoch] :
            FileOf(x.idx) \in DOMAIN scene.files =>
              \A y \in StartingAt(scene.files[FileOf(x.idx)].blocks, OffsetOf(x.idx)) :
                /\ scene.files[FileOf(x.idx)].blocks[y].ts = x.ts
                /\ x.kind # "NoSummary" =>
                     (scene.files[FileOf(x.idx)].blocks[y].kind = "SummaryFails"
                        <=> x.kind = "SummaryFails")
      BY <1>1 DEF Scened, Recorded
    <3>4. blocks[i].ts = row.ts /\ (blocks[i].kind = "SummaryFails" <=> row.kind = "SummaryFails")
      BY <1>3, <3>1, <3>3 DEF InWindow
    <3>5. r.kind \in {"SummaryFails", "FlagsFail", "Passes"}
      BY <2>1 DEF Block, Kind
    <3> QED BY <1>11, <3>2, <3>4, <3>5
  <2>8. Proper(p)
    BY <1>11, <2>1, <2>2, <2>7 DEF Proper
  <2>9. \A x \in ToSet(export'.packets) : Proper(x)
    BY <1>7, <2>3, <2>5, <2>8
  <2>10. \E x \in ToSet(export'.packets) : x.row = row
    BY <2>2, <2>3, <2>5
  <2> QED BY <1>1, <2>3, <2>5, <2>6, <2>9, <2>10, PassKeeps DEF key, rows
<1>12. ASSUME export' = [export EXCEPT !.failed = TRUE]
       PROVE  ExportInv'
  <2>1. /\ export' \in Exports /\ export'.after = export.after /\ export'.rows = export.rows
        /\ export'.epoch = export.epoch /\ export'.packets = export.packets
        /\ export'.filtered = export.filtered /\ export'.unresolved = export.unresolved
    BY <1>2, <1>12 DEF Exports
  <2>2. \A r : Truth(r)' <=> Truth(r)
    BY <1>1 DEF Truth
  <2>3. \A p : Proper(p)' <=> Proper(p)
    BY <1>1 DEF Proper, Unaltered
  <2>4. \A i : InWindow(i)' = InWindow(i)
    BY <1>1 DEF InWindow
  <2> QED BY <1>1, <2>1, <2>2, <2>3, <2>4 DEF ExportInv
<1>13. \/ row.kind = "SummaryFails" /\ export' = [Passed(row) EXCEPT !.filtered = more]
       \/ export' = [export EXCEPT !.failed = TRUE]
       \/ Load(row.idx) = {} /\ export' = [Passed(row) EXCEPT !.unresolved = lost]
       \/ row.kind # "SummaryFails" /\ \E r \in Load(row.idx) :
            export' = IF r.kind = "FlagsFail"
                      THEN [Passed(row) EXCEPT !.filtered = more]
                      ELSE [Passed(row) EXCEPT
                              !.packets = Append(export.packets, [row |-> row, record |-> r])]
  BY <1>6 DEF Record, more, lost, Exports
<1>14. CASE row.kind = "SummaryFails" /\ export' = [Passed(row) EXCEPT !.filtered = more]
  <2>1. ~Truth(row)
    BY <1>14 DEF Truth
  <2> QED BY <1>9, <1>14, <2>1
<1>15. CASE Load(row.idx) = {} /\ export' = [Passed(row) EXCEPT !.unresolved = lost]
  BY <1>8, <1>10, <1>15
<1>16. ASSUME row.kind # "SummaryFails", NEW r \in Load(row.idx),
              export' = IF r.kind = "FlagsFail"
                        THEN [Passed(row) EXCEPT !.filtered = more]
                        ELSE [Passed(row) EXCEPT
                                !.packets = Append(export.packets, [row |-> row, record |-> r])]
       PROVE  ExportInv'
  <2>1. CASE r.kind = "FlagsFail"
    <3>1. ~Truth(row)
      <4> SUFFICES ASSUME Truth(row) PROVE FALSE
        OBVIOUS
      <4>1. PICK q \in Load(row.idx) : q.kind = "Passes"
        BY <1>8
      <4>2. q = r
        BY <1>4, LoadOne
      <4> QED BY <2>1, <4>1, <4>2
    <3> QED BY <1>9, <1>16, <2>1, <3>1
  <2>2. CASE r.kind # "FlagsFail"
    BY <1>11, <1>16, <2>2
  <2> QED BY <2>1, <2>2
<1> QED BY <1>12, <1>13, <1>14, <1>15, <1>16

-----------------------------------------------------------------------------
(* The invariant of the three readers.                                     *)
ReadersInv == Scened /\ Disked /\ ScanInv /\ DecodeInv /\ ExportInv

(* It holds at first.                                                      *)
LEMMA InitIsReadersInv == Init => ReadersInv
<1> SUFFICES ASSUME Init PROVE ReadersInv
  OBVIOUS
<1>1. Scened /\ Disked
  BY InitDisk
<1>2. Len(disk) \in Nat /\ Len(disk) >= 1 /\ \A i \in 1 .. Len(disk) : disk[i].blocks \in Seq(Block)
  BY <1>1, DiskFacts
<1>3. 1 \in 1 .. Len(disk)
  BY <1>2
<1>4. Amid(disk[1].blocks, 0, 0, <<>>)
  BY <1>2, <1>3, AmidStarts
<1>5. ScanInv
  <2>1. scan = [file |-> 1, read |-> 0, at |-> 0, records |-> <<>>, results |-> <<>>]
    BY DEF Init, NewScan
  <2>2. <<>> \in Seq(Block) /\ <<>> \in Seq(Result) /\ Len(<<>>) = 0
    OBVIOUS
  <2>3. scan \in Scans /\ scan.file = 1 /\ scan.read = 0 /\ scan.at = 0 /\ scan.records = <<>>
        /\ scan.results = <<>>
    BY <2>1, <2>2 DEF Scans
  <2>4. scan.file = Len(scan.results) + 1 /\ scan.file <= Len(disk) + 1
        /\ 1 .. Len(scan.results) = {}
    BY <1>2, <2>2, <2>3
  <2> QED BY <1>4, <2>3, <2>4 DEF ScanInv, Scanned
<1>6. DecodeInv
  <2>1. decoder = [fed |-> 0, at |-> 0, records |-> <<>>, cleared |-> FALSE]
    BY DEF Init
  <2>2. <<>> \in Seq(Block)
    OBVIOUS
  <2>3. decoder \in Decoders /\ decoder.fed = 0 /\ decoder.at = 0 /\ decoder.records = <<>>
        /\ ~decoder.cleared
    BY <2>1, <2>2 DEF Decoders
  <2>4. 0 <= BytesOf(Stream)
    BY <1>4 DEF Amid, Stream
  <2> QED BY <1>4, <2>3, <2>4 DEF DecodeInv, Stream
<1>7. ExportInv
  <2>1. export = [epoch |-> 1, after |-> -1, rows |-> <<>>, failed |-> FALSE,
                  packets |-> <<>>, filtered |-> 0, unresolved |-> 0]
    BY DEF Init
  <2>2. <<>> \in Seq(Row) /\ <<>> \in Seq(Packet) /\ Len(<<>>) = 0 /\ ToSet(<<>>) = {}
    BY DEF ToSet
  <2>3. /\ export \in Exports /\ export.epoch = 1 /\ export.after = -1 /\ export.rows = <<>>
        /\ export.packets = <<>> /\ export.filtered = 0 /\ export.unresolved = 0
    BY <2>1, <2>2 DEF Exports
  <2>4. ASSUME 1 \in DOMAIN scene.epochs, NEW r \in InWindow(1) PROVE ~(KeyOf(r) <= -1)
    <3>1. r \in Row
      BY <1>1, <2>4, RowsAre
    <3>2. KeyOf(r) \in Nat
      BY <3>1, KeyIs
    <3> QED BY <3>2
  <2>5. 1 .. export.epoch - 1 = {} /\ export.epoch >= 1
    BY <2>3
  <2>6. Len(export.packets) + export.filtered + export.unresolved = Len(export.rows)
    BY <2>2, <2>3
  <2>7. ToSet(export.rows) = {} /\ ToSet(export.packets) = {}
    BY <2>2, <2>3
  <2> QED BY <2>3, <2>4, <2>5, <2>6, <2>7 DEF ExportInv
<1> QED BY <1>1, <1>5, <1>6, <1>7 DEF ReadersInv

(* A step of a reader leaves the files.                                    *)
LEMMA UnchangedKept ==
  ASSUME Scened, Disked, UNCHANGED <<scene, disk>>
  PROVE  Scened' /\ Disked' /\ Kept
<1>1. scene' = scene /\ disk' = disk
  OBVIOUS
<1>2. Scened'
  BY <1>1 DEF Scened
<1>3. Disked'
  BY <1>1 DEF Disked
<1>4. scene' = [scene EXCEPT !.crashes = scene'.crashes]
  BY <1>1 DEF Scened, Scenario
<1>5. Unaltered' => Unaltered
  BY <1>1 DEF Unaltered
<1> QED BY <1>1, <1>2, <1>3, <1>4, <1>5 DEF Kept

(* Every step keeps it.                                                    *)
LEMMA ReadersKeeps == ReadersInv /\ [Next]_vars => ReadersInv'
<1> SUFFICES ASSUME ReadersInv, [Next]_vars PROVE ReadersInv'
  OBVIOUS
<1>0. Scened /\ Disked /\ ScanInv /\ DecodeInv /\ ExportInv
  BY DEF ReadersInv
<1>1. ASSUME NEW n \in 1 .. ReadSize, Write(n) PROVE ReadersInv'
  <2>1. Scened' /\ Disked' /\ Kept
    BY <1>0, <1>1, WriteDisk
  <2>2. UNCHANGED <<scan, decoder, export>>
    BY <1>1 DEF Write
  <2> QED BY <1>0, <2>1, <2>2, ScanStays, DecodeStays, ExportStays DEF ReadersInv
<1>2. ASSUME WriterRestarts PROVE ReadersInv'
  <2>1. Scened' /\ Disked' /\ Kept
    BY <1>0, <1>2, RestartDisk
  <2>2. UNCHANGED <<scan, decoder, export>>
    BY <1>2 DEF WriterRestarts
  <2> QED BY <1>0, <2>1, <2>2, ScanStays, DecodeStays, ExportStays DEF ReadersInv
<1>3. ASSUME NEW n \in 1 .. ReadSize, ScanRead(n) PROVE ReadersInv'
  <2>1. UNCHANGED <<scene, disk, decoder, export>>
    BY <1>3 DEF ScanRead
  <2>2. Scened' /\ Disked' /\ Kept
    BY <1>0, <2>1, UnchangedKept
  <2>3. ScanInv'
    BY <1>0, <1>3, ScanReadKeeps
  <2> QED BY <1>0, <2>1, <2>2, <2>3, DecodeStays, ExportStays DEF ReadersInv
<1>4. ASSUME ScanEof PROVE ReadersInv'
  <2>1. UNCHANGED <<scene, disk, decoder, export>>
    BY <1>4 DEF ScanEof
  <2>2. Scened' /\ Disked' /\ Kept
    BY <1>0, <2>1, UnchangedKept
  <2>3. ScanInv'
    BY <1>0, <1>4, ScanEofKeeps
  <2> QED BY <1>0, <2>1, <2>2, <2>3, DecodeStays, ExportStays DEF ReadersInv
<1>5. ASSUME NEW n \in 1 .. ReadSize, Feed(n) PROVE ReadersInv'
  <2>1. UNCHANGED <<scene, disk, scan, export>>
    BY <1>5 DEF Feed
  <2>2. Scened' /\ Disked' /\ Kept
    BY <1>0, <2>1, UnchangedKept
  <2>3. DecodeInv'
    BY <1>0, <1>5, FeedKeeps
  <2> QED BY <1>0, <2>1, <2>2, <2>3, ScanStays, ExportStays DEF ReadersInv
<1>6. ASSUME NextEpoch PROVE ReadersInv'
  <2>1. UNCHANGED <<scene, disk, scan, decoder>>
    BY <1>6 DEF NextEpoch
  <2>2. Scened' /\ Disked' /\ Kept
    BY <1>0, <2>1, UnchangedKept
  <2>3. ExportInv'
    BY <1>0, <1>6, NextEpochKeeps
  <2> QED BY <1>0, <2>1, <2>2, <2>3, ScanStays, DecodeStays DEF ReadersInv
<1>7. ASSUME NEW row, Record(row) PROVE ReadersInv'
  <2>1. UNCHANGED <<scene, disk, scan, decoder>>
    BY <1>7 DEF Record
  <2>2. Scened' /\ Disked' /\ Kept
    BY <1>0, <2>1, UnchangedKept
  <2>3. ExportInv'
    BY <1>0, <1>7, RecordKeeps
  <2> QED BY <1>0, <2>1, <2>2, <2>3, ScanStays, DecodeStays DEF ReadersInv
<1>8. CASE UNCHANGED vars
  <2>1. UNCHANGED <<scene, disk, scan, decoder, export>>
    BY <1>8 DEF vars
  <2>2. Scened' /\ Disked' /\ Kept
    BY <1>0, <2>1, UnchangedKept
  <2> QED BY <1>0, <2>1, <2>2, ScanStays, DecodeStays, ExportStays DEF ReadersInv
<1> QED BY <1>1, <1>2, <1>3, <1>4, <1>5, <1>6, <1>7, <1>8 DEF Next

(* It always holds.                                                        *)
LEMMA ReadersAlways == Spec => []ReadersInv
<1>1. Init => ReadersInv
  BY InitIsReadersInv
<1>2. ReadersInv /\ [Next]_vars => ReadersInv'
  BY ReadersKeeps
<1> QED BY <1>1, <1>2, PTL DEF Spec

(* However the reads are cut and whatever is written meanwhile,            *)
(* scan_reader finds the records before the first damage and none behind   *)
(* it, accounts for every byte it read, and stops early just when a whole  *)
(* damaged header is in what is left (walscan.rs, offline.rs). For all     *)
(* files, sizes of reads and headers.                                      *)
THEOREM ScanTheorem == Spec => []ScanIsExact
<1>1. ReadersInv => ScanIsExact
  BY ScanInvImplies DEF ReadersInv
<1> QED BY <1>1, ReadersAlways, PTL

(* However a segment is cut into chunks, WalStreamDecoder::feed returns    *)
(* what a scan of the same bytes would, unless it gives the segment up;    *)
(* and that it does only for a damage or for a record that with a chunk    *)
(* exceeds WAL_RESIDUAL_CAP.                                               *)
THEOREM DecoderScanTheorem == Spec => []DecoderFollowsScan
<1>1. ReadersInv => DecoderFollowsScan
  BY DecodeInvImplies DEF ReadersInv
<1> QED BY <1>1, ReadersAlways, PTL

(* The invariant implies the property.                                     *)
LEMMA ExportInvImplies ==
  ASSUME Scened, Disked, ExportInv
  PROVE  ExportIsFaithful
<1>1. export.rows \in Seq(Row)
  BY DEF ExportInv, Exports
<1>2. ASSUME NEW row \in ToSet(export.rows), Sound(row)
      PROVE  \E p \in ToSet(export.packets) : p.row = row
  <2>1. row \in Row
    <3>1. PICK i \in DOMAIN export.rows : row = export.rows[i]
      BY DEF ToSet
    <3> QED BY <1>1, <3>1
  <2>2. Truth(row)
    BY <1>2, <2>1, SoundIs
  <2> QED BY <2>2 DEF ExportInv
<1> QED BY <1>2 DEF ExportIsFaithful, ExportInv, Proper

(* An export beside a writer that dies and writes on misses no row of the  *)
(* epochs it has left whose summary can be decoded, counts each of them    *)
(* once, has a packet for every row whose record is sound and passes, and  *)
(* has none of a damaged record, nor of another record than the row's if   *)
(* the same is written again (PcapSink::record, WalResolver::load).        *)
THEOREM ExportTheorem == Spec => []ExportIsFaithful
<1>1. ReadersInv => ExportIsFaithful
  BY ExportInvImplies DEF ReadersInv
<1> QED BY <1>1, ReadersAlways, PTL
=============================================================================
