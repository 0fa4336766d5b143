--------------------------- MODULE StreamProofs ----------------------------
(* Theorems about StreamTracking, for every even range of raw numbers, all *)
(* initial numbers, windows and lengths, however often the numbers wrap.   *)
EXTENDS StreamTracking, TLAPS

Half == SeqSpace \div 2

(* The range of raw numbers has two halves.                                *)
LEMMA HalfIs == SeqSpace \in Nat /\ SeqSpace > 1 /\ Half \in Nat /\ SeqSpace = 2 * Half
BY SeqSpaceAssumption DEF Half

(* Quotient and remainder are unique.                                      *)
LEMMA RemainderIs ==
  ASSUME NEW s \in Nat, s > 0, NEW q \in Int, NEW r \in 0 .. s - 1
  PROVE  (q * s + r) % s = r
<1> DEFINE k == q * s + r
           p == k \div s
           m == k % s
<1>1. k \in Int
  OBVIOUS
<1>2. p \in Int /\ m \in 0 .. s - 1 /\ k = p * s + m
  <2> HIDE DEF k
  <2> QED
    BY <1>1
<1>3. (q - p) * s = m - r
  <2> HIDE DEF p, m
  <2>1. q * s + r = p * s + m /\ p * s \in Int /\ q * s \in Int
    BY <1>2
  <2>2. (q - p) * s = q * s - p * s
    BY <1>2
  <2> QED
    BY <1>2, <2>1, <2>2
<1>4. q - p = 0
  <2> DEFINE d == q - p
  <2>1. d \in Int /\ d * s = m - r
    BY <1>2, <1>3
  <2> HIDE DEF d, p, m
  <2>2. CASE d >= 1
    <3>1. d * s >= s
      BY <2>1, <2>2
    <3> QED
      BY <1>2, <2>1, <3>1
  <2>3. CASE d <= -1
    <3>1. d * s <= -s
      BY <2>1, <2>3
    <3> QED
      BY <1>2, <2>1, <3>1
  <2> QED
    BY <2>1, <2>2, <2>3 DEF d
<1>5. m = r
  <2> HIDE DEF p, m
  <2> QED
    BY <1>2, <1>3, <1>4
<1> QED
  BY <1>5

(* A difference of raw numbers, and a number of bytes, are those of the    *)
(* numbers they stand for.                                                 *)
LEMMA RemaindersDiffer ==
  ASSUME NEW n \in Nat, NEW a \in Nat, NEW k \in Int, NEW d \in 0 .. SeqSpace - 1,
         n + k - a = d \/ n + k - a = d - SeqSpace
  PROVE  ((n % SeqSpace) + k - (a % SeqSpace)) % SeqSpace = d
<1> DEFINE s == SeqSpace
           i == n \div s
           j == a \div s
<1>1. s \in Nat /\ s > 0
  BY HalfIs
<1>2. /\ i \in Int /\ (n % s) \in Int /\ n = i * s + (n % s)
      /\ j \in Int /\ (a % s) \in Int /\ a = j * s + (a % s)
  BY <1>1
<1> HIDE DEF i, j
<1>3. (n % s) + k - (a % s) = n + k - a + (j - i) * s
  <2>1. (j - i) * s = j * s - i * s /\ j * s \in Int /\ i * s \in Int
    BY <1>1, <1>2
  <2> QED
    BY <1>2, <2>1
<1>4. PICK q \in Int : (n % s) + k - (a % s) = q * s + d
  <2>1. CASE n + k - a = d
    <3>1. (n % s) + k - (a % s) = (j - i) * s + d /\ j - i \in Int
      BY <1>1, <1>2, <1>3, <2>1
    <3> QED
      BY <3>1
  <2>2. CASE n + k - a = d - s
    <3>1. (j - i - 1) * s = (j - i) * s - s /\ j - i - 1 \in Int /\ (j - i) * s \in Int
      BY <1>1, <1>2
    <3>2. (n % s) + k - (a % s) = (j - i - 1) * s + d
      BY <1>1, <1>3, <2>2, <3>1
    <3> QED
      BY <3>1, <3>2
  <2> QED
    BY <2>1, <2>2
<1>5. (q * s + d) % s = d
  BY <1>1, RemainderIs
<1> QED
  BY <1>4, <1>5

(* The stream is at abs.                                                   *)
Heads(s, abs) == s.active /\ s.abs = abs /\ s.raw = (abs % SeqSpace)

(* A number less than half a range from the head is told from its raw one. *)
LEMMA DiffIs ==
  ASSUME NEW s, NEW abs \in Nat, Heads(s, abs), NEW n \in Nat, n - abs < Half, abs - n <= Half
  PROVE  Diff(s, n % SeqSpace) = n - abs
<1>1. SeqSpace \in Nat /\ Half \in Nat /\ SeqSpace = 2 * Half /\ SeqSpace > 1
  BY HalfIs
<1>2. PICK d \in 0 .. SeqSpace - 1 : n - abs = d \/ n - abs = d - SeqSpace
  <2>1. CASE n >= abs
    BY <1>1, <2>1
  <2>2. CASE n < abs
    <3>1. n - abs + SeqSpace \in 0 .. SeqSpace - 1
      BY <1>1, <2>2
    <3> QED
      BY <1>1, <3>1
  <2> QED
    BY <2>1, <2>2
<1>3. ((n % SeqSpace) + 0 - (abs % SeqSpace)) % SeqSpace = d
  <2>1. n + 0 - abs = d \/ n + 0 - abs = d - SeqSpace
    BY <1>2
  <2> QED
    BY <2>1, RemaindersDiffer
<1>4. ((n % SeqSpace) - s.raw) % SeqSpace = d
  <2>1. (n % SeqSpace) \in Int /\ (abs % SeqSpace) \in Int
    BY <1>1
  <2> QED
    BY <1>3, <2>1 DEF Heads
<1>5. Signed(d) = n - abs
  BY <1>1, <1>2 DEF Signed, Half
<1> QED
  BY <1>4, <1>5 DEF Diff

(* The bytes of a packet ahead of the head.                                *)
LEMMA AheadIs ==
  ASSUME NEW s, NEW abs \in Nat, Heads(s, abs), NEW n \in Nat, NEW len \in Nat,
         n + len - abs < Half, abs - (n + len) <= Half
  PROVE  Ahead(s, n % SeqSpace, len) = IF n + len < abs THEN 0 ELSE n + len - abs
<1>1. SeqSpace \in Nat /\ Half \in Nat /\ SeqSpace = 2 * Half /\ SeqSpace > 1
  BY HalfIs
<1>2. PICK d \in 0 .. SeqSpace - 1 : n + len - abs = d \/ n + len - abs = d - SeqSpace
  <2>1. CASE n + len >= abs
    BY <1>1, <2>1
  <2>2. CASE n + len < abs
    <3>1. n + len - abs + SeqSpace \in 0 .. SeqSpace - 1
      BY <1>1, <2>2
    <3> QED
      BY <1>1, <3>1
  <2> QED
    BY <2>1, <2>2
<1>3. ((n % SeqSpace) + len - s.raw) % SeqSpace = d
  BY <1>2, RemaindersDiffer DEF Heads
<1>4. n + len < abs <=> Signed(d) < 0
  BY <1>1, <1>2 DEF Signed, Half
<1>5. n + len >= abs => d = n + len - abs
  BY <1>1, <1>2
<1> QED
  BY <1>3, <1>4, <1>5 DEF Ahead

-----------------------------------------------------------------------------
(* A packet's bytes lie less than half a range from the head.              *)
Near(abs, from, len) ==
  /\ from - abs < Half /\ abs - from <= Half
  /\ from + len - abs < Half

(* Such a packet moves the head to its end if that lies ahead, and what it *)
(* reports as new are its bytes from the head on.                          *)
LEMMA FedIs ==
  ASSUME NEW s \in Stream, NEW abs \in Nat, Heads(s, abs), NEW from \in Nat, NEW len \in Nat \ {0},
         Near(abs, from, len)
  PROVE  LET fed == FeedPacket(s, from % SeqSpace, len)
         IN  /\ fed.stream \in Stream
             /\ Heads(fed.stream, IF from + len > abs THEN from + len ELSE abs)
             /\ Bytes(fed.start, fed.new) = {n \in Bytes(from, len) : n >= abs}
<1> DEFINE raw == from % SeqSpace
           end == (raw + len) % SeqSpace
<1>1. SeqSpace \in Nat /\ Half \in Nat /\ SeqSpace = 2 * Half /\ SeqSpace > 1
  BY HalfIs
<1>2. raw \in RawSeq /\ end \in RawSeq
  <2>1. raw \in 0 .. SeqSpace - 1
    BY <1>1
  <2> HIDE DEF raw
  <2>2. end \in 0 .. SeqSpace - 1
    BY <1>1, <2>1
  <2> QED
    BY <2>1, <2>2 DEF RawSeq
<1>3. Diff(s, raw) = from - abs
  BY DiffIs DEF Near
<1>4. Ahead(s, raw, len) = IF from + len < abs THEN 0 ELSE from + len - abs
  <2>1. from + len - abs < Half /\ abs - (from + len) <= Half
    BY <1>1 DEF Near
  <2> QED
    BY <2>1, AheadIs
<1>5. end = (from + len) % SeqSpace
  <2> DEFINE e == from + len
             d == e % SeqSpace
  <2>1. d \in 0 .. SeqSpace - 1 /\ e \in Nat /\ raw \in Int
    BY <1>1
  <2>2. PICK q \in Int : e = q * SeqSpace + d
    <3>1. e \div SeqSpace \in Int /\ e = (e \div SeqSpace) * SeqSpace + d
      BY <1>1
    <3> QED
      BY <3>1
  <2>3. PICK p \in Int : from = p * SeqSpace + raw
    <3>1. from \div SeqSpace \in Int /\ from = (from \div SeqSpace) * SeqSpace + raw
      BY <1>1
    <3> QED
      BY <3>1
  <2> HIDE DEF d, raw
  <2>4. raw + len = (q - p) * SeqSpace + d
    <3>1. (q - p) * SeqSpace = q * SeqSpace - p * SeqSpace /\ q * SeqSpace \in Int /\ p * SeqSpace \in Int
      BY <1>1
    <3> QED
      BY <2>1, <2>2, <2>3, <3>1
  <2>5. ((q - p) * SeqSpace + d) % SeqSpace = d
    BY <1>1, <2>1, RemainderIs
  <2> QED
    BY <2>4, <2>5 DEF d
<1> HIDE DEF raw, end
<1>6. s.active /\ s.abs = abs /\ s.raw = abs % SeqSpace /\ s \in Stream
  BY DEF Heads
<1>7. \A t : t = [s EXCEPT !.raw = end, !.abs = from + len]
        => t \in Stream /\ Heads(t, from + len)
  <2> SUFFICES ASSUME NEW t, t = [s EXCEPT !.raw = end, !.abs = from + len]
               PROVE  t \in Stream /\ Heads(t, from + len)
    OBVIOUS
  <2>0. from + len \in Nat /\ end \in RawSeq /\ s \in [raw : RawSeq, abs : Nat, active : BOOLEAN]
    BY <1>2, <1>6 DEF Stream
  <2>1. t \in Stream /\ t.abs = from + len /\ t.raw = end
    BY <2>0 DEF Stream
  <2>2. t.active
    BY <1>6, <2>0
  <2> QED
    BY <1>5, <2>1, <2>2 DEF Heads
<1>8. CASE from > abs
  <2>1. FeedPacket(s, raw, len) = Advance(s, raw, len, abs + (from - abs), len)
    BY <1>3, <1>6, <1>8 DEF FeedPacket
  <2>2. abs + (from - abs) = from
    OBVIOUS
  <2>3. FeedPacket(s, raw, len) = Fed([s EXCEPT !.raw = end, !.abs = from + len], from, len)
    BY <2>1, <2>2 DEF Advance, end
  <2>4. Bytes(from, len) = {n \in Bytes(from, len) : n >= abs}
    BY <1>8 DEF Bytes
  <2> QED
    BY <1>7, <1>8, <2>3, <2>4 DEF Fed, raw
<1>9. CASE from <= abs /\ from + len > abs
  <2>1. Diff(s, raw) <= 0 /\ ~ (Diff(s, raw) > 0) /\ Ahead(s, raw, len) = from + len - abs /\ from + len - abs > 0
    BY <1>3, <1>4, <1>9
  <2>2. FeedPacket(s, raw, len) = Advance(s, raw, len, abs, from + len - abs)
    BY <1>6, <2>1 DEF FeedPacket
  <2>3. abs + (from + len - abs) = from + len
    OBVIOUS
  <2>4. FeedPacket(s, raw, len) = Fed([s EXCEPT !.raw = end, !.abs = from + len], abs, from + len - abs)
    BY <2>2, <2>3 DEF Advance, end
  <2>5. Bytes(abs, from + len - abs) = {n \in Bytes(from, len) : n >= abs}
    BY <1>9 DEF Bytes
  <2> QED
    BY <1>7, <1>9, <2>4, <2>5 DEF Fed, raw
<1>10. CASE from + len <= abs
  <2>1. Diff(s, raw) <= 0 /\ ~ (Diff(s, raw) > 0) /\ Ahead(s, raw, len) = 0
    BY <1>3, <1>4, <1>10
  <2>2. FeedPacket(s, raw, len) = Fed(s, abs, 0)
    BY <1>6, <2>1 DEF FeedPacket
  <2>3. Bytes(abs, 0) = {} /\ {n \in Bytes(from, len) : n >= abs} = {}
    BY <1>10 DEF Bytes
  <2> QED
    BY <1>6, <1>10, <2>2, <2>3 DEF Fed, raw, Heads
<1> QED
  BY <1>8, <1>9, <1>10

-----------------------------------------------------------------------------
(* The head, without a maximum over all that was seen.                     *)
HeadTells ==
  \/ seen \subseteq FirstPacket /\ str.abs \in isn .. isn + tap.joined
  \/ str.abs - 1 \in seen /\ \A n \in seen : n < str.abs

(* The inductive invariant: the raw number at the head is that of the      *)
(* absolute one, and what was sent reaches less than half a range ahead of *)
(* it.  When segments pass in order, all that was sent was seen.           *)
StreamInv ==
  /\ tap \in Taps
  /\ isn \in RawSeq
  /\ sent \in Nat /\ tap.joined <= sent
  /\ str \in Stream /\ Heads(str, str.abs)
  /\ str.abs \in isn .. isn + sent
  /\ isn + sent <= str.abs + Window + MaxSeg
  /\ seen \subseteq Bytes(isn, sent)
  /\ HeadTells
  /\ tap.ordered => seen = Bytes(isn, sent)

(* The types of the constants.                                             *)
LEMMA ConstantsAre ==
  /\ MaxSeg \in Nat /\ MaxSeg > 0 /\ Window \in Nat /\ Window + MaxSeg < Half /\ Half \in Nat
  /\ InitialSeqs \subseteq RawSeq /\ RawSeq \subseteq Nat
  /\ \A t \in Taps : t.joined \in 0 .. MaxSeg
BY TrackingAssumption, HalfIs DEF Half, RawSeq

(* The first packet gives the baseline.                                    *)
LEMMA InitIsStreamInv == Init => StreamInv
<1> SUFFICES ASSUME Init PROVE StreamInv
  OBVIOUS
<1>1. /\ tap \in Taps /\ isn \in RawSeq /\ isn \in Nat /\ tap.joined \in Nat /\ tap.joined <= MaxSeg
      /\ sent = tap.joined /\ seen = Bytes(isn, tap.joined)
  BY ConstantsAre DEF Init
<1>2. str = Baseline(isn)
  BY DEF Init, FeedPacket, IdleStream, Fed
<1>3. str \in Stream /\ Heads(str, isn) /\ str.abs = isn
  <2>1. isn % SeqSpace = isn
    BY <1>1, HalfIs DEF RawSeq
  <2> QED
    BY <1>1, <1>2, <2>1 DEF Baseline, Stream, Heads
<1>4. isn + sent <= str.abs + Window + MaxSeg /\ str.abs \in isn .. isn + sent
  BY <1>1, <1>3, ConstantsAre
<1> QED
  BY <1>1, <1>3, <1>4 DEF StreamInv, HeadTells, FirstPacket

(* The bytes of a packet are an interval.                                  *)
LEMMA BytesAre ==
  ASSUME NEW a \in Int, NEW n \in Int
  PROVE  \A x : x \in Bytes(a, n) <=> x \in Int /\ a <= x /\ x < a + n
BY DEF Bytes

(* An interval within another.                                             *)
LEMMA BytesWithin ==
  ASSUME NEW a \in Int, NEW n \in Int, NEW b \in Int, NEW m \in Int, a <= b, b + m <= a + n
  PROVE  Bytes(b, m) \subseteq Bytes(a, n)
BY DEF Bytes

(* Where the head is after a packet.                                       *)
LEMMA HeadMoves ==
  ASSUME NEW abs \in Nat, NEW low \in Nat, NEW from \in Nat, NEW len \in Nat \ {0},
         NEW upto \in Nat, NEW lead \in Nat, low <= abs, abs <= low + upto, low <= from, from + len <= low + upto,
         low + upto <= abs + lead, abs <= from + lead
  PROVE  /\ from + len <= abs + lead
         /\ LET head == IF from + len > abs THEN from + len ELSE abs
            IN  /\ head \in low .. low + upto /\ head \in Nat
                /\ abs <= head /\ from + len <= head
                /\ low + upto <= head + lead
OBVIOUS

(* What a capture does to the head, what was seen and what is new.         *)
LEMMA CaptureKeeps ==
  ASSUME StreamInv, NEW from \in Nat, NEW len \in Nat \ {0}, Capture(from, len),
         NEW upto \in Nat, sent' = upto, isn <= from, from + len <= isn + upto, sent <= upto,
         isn + upto <= str.abs + (Window + MaxSeg),
         str.abs <= from + (Window + MaxSeg),
         tap.ordered => Bytes(isn, upto) = Bytes(isn, sent) \cup Bytes(from, len)
  PROVE  /\ StreamInv'
         /\ last'.bytes = Bytes(from, len) \ seen
         /\ last'.new = {n \in Bytes(from, len) : n >= str.abs}
<1>1. /\ isn \in Nat /\ sent \in Nat /\ str.abs \in Nat /\ tap.joined \in Nat
      /\ Window + MaxSeg \in Nat /\ Window + MaxSeg < Half /\ Half \in Nat
      /\ isn <= str.abs /\ str.abs <= isn + sent /\ tap.joined <= sent
  <2>1. str.abs \in isn .. isn + sent /\ isn \in Nat /\ sent \in Nat
    BY ConstantsAre DEF StreamInv
  <2>2. tap \in Taps /\ tap.joined <= sent
    BY DEF StreamInv
  <2> QED
    BY <2>1, <2>2, ConstantsAre
<1>2. PICK abs \in Nat : abs = str.abs
  BY <1>1
<1>3. PICK lead \in Nat : lead = Window + MaxSeg
  BY <1>1
<1>4. PICK a \in Nat : a = isn
  BY <1>1
<1>5. PICK head : head = IF from + len > abs THEN from + len ELSE abs
  OBVIOUS
<1>6. /\ from + len <= abs + lead
      /\ head \in a .. a + upto /\ head \in Nat
      /\ abs <= head /\ from + len <= head
      /\ a + upto <= head + lead
  <2>1. a <= abs /\ abs <= a + upto /\ a <= from /\ from + len <= a + upto
        /\ a + upto <= abs + lead /\ abs <= from + lead
    BY <1>1, <1>2, <1>3, <1>4
  <2> QED
    BY <1>5, <2>1, HeadMoves
<1>7. Near(abs, from, len)
  <2>1. lead < Half /\ Half \in Nat /\ abs <= from + lead
    BY <1>1, <1>2, <1>3
  <2> QED
    BY <1>6, <2>1 DEF Near
<1> DEFINE fed == FeedPacket(str, from % SeqSpace, len)
<1>8. /\ fed.stream \in Stream /\ Heads(fed.stream, head)
      /\ Bytes(fed.start, fed.new) = {n \in Bytes(from, len) : n >= abs}
  <2>1. str \in Stream /\ Heads(str, abs)
    BY <1>2 DEF StreamInv
  <2> QED
    BY <1>5, <1>7, <2>1, FedIs
<1>9. /\ str' = fed.stream /\ seen' = seen \cup Bytes(from, len) /\ tap' = tap /\ isn' = isn
      /\ last' = [bytes |-> Bytes(from, len) \ seen, new |-> Bytes(fed.start, fed.new)]
  BY DEF Capture
<1> HIDE DEF fed
<1>10. str'.abs = head /\ str' \in Stream /\ Heads(str', str'.abs)
  BY <1>8, <1>9 DEF Heads
<1>11. Bytes(from, len) \subseteq Bytes(isn, upto) /\ Bytes(isn, sent) \subseteq Bytes(isn, upto)
  <2>1. a <= from /\ from + len <= a + upto /\ a + sent <= a + upto /\ sent \in Nat
    BY <1>1, <1>4
  <2> QED
    BY <1>4, <2>1, BytesWithin
<1>12. seen' \subseteq Bytes(isn', sent')
  BY <1>9, <1>11 DEF StreamInv
<1>13. tap'.ordered => seen' = Bytes(isn', sent')
  BY <1>9 DEF StreamInv
<1>14. FirstPacket' = FirstPacket
  BY <1>9 DEF FirstPacket
<1>15. PICK j \in Nat : j = tap.joined
  BY <1>1
<1>16. FirstPacket = Bytes(a, j) /\ \A x \in FirstPacket : x < a + j
  BY <1>4, <1>15, BytesAre DEF FirstPacket
<1>17. \A n \in Bytes(from, len) : n \in Int /\ n < from + len
  BY BytesAre
<1>18. HeadTells'
  <2>1. CASE seen \subseteq FirstPacket /\ str.abs \in isn .. isn + tap.joined
    <3>1. abs \in a .. a + j
      BY <1>2, <1>4, <1>15, <2>1
    <3>2. CASE from + len <= a + j
      <4>1. Bytes(from, len) \subseteq FirstPacket
        <5>1. a <= from
          BY <1>1, <1>4
        <5> QED
          BY <1>16, <3>2, <5>1, BytesWithin
      <4>2. head \in a .. a + j
        BY <1>5, <1>6, <3>1, <3>2
      <4> QED
        BY <1>4, <1>9, <1>10, <1>14, <1>15, <2>1, <4>1, <4>2 DEF HeadTells
    <3>3. CASE ~ (from + len <= a + j)
      <4>1. head = from + len /\ a + j < head
        BY <1>5, <3>1, <3>3
      <4>2. head - 1 \in Bytes(from, len)
        BY <4>1, BytesAre
      <4>3. \A n \in seen : n < head
        <5>1. \A n \in seen : n \in Int /\ n < a + j
          BY <1>4, <1>15, <1>16, <2>1, BytesAre
        <5> QED
          BY <1>6, <4>1, <5>1
      <4> QED
        BY <1>9, <1>10, <1>17, <4>1, <4>2, <4>3 DEF HeadTells
    <3> QED
      BY <3>2, <3>3
  <2>2. CASE str.abs - 1 \in seen /\ \A n \in seen : n < str.abs
    <3>1. \A n \in seen : n \in Int /\ n < abs
      BY <1>1, <1>2, <2>2, BytesAre DEF StreamInv
    <3>2. \A n \in seen' : n < head
      BY <1>6, <1>9, <1>17, <3>1
    <3>3. CASE from + len > abs
      <4>1. head - 1 \in Bytes(from, len)
        BY <1>5, <3>3, BytesAre
      <4> QED
        BY <1>9, <1>10, <3>2, <4>1 DEF HeadTells
    <3>4. CASE ~ (from + len > abs)
      BY <1>2, <1>5, <1>9, <1>10, <2>2, <3>2, <3>4 DEF HeadTells
    <3> QED
      BY <3>3, <3>4
  <2> QED
    BY <2>1, <2>2 DEF StreamInv, HeadTells
<1>19. str'.abs \in isn' .. isn' + sent' /\ isn' + sent' <= str'.abs + Window + MaxSeg
  <2>1. head \in a .. a + upto
    BY <1>6
  <2>2. a + upto <= head + Window + MaxSeg
    <3>1. Window \in Nat /\ MaxSeg \in Nat
      BY ConstantsAre
    <3> QED
      BY <1>3, <1>6, <3>1
  <2> QED
    BY <1>4, <1>9, <1>10, <2>1, <2>2
<1>20. tap'.joined <= sent' /\ tap' \in Taps /\ isn' \in RawSeq /\ sent' \in Nat
  BY <1>1, <1>9 DEF StreamInv
<1> QED
  BY <1>2, <1>8, <1>9, <1>10, <1>12, <1>13, <1>18, <1>19, <1>20 DEF StreamInv

(* Bytes the network swallows.                                             *)
LEMMA LoseKeeps ==
  ASSUME StreamInv, NEW len \in Nat, Lose(len)
  PROVE  StreamInv'
<1>1. /\ ~ tap.ordered /\ sent' = sent + len /\ isn + sent + len <= str.abs + Window
      /\ UNCHANGED <<tap, str, isn, seen>>
  BY DEF Lose, MaySend
<1>2. /\ isn \in Nat /\ sent \in Nat /\ str.abs \in Nat /\ Window \in Nat /\ MaxSeg \in Nat
      /\ tap.joined \in Nat /\ isn <= str.abs /\ str.abs <= isn + sent /\ tap.joined <= sent
  <2>1. str.abs \in isn .. isn + sent /\ isn \in Nat /\ sent \in Nat /\ tap \in Taps /\ tap.joined <= sent
    BY ConstantsAre DEF StreamInv
  <2> QED
    BY <2>1, ConstantsAre
<1>3. PICK upto \in Nat : sent' = upto /\ upto = sent + len
  BY <1>1, <1>2
<1>4. /\ str.abs \in isn .. isn + upto /\ isn + upto <= str.abs + Window + MaxSeg /\ tap.joined <= upto
  BY <1>1, <1>2, <1>3
<1>5. Bytes(isn, sent) \subseteq Bytes(isn, upto)
  BY <1>2, <1>3, BytesWithin
<1>6. HeadTells'
  BY <1>1 DEF StreamInv, HeadTells, FirstPacket
<1> QED
  BY <1>1, <1>3, <1>4, <1>5, <1>6 DEF StreamInv

(* The tap captures as the sender sends.                                   *)
LEMMA SendKeeps ==
  ASSUME StreamInv, NEW len \in 1 .. MaxSeg, NEW back \in 0 .. MaxSeg - len, back <= sent,
         Send(back, len)
  PROVE  /\ StreamInv'
         /\ \E from, n \in Nat : /\ last'.bytes = Bytes(from, n) \ seen
                                 /\ last'.new = {x \in Bytes(from, n) : x >= str.abs}
                                 /\ isn <= from
<1>1. /\ isn \in Nat /\ sent \in Nat /\ str.abs \in Nat /\ Window \in Nat /\ MaxSeg \in Nat
      /\ isn <= str.abs /\ str.abs <= isn + sent
  <2>1. str.abs \in isn .. isn + sent /\ isn \in Nat /\ sent \in Nat
    BY ConstantsAre DEF StreamInv
  <2> QED
    BY <2>1, ConstantsAre
<1>2. PICK from \in Nat : from = isn + sent - back
  BY <1>1
<1>3. PICK n \in Nat \ {0} : n = back + len
  BY <1>1
<1>4. PICK upto \in Nat : upto = sent + len
  BY <1>1
<1>5. sent' = upto /\ isn + sent + len <= str.abs + Window /\ Capture(from, n)
  BY <1>2, <1>3, <1>4 DEF Send, MaySend
<1>6. isn <= from /\ from + n <= isn + upto /\ sent <= upto
  BY <1>1, <1>2, <1>3, <1>4
<1>7. isn + upto <= str.abs + (Window + MaxSeg) /\ str.abs <= from + (Window + MaxSeg)
  BY <1>1, <1>2, <1>4, <1>5
<1>8. Bytes(isn, upto) = Bytes(isn, sent) \cup Bytes(from, n)
  <2>1. \A x : x \in Bytes(isn, upto) <=> x \in Int /\ isn <= x /\ x < isn + upto
    BY <1>1, BytesAre
  <2>2. \A x : x \in Bytes(isn, sent) <=> x \in Int /\ isn <= x /\ x < isn + sent
    BY <1>1, BytesAre
  <2>3. \A x : x \in Bytes(from, n) <=> x \in Int /\ from <= x /\ x < from + n
    BY BytesAre
  <2>4. from <= isn + sent /\ from + n = isn + upto
    BY <1>1, <1>2, <1>3, <1>4
  <2>5. \A x : x \in Bytes(isn, upto) <=> x \in Bytes(isn, sent) \/ x \in Bytes(from, n)
    BY <1>1, <1>6, <2>1, <2>2, <2>3, <2>4
  <2> QED
    BY <2>5
<1> QED
  BY <1>5, <1>6, <1>7, <1>8, CaptureKeeps

(* What was sent is sent again.                                            *)
LEMMA ResendKeeps ==
  ASSUME StreamInv, NEW from \in isn .. (isn + sent - 1), NEW len \in 1 .. MaxSeg, Resend(from, len)
  PROVE  /\ StreamInv'
         /\ last'.bytes = Bytes(from, len) \ seen
         /\ last'.new = {x \in Bytes(from, len) : x >= str.abs}
         /\ Bytes(from, len) \subseteq Bytes(isn, sent)
<1>1. /\ isn \in Nat /\ sent \in Nat /\ str.abs \in Nat /\ Window \in Nat /\ MaxSeg \in Nat
      /\ isn <= str.abs /\ str.abs <= isn + sent /\ isn + sent <= str.abs + Window + MaxSeg
  <2>1. str.abs \in isn .. isn + sent /\ isn \in Nat /\ sent \in Nat
        /\ isn + sent <= str.abs + Window + MaxSeg
    BY ConstantsAre DEF StreamInv
  <2> QED
    BY <2>1, ConstantsAre
<1>2. from \in Nat /\ len \in Nat \ {0} /\ isn <= from
  BY <1>1
<1>3. /\ from >= isn + sent - Window /\ from + len <= isn + sent /\ Capture(from, len)
      /\ sent' = sent
  BY DEF Resend
<1>4. isn + sent <= str.abs + (Window + MaxSeg) /\ str.abs <= from + (Window + MaxSeg)
  BY <1>1, <1>2, <1>3
<1>5. Bytes(from, len) \subseteq Bytes(isn, sent)
  BY <1>1, <1>2, <1>3, BytesWithin
<1>6. PICK upto \in Nat : upto = sent
  BY <1>1
<1>7. sent' = upto /\ from + len <= isn + upto /\ sent <= upto /\ isn + upto <= str.abs + (Window + MaxSeg)
      /\ Bytes(isn, upto) = Bytes(isn, sent) \cup Bytes(from, len)
  BY <1>1, <1>3, <1>4, <1>5, <1>6
<1> QED
  BY <1>2, <1>3, <1>4, <1>5, <1>7, CaptureKeeps

(* Each step keeps the invariant.                                          *)
LEMMA NextKeeps == StreamInv /\ [Next]_vars => StreamInv'
<1> SUFFICES ASSUME StreamInv, [Next]_vars PROVE StreamInv'
  OBVIOUS
<1>1. CASE UNCHANGED vars
  BY <1>1 DEF vars, StreamInv, HeadTells, FirstPacket
<1>2. ASSUME NEW len \in 1 .. MaxSeg, NEW back \in 0 .. MaxSeg - len, back <= sent, Send(back, len)
      PROVE  StreamInv'
  BY <1>2, SendKeeps
<1>3. ASSUME NEW len \in 1 .. MaxSeg, Lose(len) PROVE StreamInv'
  BY <1>3, LoseKeeps, ConstantsAre
<1>4. ASSUME NEW from \in isn .. (isn + sent - 1), NEW len \in 1 .. MaxSeg, Resend(from, len)
      PROVE  StreamInv'
  BY <1>4, ResendKeeps
<1> QED
  BY <1>1, <1>2, <1>3, <1>4 DEF Next

(* What a greatest member is.                                              *)
LEMMA GreatestIs ==
  ASSUME NEW S \in SUBSET Int, NEW m \in S, \A x \in S : x <= m
  PROVE  Max(S) = m
<1>1. m \in Int /\ \A x \in S : m >= x
  OBVIOUS
<1>2. ASSUME NEW y \in S, \A x \in S : y >= x PROVE y = m
  <2>1. y \in Int /\ y >= m /\ y <= m
    BY <1>2
  <2> QED
    BY <1>1, <2>1
<1> QED
  BY <1>1, <1>2 DEF Max

(* However often the raw numbers wrap, and whatever is lost, reordered or  *)
(* sent again within the window, the translator's head is the number       *)
(* behind the newest byte captured, and any number sent ahead of it is     *)
(* translated to its true number (feed_packet, abs_of).                    *)
THEOREM TranslationTheorem == Spec => []TranslationIsTrue
<1>1. StreamInv => TranslationIsTrue
  <2> SUFFICES ASSUME StreamInv PROVE HeadIsTrue /\ AckAheadIsTrue
    BY DEF TranslationIsTrue
  <2>1. /\ isn \in Nat /\ sent \in Nat /\ str.abs \in Nat /\ Window \in Nat /\ MaxSeg \in Nat
        /\ Half \in Nat /\ Window + MaxSeg < Half /\ isn + sent <= str.abs + Window + MaxSeg
    BY ConstantsAre DEF StreamInv, Stream
  <2>2. HeadIsTrue
    <3>1. CASE str.abs - 1 \in seen /\ \A n \in seen : n < str.abs
      <4>1. seen \in SUBSET Int
        BY <2>1, BytesAre DEF StreamInv
      <4>2. \A n \in seen : n <= str.abs - 1
        BY <2>1, <3>1, <4>1
      <4>3. Max(seen) = str.abs - 1
        BY <3>1, <4>1, <4>2, GreatestIs
      <4> QED
        BY <2>1, <4>3 DEF HeadIsTrue
    <3> QED
      BY <3>1 DEF StreamInv, HeadTells, HeadIsTrue
  <2>3. AckAheadIsTrue
    <3> SUFFICES ASSUME NEW n \in (str.abs + 1) .. (isn + sent)
                 PROVE  AbsOf(str, n % SeqSpace) = n
      BY DEF AckAheadIsTrue
    <3>1. n \in Nat /\ n - str.abs < Half /\ str.abs - n <= Half /\ n - str.abs > 0
      BY <2>1
    <3>2. Heads(str, str.abs)
      BY DEF StreamInv
    <3>3. Diff(str, n % SeqSpace) = n - str.abs
      BY <2>1, <3>1, <3>2, DiffIs
    <3>4. str.abs + (n - str.abs) = n
      BY <2>1, <3>1
    <3> QED
      BY <3>1, <3>2, <3>3, <3>4 DEF AbsOf, Heads
  <2> QED
    BY <2>2, <2>3
<1> QED
  BY <1>1, InitIsStreamInv, NextKeeps, PTL DEF Spec

(* When segments pass in order, the bytes reported as new are those        *)
(* captured for the first time, each of them once, but for the packet at   *)
(* which the tap joined, whose bytes may be new once more (feed_packet).   *)
THEOREM NewTheorem == Spec => NewIsFirstSeen
<1>1. StreamInv /\ [Next]_vars =>
        [tap.ordered /\ last' # last => /\ last'.bytes \subseteq last'.new
                                        /\ last'.new \subseteq last'.bytes \cup FirstPacket]_vars
  <2> SUFFICES ASSUME StreamInv, Next, tap.ordered, last' # last
               PROVE  /\ last'.bytes \subseteq last'.new
                      /\ last'.new \subseteq last'.bytes \cup FirstPacket
    OBVIOUS
  <2>1. /\ isn \in Nat /\ sent \in Nat /\ str.abs \in Nat /\ tap.joined \in Nat /\ str.abs >= isn
        /\ str.abs <= isn + sent /\ tap.joined <= sent /\ seen = Bytes(isn, sent)
    <3>1. str.abs \in isn .. isn + sent /\ isn \in Nat /\ sent \in Nat /\ tap \in Taps /\ tap.joined <= sent
          /\ seen = Bytes(isn, sent)
      BY ConstantsAre DEF StreamInv
    <3> QED
      BY <3>1, ConstantsAre
  <2>2. PICK from \in Nat, n \in Nat : /\ last'.bytes = Bytes(from, n) \ seen
                                       /\ last'.new = {x \in Bytes(from, n) : x >= str.abs}
                                       /\ isn <= from
    <3>1. ASSUME NEW len \in 1 .. MaxSeg, NEW back \in 0 .. MaxSeg - len, back <= sent, Send(back, len)
          PROVE  \E from, n \in Nat : /\ last'.bytes = Bytes(from, n) \ seen
                                      /\ last'.new = {x \in Bytes(from, n) : x >= str.abs}
                                      /\ isn <= from
      BY <3>1, SendKeeps
    <3>2. \A len \in 1 .. MaxSeg : ~ Lose(len)
      BY DEF Lose
    <3>3. ASSUME NEW from \in isn .. (isn + sent - 1), NEW len \in 1 .. MaxSeg, Resend(from, len)
          PROVE  /\ from \in Nat /\ len \in Nat /\ isn <= from
                 /\ last'.bytes = Bytes(from, len) \ seen
                 /\ last'.new = {x \in Bytes(from, len) : x >= str.abs}
      BY <2>1, <3>3, ResendKeeps, ConstantsAre
    <3> QED
      BY <3>1, <3>2, <3>3 DEF Next
  <2>3. \A x : x \in seen <=> x \in Int /\ isn <= x /\ x < isn + sent
    BY <2>1, BytesAre
  <2>4. \A x : x \in Bytes(from, n) => x \in Int /\ isn <= x
    BY <2>1, <2>2, BytesAre
  <2>5. ASSUME NEW x \in Bytes(from, n), x \notin seen PROVE x >= str.abs
    BY <2>1, <2>3, <2>4, <2>5
  <2>6. ASSUME NEW x \in seen, x >= str.abs PROVE x \in FirstPacket
    <3>1. CASE seen \subseteq FirstPacket
      BY <2>6, <3>1
    <3>2. CASE \A y \in seen : y < str.abs
      BY <2>1, <2>3, <2>6, <3>2
    <3> QED
      BY <3>1, <3>2 DEF StreamInv, HeadTells
  <2> QED
    BY <2>2, <2>5, <2>6
<1> QED
  BY <1>1, InitIsStreamInv, NextKeeps, PTL DEF Spec, NewIsFirstSeen
=============================================================================
