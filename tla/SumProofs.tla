----------------------------- MODULE SumProofs -----------------------------
(***************************************************************************)
(* Sums over finite sets: what SumFunctionOnSet of the module Functions    *)
(* gives, for any function to the integers. The sum is a fold, a recursion *)
(* over subsets that takes out an arbitrary member each time, so its facts *)
(* need induction. An induction theorem over predicates cannot be          *)
(* instantiated here; one over sets can, and any property of naturals or   *)
(* of subsets is a set of them.                                            *)
(***************************************************************************)
EXTENDS Integers, FiniteSets, Functions, FiniteSetTheorems, WellFoundedInduction, TLAPS

(* The order of the naturals as a set of pairs, which is the form in which *)
(* the library's facts about well-founded relations take an order.         *)
Less == {ss \in Nat \X Nat : ss[1] < ss[2]}

(* Every nonempty set of naturals has a member with none below it.         *)
LEMMA LessWellFounded == IsWellFoundedOn(Less, Nat)
BY NatLessThanWellFounded DEF OpToRel, Less

(* A nonempty set of naturals has a least member.                          *)
LEMMA LeastNatural ==
  ASSUME NEW T \in SUBSET Nat, T # {}
  PROVE  \E m \in T : \A k \in T : m <= k
<1>1. PICK x \in T : \A y \in T : ~ (<<y, x>> \in Less)
  BY LessWellFounded, WFMin
<1>2. ASSUME NEW y \in T PROVE x <= y
  <2>1. <<y, x>> \notin Less
    BY <1>1
  <2>2. x \in Nat /\ y \in Nat
    OBVIOUS
  <2> QED BY <2>1, <2>2 DEF Less
<1> QED BY <1>2

(* Induction over the naturals, about a set T of them instead of a         *)
(* predicate: a set that holds 0 and is closed under successor holds them  *)
(* all.                                                                    *)
LEMMA SetInduction ==
  ASSUME NEW T \in SUBSET Nat, 0 \in T, \A n \in T : n + 1 \in T
  PROVE  T = Nat
<1> DEFINE U == Nat \ T
<1> SUFFICES ASSUME U # {} PROVE FALSE
  OBVIOUS
<1>1. U \in SUBSET Nat
  OBVIOUS
<1> HIDE DEF U
<1>2. PICK m \in U : \A k \in U : m <= k
  BY <1>1, LeastNatural
<1>3. m \in Nat /\ m \notin T
  BY DEF U
<1>4. m # 0
  BY <1>3
<1>5. m - 1 \in Nat /\ (m - 1) + 1 = m /\ ~(m <= m - 1)
  BY <1>3, <1>4
<1>6. m - 1 \in T
  BY <1>2, <1>5 DEF U
<1> QED BY <1>3, <1>5, <1>6


(* A subset of a finite set is finite and no larger, and taking a member   *)
(* out of it makes it smaller by one.                                      *)
LEMMA Smaller ==
  ASSUME NEW S, IsFiniteSet(S), NEW s \in SUBSET S
  PROVE  /\ IsFiniteSet(s) /\ Cardinality(s) \in Nat
         /\ Cardinality(s) <= Cardinality(S)
         /\ Cardinality(s) = 0 <=> s = {}
         /\ \A x \in s : /\ s \ {x} \in SUBSET S
                         /\ Cardinality(s \ {x}) = Cardinality(s) - 1
<1>1. IsFiniteSet(s) /\ Cardinality(s) <= Cardinality(S)
  BY FS_Subset
<1>2. Cardinality(s) \in Nat
  BY <1>1, FS_CardinalityType
<1>3. Cardinality(s) = 0 <=> s = {}
  BY <1>1, FS_EmptySet
<1>4. ASSUME NEW x \in s PROVE Cardinality(s \ {x}) = Cardinality(s) - 1
  BY <1>1, FS_RemoveElement
<1> QED BY <1>1, <1>2, <1>3, <1>4

(* Induction over the subsets of a finite set S, about a set P of sets: if *)
(* P holds the empty set, and a nonempty s whenever it holds every s \     *)
(* {x}, then it holds S.                                                   *)
LEMMA FiniteInduction ==
  ASSUME NEW S, IsFiniteSet(S), NEW P, {} \in P,
         \A s \in SUBSET S : s # {} /\ (\A x \in s : s \ {x} \in P) => s \in P
  PROVE  S \in P
<1> DEFINE N == {n \in Nat : \A s \in SUBSET S : Cardinality(s) = n => s \in P}
<1>1. 0 \in N
  BY Smaller
<1>2. ASSUME NEW n \in N PROVE n + 1 \in N
  <2>1. n \in Nat /\ \A s \in SUBSET S : Cardinality(s) = n => s \in P
    OBVIOUS
  <2> HIDE DEF N
  <2>2. ASSUME NEW s \in SUBSET S, Cardinality(s) = n + 1 PROVE s \in P
    <3>1. s # {}
      BY <2>1, <2>2, Smaller
    <3>2. ASSUME NEW x \in s PROVE s \ {x} \in P
      <4>1. s \ {x} \in SUBSET S /\ Cardinality(s \ {x}) = Cardinality(s) - 1
        BY Smaller
      <4> QED BY <2>1, <2>2, <4>1
    <3> QED BY <3>1, <3>2
  <2> QED BY <2>1, <2>2 DEF N
<1>3. N = Nat
  <2>1. N \in SUBSET Nat
    OBVIOUS
  <2> HIDE DEF N
  <2> QED BY <1>1, <1>2, <2>1, SetInduction
<1>4. Cardinality(S) \in N
  BY <1>3, FS_CardinalityType
<1> QED BY <1>4

(* The member a fold takes out first.                                      *)
Pick(s) == CHOOSE x \in s : TRUE

(* g is a function that satisfies the recursion the fold is defined by.    *)
Folded(g, f, S) ==
  g = [s \in SUBSET S |-> IF s = {} THEN 0 ELSE f[Pick(s)] + g[s \ {Pick(s)}]]

(* The member picked from a nonempty set is one of its members.            *)
LEMMA PickIn == ASSUME NEW s, s # {} PROVE Pick(s) \in s
BY DEF Pick

(* The sum is the value at S of some function that satisfies the           *)
(* recursion, provided there is one.                                       *)
LEMMA SumIsFold ==
  ASSUME NEW S, NEW f, \E g : Folded(g, f, S)
  PROVE  \E g : Folded(g, f, S) /\ SumFunctionOnSet(f, S) = g[S]
BY DEF SumFunctionOnSet, FoldFunctionOnSet, MapThenFoldSet, Folded, Pick

(* One unfolding of the recursion.                                         *)
Body(f, g, s) == IF s = {} THEN 0 ELSE f[Pick(s)] + g[s \ {Pick(s)}]

(* One unfolding of the recursion over integers is an integer.             *)
LEMMA BodyType ==
  ASSUME NEW S, NEW f, \A x \in S : f[x] \in Int, NEW g \in [SUBSET S -> Int],
         NEW s \in SUBSET S
  PROVE  Body(f, g, s) \in Int
<1>1. CASE s = {}
  BY <1>1 DEF Body
<1>2. CASE s # {}
  <2>1. f[Pick(s)] \in Int /\ g[s \ {Pick(s)}] \in Int
    BY <1>2, PickIn
  <2> QED BY <1>2, <2>1 DEF Body
<1> QED BY <1>1, <1>2

(* The recursion has a solution on a finite set: solutions up to           *)
(* cardinality n, for each n in turn.                                      *)
LEMMA FoldExists ==
  ASSUME NEW S, IsFiniteSet(S), NEW f, \A x \in S : f[x] \in Int
  PROVE  \E g \in [SUBSET S -> Int] : Folded(g, f, S)
<1> DEFINE UpTo(g, n) ==
             \A s \in SUBSET S : Cardinality(s) <= n => g[s] = Body(f, g, s)
           T == {n \in Nat : \E g \in [SUBSET S -> Int] : UpTo(g, n)}
<1>1. 0 \in T
  <2> DEFINE g == [s \in SUBSET S |-> 0]
  <2>1. g \in [SUBSET S -> Int]
    OBVIOUS
  <2>2. ASSUME NEW s \in SUBSET S, Cardinality(s) <= 0 PROVE g[s] = Body(f, g, s)
    <3> HIDE DEF T, UpTo, g
    <3>1. s = {}
      BY <2>2, Smaller
    <3> QED BY <3>1 DEF g, Body
  <2> HIDE DEF g
  <2> QED BY <2>1, <2>2
<1>2. ASSUME NEW n \in T PROVE n + 1 \in T
  <2>1. PICK g \in [SUBSET S -> Int] : UpTo(g, n)
    OBVIOUS
  <2>2. n \in Nat
    OBVIOUS
  <2> DEFINE h == [s \in SUBSET S |-> Body(f, g, s)]
  <2>3. h \in [SUBSET S -> Int]
    BY BodyType
  <2>4. ASSUME NEW s \in SUBSET S, Cardinality(s) <= n + 1 PROVE h[s] = Body(f, h, s)
    <3>1. CASE s = {}
      BY <3>1 DEF Body
    <3>2. CASE s # {}
      <4> DEFINE r == s \ {Pick(s)}
      <4> HIDE DEF T
      <4>1. r \in SUBSET S /\ Cardinality(r) <= n
        BY <2>2, <2>4, <3>2, PickIn, Smaller
      <4>2. h[r] = g[r]
        BY <2>1, <4>1
      <4>3. h[s] = f[Pick(s)] + g[r]
        BY <3>2 DEF Body
      <4> QED BY <3>2, <4>2, <4>3 DEF Body
    <3> QED BY <3>1, <3>2
  <2> HIDE DEF h
  <2> QED BY <2>2, <2>3, <2>4
<1>3. T = Nat
  <2>1. T \in SUBSET Nat
    OBVIOUS
  <2> HIDE DEF T
  <2> QED BY <1>1, <1>2, <2>1, SetInduction
<1>4. Cardinality(S) \in T
  BY <1>3, FS_CardinalityType
<1>5. PICK g \in [SUBSET S -> Int] : UpTo(g, Cardinality(S))
  BY <1>4
<1> HIDE DEF T
<1>6. ASSUME NEW s \in SUBSET S PROVE g[s] = Body(f, g, s)
  BY <1>5, Smaller
<1>7. g = [s \in SUBSET S |-> Body(f, g, s)]
  BY <1>6
<1> QED BY <1>7 DEF Folded, Body

(* Solutions over two sets agree on what the sets share, so that the sum   *)
(* does not depend on which one is chosen.                                 *)
LEMMA FoldUnique ==
  ASSUME NEW S, NEW T \in SUBSET S, IsFiniteSet(T), NEW f, NEW g, NEW h,
         Folded(g, f, S), Folded(h, f, T)
  PROVE  g[T] = h[T]
<1> DEFINE P == {s \in SUBSET T : g[s] = h[s]}
<1>1. ASSUME NEW s \in SUBSET T
      PROVE  g[s] = Body(f, g, s) /\ h[s] = Body(f, h, s)
  <2>1. s \in SUBSET S
    OBVIOUS
  <2> QED BY <2>1 DEF Folded, Body
<1>2. {} \in P
  BY <1>1 DEF Body
<1>3. ASSUME NEW s \in SUBSET T, s # {}, \A x \in s : s \ {x} \in P
      PROVE  s \in P
  <2>1. g[s \ {Pick(s)}] = h[s \ {Pick(s)}]
    BY <1>3, PickIn
  <2> QED BY <1>1, <1>3, <2>1 DEF Body
<1>4. T \in P
  <2> HIDE DEF P
  <2> QED BY <1>2, <1>3, FiniteInduction
<1> QED BY <1>4

(* The sum is an integer, and the sum over a nonempty set is what the      *)
(* picked member contributes and the sum over the rest.                    *)
LEMMA SumStep ==
  ASSUME NEW S, IsFiniteSet(S), NEW f, \A x \in S : f[x] \in Int
  PROVE  /\ SumFunctionOnSet(f, S) \in Int
         /\ S # {} => SumFunctionOnSet(f, S)
                        = f[Pick(S)] + SumFunctionOnSet(f, S \ {Pick(S)})
<1>1. PICK g : Folded(g, f, S) /\ SumFunctionOnSet(f, S) = g[S]
  BY FoldExists, SumIsFold
<1>2. PICK k \in [SUBSET S -> Int] : Folded(k, f, S)
  BY FoldExists
<1>3. g[S] = k[S] /\ g[S] \in Int
  BY <1>1, <1>2, FoldUnique
<1>4. ASSUME S # {}
      PROVE  g[S] = f[Pick(S)] + SumFunctionOnSet(f, S \ {Pick(S)})
  <2> DEFINE R == S \ {Pick(S)}
  <2>1. IsFiniteSet(R) /\ R \in SUBSET S
    BY FS_Subset
  <2> HIDE DEF R
  <2>2. PICK h : Folded(h, f, R) /\ SumFunctionOnSet(f, R) = h[R]
    BY <2>1, FoldExists, SumIsFold
  <2>3. g[R] = h[R]
    BY <1>1, <2>1, <2>2, FoldUnique
  <2>4. g[S] = f[Pick(S)] + g[R]
    BY <1>1, <1>4 DEF Folded, R
  <2> QED BY <2>2, <2>3, <2>4 DEF R
<1> QED BY <1>1, <1>3, <1>4

(* A finite sum of integers is an integer.                                 *)
LEMMA SumInt ==
  ASSUME NEW S, IsFiniteSet(S), NEW f, \A x \in S : f[x] \in Int
  PROVE  SumFunctionOnSet(f, S) \in Int
BY SumStep

(* A sum over nothing is 0.                                                *)
LEMMA SumEmpty == \A f : SumFunctionOnSet(f, {}) = 0
<1> TAKE f
<1>1. IsFiniteSet({})
  BY FS_EmptySet
<1>2. PICK g : Folded(g, f, {}) /\ SumFunctionOnSet(f, {}) = g[{}]
  BY <1>1, FoldExists, SumIsFold
<1> QED BY <1>2 DEF Folded

(* Any member may be taken out of a sum first, not only the one that the   *)
(* fold happens to pick.                                                   *)
LEMMA SumRemove ==
  ASSUME NEW S, IsFiniteSet(S), NEW f, \A x \in S : f[x] \in Int, NEW d \in S
  PROVE  SumFunctionOnSet(f, S) = f[d] + SumFunctionOnSet(f, S \ {d})
<1> DEFINE Sum(s) == SumFunctionOnSet(f, s)
           P == {s \in SUBSET S : \A y \in s : Sum(s) = f[y] + Sum(s \ {y})}
<1>1. ASSUME NEW s \in SUBSET S
      PROVE  /\ Sum(s) \in Int
             /\ s # {} => Sum(s) = f[Pick(s)] + Sum(s \ {Pick(s)})
  <2>1. IsFiniteSet(s) /\ \A x \in s : f[x] \in Int
    BY FS_Subset
  <2> QED BY <2>1, SumStep
<1> HIDE DEF Sum
<1>2. {} \in P
  OBVIOUS
<1>3. ASSUME NEW s \in SUBSET S, s # {}, \A x \in s : s \ {x} \in P
      PROVE  s \in P
  <2>1. \A x, z \in s : x # z => Sum(s \ {x}) = f[z] + Sum((s \ {x}) \ {z})
    BY <1>3
  <2> HIDE DEF P
  <2> DEFINE p == Pick(s)
  <2>2. p \in s /\ Sum(s) = f[p] + Sum(s \ {p})
    BY <1>1, <1>3, PickIn
  <2> HIDE DEF p
  <2>3. ASSUME NEW y \in s PROVE Sum(s) = f[y] + Sum(s \ {y})
    <3>1. CASE y = p
      BY <2>2, <3>1
    <3>2. CASE y # p
      <4> DEFINE r == (s \ {p}) \ {y}
      <4>1. r = (s \ {y}) \ {p} /\ r \in SUBSET S
        OBVIOUS
      <4> HIDE DEF r
      <4>2. Sum(s \ {p}) = f[y] + Sum(r)
        BY <2>1, <2>2, <3>2 DEF r
      <4>3. Sum(s \ {y}) = f[p] + Sum(r)
        BY <2>1, <2>2, <3>2, <4>1
      <4>4. Sum(r) \in Int /\ f[p] \in Int /\ f[y] \in Int
        BY <1>1, <2>2, <4>1
      <4> QED BY <2>2, <4>2, <4>3, <4>4
    <3> QED BY <3>1, <3>2
  <2> QED BY <2>3 DEF P
<1>4. S \in P
  <2> HIDE DEF P
  <2> QED BY <1>2, <1>3, FiniteInduction
<1> QED BY <1>4 DEF Sum

(* A sum of larger terms is larger.                                        *)
LEMMA SumLeq ==
  ASSUME NEW S, IsFiniteSet(S), NEW f, NEW g,
         \A x \in S : f[x] \in Int /\ g[x] \in Int /\ f[x] <= g[x]
  PROVE  SumFunctionOnSet(f, S) <= SumFunctionOnSet(g, S)
<1> DEFINE F(s) == SumFunctionOnSet(f, s)
           G(s) == SumFunctionOnSet(g, s)
           P == {s \in SUBSET S : F(s) <= G(s)}
<1>1. ASSUME NEW s \in SUBSET S
      PROVE  /\ F(s) \in Int /\ G(s) \in Int
             /\ \A x \in s : F(s) = f[x] + F(s \ {x}) /\ G(s) = g[x] + G(s \ {x})
  <2>1. IsFiniteSet(s) /\ \A x \in s : f[x] \in Int /\ g[x] \in Int
    BY FS_Subset
  <2> QED BY <2>1, SumInt, SumRemove
<1>2. {} \in P
  BY SumEmpty
<1> HIDE DEF F, G
<1>3. ASSUME NEW s \in SUBSET S, s # {}, \A x \in s : s \ {x} \in P
      PROVE  s \in P
  <2>1. PICK x \in s : s \ {x} \in P
    BY <1>3
  <2>2. F(s \ {x}) <= G(s \ {x}) /\ s \ {x} \in SUBSET S
    BY <2>1
  <2>3. F(s \ {x}) \in Int /\ G(s \ {x}) \in Int
    BY <1>1, <2>2
  <2>4. F(s) <= G(s)
    BY <1>1, <2>2, <2>3
  <2> QED BY <2>4
<1>4. S \in P
  <2> HIDE DEF P
  <2> QED BY <1>2, <1>3, FiniteInduction
<1> QED BY <1>4 DEF F, G

(* The sum depends on the terms alone.                                     *)
LEMMA SumSame ==
  ASSUME NEW S, IsFiniteSet(S), NEW f, NEW g,
         \A x \in S : f[x] \in Int /\ g[x] = f[x]
  PROVE  SumFunctionOnSet(g, S) = SumFunctionOnSet(f, S)
<1>1. /\ SumFunctionOnSet(g, S) \in Int
      /\ SumFunctionOnSet(f, S) \in Int
  BY SumInt
<1>2. /\ SumFunctionOnSet(g, S) <= SumFunctionOnSet(f, S)
      /\ SumFunctionOnSet(f, S) <= SumFunctionOnSet(g, S)
  BY SumLeq
<1> QED BY <1>1, <1>2

(* Where one term changes the sum changes by the difference.               *)
LEMMA SumChange ==
  ASSUME NEW S, IsFiniteSet(S), NEW f, NEW g, NEW d \in S,
         \A x \in S : f[x] \in Int /\ g[x] \in Int /\ (x # d => g[x] = f[x])
  PROVE  SumFunctionOnSet(g, S) = SumFunctionOnSet(f, S) - f[d] + g[d]
<1> DEFINE R == S \ {d}
<1>1. IsFiniteSet(R)
  BY FS_RemoveElement
<1>2. SumFunctionOnSet(f, S) = f[d] + SumFunctionOnSet(f, R)
  BY SumRemove
<1>3. SumFunctionOnSet(g, S) = g[d] + SumFunctionOnSet(g, R)
  BY SumRemove
<1>4. SumFunctionOnSet(g, R) = SumFunctionOnSet(f, R)
  BY <1>1, SumSame
<1>5. SumFunctionOnSet(f, R) \in Int
  BY <1>1, SumInt
<1> QED BY <1>2, <1>3, <1>4, <1>5

(* A sum of naturals is a natural.                                         *)
LEMMA SumNonnegative ==
  ASSUME NEW S, IsFiniteSet(S), NEW f, \A x \in S : f[x] \in Nat
  PROVE  SumFunctionOnSet(f, S) \in Nat
<1> DEFINE P == {s \in SUBSET S : SumFunctionOnSet(f, s) \in Nat}
<1>1. {} \in P
  BY SumEmpty
<1>2. ASSUME NEW s \in SUBSET S, s # {}, \A x \in s : s \ {x} \in P
      PROVE  s \in P
  <2>1. PICK x \in s : SumFunctionOnSet(f, s \ {x}) \in Nat
    BY <1>2
  <2>2. IsFiniteSet(s) /\ \A y \in s : f[y] \in Int
    BY FS_Subset
  <2>3. SumFunctionOnSet(f, s) = f[x] + SumFunctionOnSet(f, s \ {x})
    BY <2>2, SumRemove
  <2> QED BY <2>1, <2>3
<1>3. S \in P
  <2> HIDE DEF P
  <2> QED BY <1>1, <1>2, FiniteInduction
<1> QED BY <1>3

(* No term of a sum of naturals exceeds the sum.                           *)
LEMMA SumMember ==
  ASSUME NEW S, IsFiniteSet(S), NEW f, \A x \in S : f[x] \in Nat, NEW d \in S
  PROVE  f[d] <= SumFunctionOnSet(f, S)
<1>1. IsFiniteSet(S \ {d})
  BY FS_RemoveElement
<1>2. SumFunctionOnSet(f, S \ {d}) \in Nat
  BY <1>1, SumNonnegative
<1>3. SumFunctionOnSet(f, S) = f[d] + SumFunctionOnSet(f, S \ {d})
  BY SumRemove
<1> QED
  BY <1>2, <1>3

(* A sum of zeroes is 0.                                                   *)
LEMMA SumZero ==
  ASSUME NEW S, IsFiniteSet(S), NEW f, \A x \in S : f[x] = 0
  PROVE  SumFunctionOnSet(f, S) = 0
<1> DEFINE P == {s \in SUBSET S : SumFunctionOnSet(f, s) = 0}
<1>1. {} \in P
  BY SumEmpty
<1>2. ASSUME NEW s \in SUBSET S, s # {}, \A x \in s : s \ {x} \in P
      PROVE  s \in P
  <2>1. PICK x \in s : SumFunctionOnSet(f, s \ {x}) = 0
    BY <1>2
  <2>2. IsFiniteSet(s) /\ \A y \in s : f[y] \in Int
    BY FS_Subset
  <2>3. SumFunctionOnSet(f, s) = f[x] + SumFunctionOnSet(f, s \ {x})
    BY <2>2, SumRemove
  <2> QED
    BY <2>1, <2>3
<1>3. S \in P
  <2> HIDE DEF P
  <2> QED
    BY <1>1, <1>2, FiniteInduction
<1> QED
  BY <1>3
=============================================================================
