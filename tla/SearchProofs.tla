---------------------------- MODULE SearchProofs ----------------------------
(***************************************************************************)
(* What Search computes, for vectors, results and documents of any number: *)
(* what the folds add up to, that the insertion sort sorts, that nothing   *)
(* is closer to a vector than itself, and where a page starts and ends.    *)
(* The folds of the community modules are read as chains of steps, so that *)
(* ordinary induction on how far they have come applies.                   *)
(***************************************************************************)
EXTENDS Search, FiniteSetTheorems, SequenceTheorems, TLAPS

-----------------------------------------------------------------------------
(* Induction and folds.                                                    *)

\* Induction on the numbers of a set.
LEMMA Induction ==
    ASSUME NEW T, 0 \in T, \A n \in Nat : n \in T => n + 1 \in T
    PROVE  Nat \subseteq T
<1> SUFFICES ASSUME Nat \ T # {}
             PROVE  FALSE
  OBVIOUS
<1>1. \E n \in Nat \ T : \A m \in Nat \ T : <<m, n>> \notin OpToRel(<, Nat)
  <2>1. Nat \ T \subseteq Nat
    OBVIOUS
  <2> HIDE DEF OpToRel
  <2> QED  BY <2>1, WFMin, NatLessThanWellFounded
<1>2. PICK n \in Nat \ T : \A m \in Nat \ T : ~(m < n)
  BY <1>1 DEF OpToRel
<1>3. n # 0 /\ n - 1 \in Nat
  OBVIOUS
<1>4. n - 1 \in T
  BY <1>2, <1>3
<1> QED  BY <1>3, <1>4

\* The greatest number of an interval is its end.
LEMMA MaxOfInterval ==
    ASSUME NEW N \in Nat, NEW n \in 1..N
    PROVE  /\ 1..n \in SUBSET (1..N) /\ 1..n # {}
           /\ Max(1..n) = n /\ (1..n) \ {Max(1..n)} = 1..(n - 1)
<1>1. n \in Nat /\ n > 0 /\ n <= N
  OBVIOUS
<1>2. n \in 1..n /\ \A y \in 1..n : n >= y
  BY <1>1
<1>3. \A x \in 1..n : (\A y \in 1..n : x >= y) => x = n
  BY <1>1, <1>2
<1>4. Max(1..n) = n
  BY <1>2, <1>3 DEF Max
<1>5. (1..n) \ {n} = 1..(n - 1)
  BY <1>1
<1>6. 1..n \in SUBSET (1..N)
  BY <1>1
<1> QED  BY <1>2, <1>4, <1>5, <1>6

\* A set of numbers with a bound has a greatest one.
LEMMA MaxIsMember ==
    ASSUME NEW N \in Nat, NEW s \in SUBSET (0..N), s # {}
    PROVE  Max(s) \in s /\ \A y \in s : Max(s) >= y
<1> DEFINE Above == {n \in Nat : \E x \in s : n = N - x}
<1>1. Above \subseteq Nat /\ Above # {}
  <2>1. PICK x : x \in s
    OBVIOUS
  <2>2. N - x \in Above
    BY <2>1
  <2> QED  BY <2>2
<1>2. \E n \in Above : \A m \in Above : <<m, n>> \notin OpToRel(<, Nat)
  <2> HIDE DEF OpToRel, Above
  <2> QED  BY <1>1, WFMin, NatLessThanWellFounded
<1>3. PICK n \in Above : \A m \in Above : ~(m < n)
  BY <1>2 DEF OpToRel
<1>4. PICK x \in s : n = N - x
  OBVIOUS
<1>5. \A y \in s : N - y \in Above
  OBVIOUS
<1>6. \A y \in s : x >= y
  BY <1>3, <1>4, <1>5
<1> QED  BY <1>6 DEF Max

\* So does a set of indices, and it is one of them.
LEMMA MaxOfSome ==
    ASSUME NEW N \in Nat, NEW s \in SUBSET (1..N), s # {}
    PROVE  Max(s) \in 1..N
<1>1. s \in SUBSET (0..N)
  OBVIOUS
<1> QED  BY <1>1, MaxIsMember

\* f is the fold of g over every set of indices up to N: the last index goes
\* in last.
SolvesFold(f, N, base, g) ==
    \A s \in SUBSET (1..N) :
        f[s] = IF s = {} THEN base ELSE g[<<f[s \ {Max(s)}], Max(s)>>]

\* A fold over indices has a value: the CHOOSE of its definition chooses
\* among something.
LEMMA FoldExists ==
    ASSUME NEW N \in Nat, NEW V, NEW base \in V, NEW g \in [V \X (1..N) -> V]
    PROVE  \E f \in [SUBSET (1..N) -> V] : SolvesFold(f, N, base, g)
<1> DEFINE Solves(f, n) == SolvesFold(f, n, base, g)
           Solvable(n) == \E f \in [SUBSET (1..n) -> V] : Solves(f, n)
           T == {n \in Nat : n <= N => Solvable(n)}
<1>1. 0 \in T
  <2> DEFINE f == [s \in SUBSET (1..0) |-> base]
  <2>1. 1..0 = {}
    OBVIOUS
  <2>2. f \in [SUBSET (1..0) -> V] /\ Solves(f, 0)
    BY <2>1 DEF SolvesFold
  <2> QED  BY <2>2
<1>2. ASSUME NEW n \in Nat, n \in T
      PROVE  n + 1 \in T
  <2> SUFFICES ASSUME n + 1 <= N
               PROVE  Solvable(n + 1)
    <3> HIDE DEF Solvable
    <3> QED  OBVIOUS
  <2>a. Solvable(n)
    <3> HIDE DEF Solvable
    <3> QED  BY <1>2
  <2> USE DEF SolvesFold
  <2>1. PICK f \in [SUBSET (1..n) -> V] : Solves(f, n)
    BY <2>a
  <2> DEFINE h == [s \in SUBSET (1..(n + 1)) |->
                      IF s = {} THEN base ELSE g[<<f[s \ {Max(s)}], Max(s)>>]]
  <2>2. ASSUME NEW s \in SUBSET (1..(n + 1)), s # {}
        PROVE  Max(s) \in 1..N /\ s \ {Max(s)} \in SUBSET (1..n)
    <3>1. Max(s) \in s /\ \A y \in s : Max(s) >= y
      <4>1. s \in SUBSET (0..(n + 1)) /\ n + 1 \in Nat
        OBVIOUS
      <4> QED  BY <2>2, <4>1, MaxIsMember
    <3>2. Max(s) \in 1..(n + 1) /\ n + 1 <= N
      BY <3>1
    <3>3. ASSUME NEW y \in s \ {Max(s)}
          PROVE  y \in 1..n
      <4>1. y \in 1..(n + 1) /\ Max(s) >= y /\ y # Max(s)
        BY <3>1
      <4> QED  BY <3>2, <4>1
    <3>4. Max(s) \in 1..N
      BY <3>2
    <3> QED  BY <3>3, <3>4
  <2>3. h \in [SUBSET (1..(n + 1)) -> V]
    <3>1. ASSUME NEW s \in SUBSET (1..(n + 1)), s # {}
          PROVE  g[<<f[s \ {Max(s)}], Max(s)>>] \in V
      <4>1. Max(s) \in 1..N /\ f[s \ {Max(s)}] \in V
        BY <2>2, <3>1
      <4> QED  BY <4>1
    <3> QED  BY <3>1
  <2>4. \A s \in SUBSET (1..n) : h[s] = f[s]
    BY <2>1
  <2>5. Solves(h, n + 1)
    BY <2>2, <2>4
  <2> QED  BY <2>3, <2>5
<1>3. N \in T
  <2> HIDE DEF T
  <2> QED  BY <1>1, <1>2, Induction
<1>4. Solvable(N)
  <2> HIDE DEF Solvable
  <2> QED  BY <1>3
<1> QED  BY <1>4

\* What holds of no index, and of one more when it holds of those before,
\* holds of every prefix.
LEMMA PrefixesStay ==
    ASSUME NEW N \in Nat, NEW V, NEW h, h[1..0] \in V,
           \A n \in 1..N : h[1..(n - 1)] \in V => h[1..n] \in V
    PROVE  \A n \in 0..N : h[1..n] \in V
<1> DEFINE T == {k \in Nat : k <= N => h[1..k] \in V}
<1>1. 0 \in T
  OBVIOUS
<1>2. ASSUME NEW k \in Nat, k \in T
      PROVE  k + 1 \in T
  <2> SUFFICES ASSUME k + 1 <= N
               PROVE  h[1..(k + 1)] \in V
    OBVIOUS
  <2>1. k + 1 \in 1..N /\ (k + 1) - 1 = k /\ h[1..k] \in V
    BY <1>2
  <2>2. h[1..((k + 1) - 1)] \in V
    BY <2>1
  <2> QED  BY <2>1, <2>2
<1>3. Nat \subseteq T
  <2> HIDE DEF T
  <2> QED  BY <1>1, <1>2, Induction
<1> QED  BY <1>3

-----------------------------------------------------------------------------
(* The insertion sort.                                                     *)

\* s with e after its first n elements.
With(s, n, e) ==
    [i \in 1..(Len(s) + 1) |-> IF i <= n THEN s[i] ELSE IF i = n + 1 THEN e ELSE s[i - 1]]

\* Where the sort leaves r: behind the last result it is not higher than.
IsPlace(ranked, n, r) ==
    /\ n > 0 => ~Higher(r.score, ranked[n].score)
    /\ \A i \in (n + 1)..Len(ranked) : Higher(r.score, ranked[i].score)

\* What the community modules insert, index by index.
LEMMA InsertAtIs ==
    ASSUME NEW R, NEW s \in Seq(R), NEW e \in R, NEW n \in 0..Len(s)
    PROVE  InsertAt(s, n + 1, e) = With(s, n, e)
<1> DEFINE front == SubSeq(s, 1, n)
           back == SubSeq(s, n + 1, Len(s))
           most == front \o <<e>>
           whole == most \o back
<1>1. Len(s) \in Nat
  OBVIOUS
<1>2. whole = InsertAt(s, n + 1, e)
  <2>1. (n + 1) - 1 = n
    OBVIOUS
  <2> QED  BY <2>1 DEF InsertAt
<1>3. front \in Seq(R) /\ Len(front) = n /\ \A i \in 1..n : front[i] = s[i]
  BY SubSeqProperties
<1>4. back \in Seq(R) /\ Len(back) = Len(s) - n /\ \A i \in 1..(Len(s) - n) : back[i] = s[n + i]
  BY SubSeqProperties
<1> HIDE DEF front, back
<1>5. most \in Seq(R) /\ Len(most) = n + 1
      /\ \A i \in 1..(n + 1) : most[i] = IF i <= n THEN s[i] ELSE e
  BY <1>3
<1> HIDE DEF most
<1>6. whole \in Seq(R) /\ Len(whole) = Len(s) + 1
      /\ \A i \in 1..(Len(s) + 1) : whole[i] = IF i <= n + 1 THEN most[i] ELSE back[i - (n + 1)]
  <2>1. Len(most) + Len(back) = Len(s) + 1
    BY <1>1, <1>4, <1>5
  <2> QED  BY <1>4, <1>5, <2>1, ConcatProperties
<1> HIDE DEF whole
<1>7. ASSUME NEW i \in 1..(Len(s) + 1)
      PROVE  whole[i] = IF i <= n THEN s[i] ELSE IF i = n + 1 THEN e ELSE s[i - 1]
  <2>1. CASE i <= n + 1
    BY <1>1, <1>5, <1>6, <2>1
  <2>2. CASE i > n + 1
    <3>1. i - (n + 1) \in 1..(Len(s) - n) /\ n + (i - (n + 1)) = i - 1 /\ ~(i <= n) /\ i # n + 1
      BY <1>1, <2>2
    <3>2. whole[i] = back[i - (n + 1)]
      BY <1>1, <1>6, <2>2
    <3>3. back[i - (n + 1)] = s[n + (i - (n + 1))]
      BY <1>4, <3>1
    <3> QED  BY <3>1, <3>2, <3>3
  <2> QED  BY <1>1, <2>1, <2>2
<1>8. whole = [i \in 1..(Len(s) + 1) |-> whole[i]]
  BY <1>6
<1> QED  BY <1>2, <1>7, <1>8 DEF With

\* One turn of the sort puts the result in its place.
LEMMA InsertedIs ==
    ASSUME NEW R, NEW ranked \in Seq(R), NEW r \in R
    PROVE  \E n \in 0..Len(ranked) :
              IsPlace(ranked, n, r) /\ Inserted(ranked, r) = With(ranked, n, r)
<1> DEFINE stops == {0} \union {i \in DOMAIN ranked : ~Higher(r.score, ranked[i].score)}
           n == Max(stops)
<1>1. Len(ranked) \in Nat /\ DOMAIN ranked = 1..Len(ranked)
  OBVIOUS
<1>2. stops \in SUBSET (0..Len(ranked)) /\ stops # {}
  BY <1>1
<1>3. n \in stops /\ \A i \in stops : n >= i
  <2> HIDE DEF stops
  <2> QED  BY <1>1, <1>2, MaxIsMember
<1>4. n \in 0..Len(ranked)
  BY <1>2, <1>3
<1>5. n > 0 => ~Higher(r.score, ranked[n].score)
  BY <1>1, <1>3, <1>4
<1>6. ASSUME NEW i \in (n + 1)..Len(ranked)
      PROVE  Higher(r.score, ranked[i].score)
  <2>1. i \in DOMAIN ranked /\ ~(n >= i)
    BY <1>1, <1>4
  <2> QED  BY <1>3, <2>1
<1>7. Inserted(ranked, r) = InsertAt(ranked, n + 1, r)
  BY DEF Inserted
<1> HIDE DEF n
<1> QED  BY <1>4, <1>5, <1>6, <1>7, InsertAtIs DEF IsPlace

\* One turn of the sort returns a sequence of results.
LEMMA InsertedType ==
    ASSUME NEW R, NEW ranked \in Seq(R), NEW r \in R
    PROVE  Inserted(ranked, r) \in Seq(R)
<1>1. PICK n \in 0..Len(ranked) : Inserted(ranked, r) = With(ranked, n, r)
  BY InsertedIs
<1>2. ASSUME NEW i \in 1..(Len(ranked) + 1)
      PROVE  (IF i <= n THEN ranked[i] ELSE IF i = n + 1 THEN r ELSE ranked[i - 1]) \in R
  <2>1. i <= n => i \in 1..Len(ranked)
    OBVIOUS
  <2>2. ~(i <= n) /\ i # n + 1 => i - 1 \in 1..Len(ranked)
    OBVIOUS
  <2> QED  BY <2>1, <2>2
<1>3. Inserted(ranked, r) \in [1..(Len(ranked) + 1) -> R] /\ Len(ranked) + 1 \in Nat
  BY <1>1, <1>2 DEF With
<1> QED  BY <1>3, SeqDef

\* Ranking goes through the results one at a time.
LEMMA RankedSteps ==
    ASSUME NEW R, NEW results \in Seq(R)
    PROVE  \E f \in [0..Len(results) -> Seq(R)] :
              /\ f[0] = <<>>
              /\ \A n \in 1..Len(results) : f[n] = Inserted(f[n - 1], results[n])
              /\ Ranked(results) = f[Len(results)]
<1> DEFINE N == Len(results)
           Solves(h) == h = [s \in SUBSET (1..N) |->
                               IF s = {} THEN <<>>
                               ELSE Inserted(h[s \ {Max(s)}], results[Max(s)])]
           g == [p \in Seq(R) \X (1..N) |-> Inserted(p[1], results[p[2]])]
           fold == CHOOSE h : Solves(h)
<1>1. N \in Nat /\ DOMAIN results = 1..N /\ \A n \in 1..N : results[n] \in R
  OBVIOUS
<1>2. Ranked(results) = fold[1..N]
  BY <1>1 DEF Ranked, FoldLeft, MapThenFoldSet
<1>3. g \in [Seq(R) \X (1..N) -> Seq(R)]
  BY <1>1, InsertedType
<1>4. \A s \in SUBSET (1..N) : s # {} => Max(s) \in 1..N
  <2> HIDE DEF N
  <2> QED  BY <1>1, MaxOfSome
<1>5. \E h \in [SUBSET (1..N) -> Seq(R)] : Solves(h)
  <2>1. <<>> \in Seq(R)
    OBVIOUS
  <2> HIDE DEF g, N
  <2>2. PICK h \in [SUBSET (1..N) -> Seq(R)] :
           SolvesFold(h, N, <<>>, g)
    BY <1>1, <1>3, <2>1, FoldExists
  <2>3. ASSUME NEW s \in SUBSET (1..N), s # {}
        PROVE  g[<<h[s \ {Max(s)}], Max(s)>>] = Inserted(h[s \ {Max(s)}], results[Max(s)])
    <3>1. h[s \ {Max(s)}] \in Seq(R) /\ Max(s) \in 1..N
      BY <1>4, <2>3
    <3> QED  BY <3>1 DEF g
  <2> QED  BY <2>2, <2>3 DEF SolvesFold
<1>6. Solves(fold)
  <2> HIDE DEF Solves
  <2> QED  BY <1>5
<1> HIDE DEF fold
<1> HIDE DEF N
<1>7. 1..0 = {} /\ fold[1..0] = <<>>
  <2>1. 1..0 = {} /\ {} \in SUBSET (1..N)
    OBVIOUS
  <2> QED  BY <1>6, <2>1
<1>8. ASSUME NEW n \in 1..N
      PROVE  fold[1..n] = Inserted(fold[1..(n - 1)], results[n])
  <2>1. /\ 1..n \in SUBSET (1..N) /\ 1..n # {}
        /\ Max(1..n) = n /\ (1..n) \ {Max(1..n)} = 1..(n - 1)
    BY <1>1, MaxOfInterval
  <2> QED  BY <1>6, <2>1
<1>9. \A n \in 0..N : fold[1..n] \in Seq(R)
  <2>1. fold[1..0] \in Seq(R)
    BY <1>7
  <2>2. \A n \in 1..N : fold[1..(n - 1)] \in Seq(R) => fold[1..n] \in Seq(R)
    BY <1>1, <1>8, InsertedType
  <2> QED  BY <1>1, <2>1, <2>2, PrefixesStay
<1> DEFINE f == [n \in 0..N |-> fold[1..n]]
<1>10. f \in [0..N -> Seq(R)] /\ f[0] = <<>> /\ Ranked(results) = f[N]
  BY <1>1, <1>2, <1>7, <1>9
<1>11. ASSUME NEW n \in 1..N
       PROVE  f[n] = Inserted(f[n - 1], results[n])
  <2>1. n \in 0..N /\ n - 1 \in 0..N
    BY <1>1
  <2> QED  BY <1>8, <2>1
<1> QED  BY <1>10, <1>11 DEF N

-----------------------------------------------------------------------------
(* The order of scores.                                                    *)

\* A score that is a number: finite, or an infinity.
Scores == {x \in [num : Int, den : Nat] : x.den # 0} \union {PosInf, NegInf}

\* Fractions compared by cross-multiplying are ordered.
LEMMA CrossTransitive ==
    ASSUME NEW a \in Int, NEW b \in Nat \ {0}, NEW c \in Int, NEW d \in Nat \ {0},
           NEW e \in Int, NEW f \in Nat \ {0}, a * d <= c * b, c * f <= e * d
    PROVE  a * f <= e * b
<1>1. a * d * f <= c * b * f
  OBVIOUS
<1>2. c * f * b <= e * d * b
  OBVIOUS
<1>3. (a * f) * d <= (e * b) * d
  BY <1>1, <1>2
<1>4. \A x, y \in Int : \A z \in Nat \ {0} : x * z <= y * z => x <= y
  OBVIOUS
<1> QED  BY <1>3, <1>4

\* The comparator, taken apart by its infinities.
LEMMA NotHigher ==
    ASSUME NEW x \in Scores, NEW y \in Scores
    PROVE  ~Higher(x, y) <=> \/ x = NegInf
                             \/ y = PosInf
                             \/ x.den # 0 /\ y.den # 0 /\ x.num * y.den <= y.num * x.den
<1>1. CASE x.den # 0 /\ y.den # 0
  BY <1>1 DEF Scores, Higher, PosInf, NegInf
<1>2. CASE x.den = 0 \/ y.den = 0
  <2>1. x \in {PosInf, NegInf} \/ (x.den \in Nat \ {0} /\ x.num \in Int)
    BY DEF Scores
  <2>2. y \in {PosInf, NegInf} \/ (y.den \in Nat \ {0} /\ y.num \in Int)
    BY DEF Scores
  <2>3. CASE x \in {PosInf, NegInf} /\ y \in {PosInf, NegInf}
    BY <2>3 DEF Higher, PosInf, NegInf
  <2>4. CASE x \in {PosInf, NegInf} /\ y.den \in Nat \ {0} /\ y.num \in Int
    BY <2>4 DEF Higher, PosInf, NegInf
  <2>5. CASE y \in {PosInf, NegInf} /\ x.den \in Nat \ {0} /\ x.num \in Int
    BY <2>5 DEF Higher, PosInf, NegInf
  <2> QED  BY <1>2, <2>1, <2>2, <2>3, <2>4, <2>5
<1> QED  BY <1>1, <1>2 DEF Scores

\* Of two scores at most one is higher.
LEMMA Asymmetric ==
    ASSUME NEW x \in Scores, NEW y \in Scores, Higher(x, y)
    PROVE  ~Higher(y, x)
<1>1. CASE x.den # 0 /\ y.den # 0
  <2>1. x.num * y.den > y.num * x.den
    BY <1>1 DEF Higher, PosInf
  <2> QED  BY <1>1, <2>1, NotHigher DEF Scores
<1>2. CASE x.den = 0
  <2>1. x = PosInf
    BY <1>2, NotHigher DEF Scores
  <2> QED  BY <2>1, NotHigher
<1>3. CASE y.den = 0
  <2>1. y = NegInf
    BY <1>3, NotHigher DEF Scores
  <2> QED  BY <2>1, NotHigher
<1> QED  BY <1>1, <1>2, <1>3

\* A score not higher than a second, itself not higher than a third, is not
\* higher than the third: without NaN the comparator is a strict weak order,
\* which is what sort.SliceStable asks of it.
LEMMA NegativelyTransitive ==
    ASSUME NEW x \in Scores, NEW y \in Scores, NEW z \in Scores,
           ~Higher(x, y), ~Higher(y, z)
    PROVE  ~Higher(x, z)
<1>1. CASE x = NegInf \/ z = PosInf
  BY <1>1, NotHigher
<1>2. CASE x # NegInf /\ z # PosInf
  <2>1. y # NegInf /\ y # PosInf
    BY <1>2, NotHigher DEF PosInf, NegInf
  <2>2. x.den # 0 /\ y.den # 0 /\ z.den # 0
        /\ x.num * y.den <= y.num * x.den /\ y.num * z.den <= z.num * y.den
    BY <1>2, <2>1, NotHigher
  <2>3. x.num * z.den <= z.num * x.den
    <3>1. x.num \in Int /\ y.num \in Int /\ z.num \in Int
          /\ x.den \in Nat \ {0} /\ y.den \in Nat \ {0} /\ z.den \in Nat \ {0}
      BY <2>2 DEF Scores, PosInf, NegInf
    <3> QED  BY <2>2, <3>1, CrossTransitive
  <2> QED  BY <2>2, <2>3, NotHigher
<1> QED  BY <1>1, <1>2

-----------------------------------------------------------------------------
(* The sort sorts.                                                         *)

\* The first n of the results, sorted: a rearrangement in which nothing is
\* higher than what comes before it.
IsRanking(s, results, n) ==
    /\ \E p \in Injection(1..n, 1..n) : s = [i \in 1..n |-> results[p[i]]]
    /\ \A i, j \in 1..n : i < j => ~Higher(s[j].score, s[i].score)

\* One turn of the sort keeps what has been ranked in order.
LEMMA InsertedRanks ==
    ASSUME NEW R, \A r \in R : r.score \in Scores, NEW results \in Seq(R),
           NEW n \in Nat, n < Len(results), NEW s, IsRanking(s, results, n)
    PROVE  IsRanking(Inserted(s, results[n + 1]), results, n + 1)
<1> DEFINE r == results[n + 1]
           t == Inserted(s, r)
<1>1. Len(results) \in Nat /\ n + 1 \in 1..Len(results) /\ r \in R
      /\ \A i \in 1..n : results[i] \in R
  OBVIOUS
<1>2. PICK p \in Injection(1..n, 1..n) : s = [i \in 1..n |-> results[p[i]]]
  BY DEF IsRanking
<1>3. p \in [1..n -> 1..n] /\ \A i, j \in 1..n : p[i] = p[j] => i = j
  BY DEF Injection, IsInjective
<1>4. s \in [1..n -> R]
  BY <1>1, <1>2, <1>3
<1>5. s \in Seq(R) /\ Len(s) = n
  BY <1>4, SeqDef
<1> HIDE DEF r
<1>6. PICK k \in 0..n :
         /\ k > 0 => ~Higher(r.score, s[k].score)
         /\ \A i \in (k + 1)..n : Higher(r.score, s[i].score)
         /\ t = [i \in 1..(n + 1) |->
                    IF i <= k THEN s[i] ELSE IF i = k + 1 THEN r ELSE s[i - 1]]
  <2>1. PICK k \in 0..Len(s) : IsPlace(s, k, r) /\ Inserted(s, r) = With(s, k, r)
    BY <1>1, <1>5, InsertedIs
  <2> QED  BY <1>5, <2>1 DEF IsPlace, With
<1> HIDE DEF t
<1> DEFINE q == [i \in 1..(n + 1) |->
                    IF i <= k THEN p[i] ELSE IF i = k + 1 THEN n + 1 ELSE p[i - 1]]
<1>7. q \in Injection(1..(n + 1), 1..(n + 1))
  <2>1. \A i \in 1..(n + 1) : i <= k => i \in 1..n
    OBVIOUS
  <2>2. \A i \in 1..(n + 1) : ~(i <= k) /\ i # k + 1 => i - 1 \in 1..n
    OBVIOUS
  <2>3. \A i \in 1..n : p[i] \in 1..(n + 1) /\ p[i] # n + 1
    BY <1>3
  <2>4. q \in [1..(n + 1) -> 1..(n + 1)]
    BY <2>1, <2>2, <2>3
  <2>5. ASSUME NEW i \in 1..(n + 1), NEW j \in 1..(n + 1), i < j, q[i] = q[j]
        PROVE  FALSE
    <3>1. CASE j <= k
      BY <1>3, <2>1, <2>5, <3>1
    <3>2. CASE j = k + 1
      BY <2>1, <2>3, <2>5, <3>2
    <3>3. CASE j > k + 1 /\ i <= k
      BY <1>3, <2>1, <2>2, <2>5, <3>3
    <3>4. CASE j > k + 1 /\ i = k + 1
      BY <2>2, <2>3, <2>5, <3>4
    <3>5. CASE j > k + 1 /\ i > k + 1
      BY <1>3, <2>2, <2>5, <3>5
    <3> QED  BY <3>1, <3>2, <3>3, <3>4, <3>5
  <2>6. \A i, j \in 1..(n + 1) : q[i] = q[j] => i = j
    <3> HIDE DEF q
    <3> QED  BY <2>5
  <2> QED  BY <2>4, <2>6 DEF Injection, IsInjective
<1>8. t = [i \in 1..(n + 1) |-> results[q[i]]]
  <2>1. ASSUME NEW i \in 1..(n + 1)
        PROVE  t[i] = results[q[i]]
    <3>1. CASE i <= k
      BY <1>2, <1>6, <3>1
    <3>2. CASE i = k + 1
      BY <1>6, <3>2 DEF r
    <3>3. CASE i > k + 1
      <4>1. i - 1 \in 1..n
        BY <3>3
      <4> QED  BY <1>2, <1>6, <3>3, <4>1
    <3> QED  BY <3>1, <3>2, <3>3
  <2> HIDE DEF q
  <2> QED  BY <1>6, <2>1
<1>9. ASSUME NEW i \in 1..(n + 1), NEW j \in 1..(n + 1), i < j
      PROVE  ~Higher(t[j].score, t[i].score)
  <2>1. r.score \in Scores /\ \A m \in 1..n : s[m].score \in Scores
    BY <1>1, <1>4
  <2>2. \A l, m \in 1..n : l < m => ~Higher(s[m].score, s[l].score)
    BY DEF IsRanking
  <2>3. CASE j <= k
    BY <1>6, <1>9, <2>2, <2>3
  <2>4. CASE j = k + 1
    <3>1. i \in 1..n /\ k \in 1..n /\ t[j] = r /\ t[i] = s[i] /\ ~Higher(r.score, s[k].score)
      BY <1>6, <1>9, <2>4
    <3>2. i = k \/ ~Higher(s[k].score, s[i].score)
      BY <1>9, <2>2, <2>4, <3>1
    <3> QED  BY <2>1, <3>1, <3>2, NegativelyTransitive
  <2>5. CASE j > k + 1 /\ i <= k
    <3>1. i \in 1..n /\ j - 1 \in 1..n /\ i < j - 1 /\ t[j] = s[j - 1] /\ t[i] = s[i]
      BY <1>6, <1>9, <2>5
    <3> QED  BY <2>2, <3>1
  <2>6. CASE j > k + 1 /\ i = k + 1
    <3>1. j - 1 \in 1..n /\ j - 1 \in (k + 1)..n /\ t[j] = s[j - 1] /\ t[i] = r
      BY <1>6, <2>6
    <3>2. Higher(r.score, s[j - 1].score)
      BY <1>6, <3>1
    <3> QED  BY <2>1, <3>1, <3>2, Asymmetric
  <2>7. CASE j > k + 1 /\ i > k + 1
    <3>1. i - 1 \in 1..n /\ j - 1 \in 1..n /\ i - 1 < j - 1 /\ t[j] = s[j - 1] /\ t[i] = s[i - 1]
      BY <1>6, <1>9, <2>7
    <3> QED  BY <2>2, <3>1
  <2> QED  BY <2>3, <2>4, <2>5, <2>6, <2>7
<1> QED  BY <1>7, <1>8, <1>9 DEF IsRanking, t, r

\* The ranking of Search and Query (collection.go: sort.SliceStable) is the
\* results, each once, none higher than one before it: of any number of
\* results, as long as no score is NaN.
THEOREM RankedIsRanking ==
    ASSUME NEW R, \A r \in R : r.score \in Scores, NEW results \in Seq(R)
    PROVE  IsRanking(Ranked(results), results, Len(results))
<1>1. Len(results) \in Nat
  OBVIOUS
<1>2. PICK f \in [0..Len(results) -> Seq(R)] :
         /\ f[0] = <<>>
         /\ \A n \in 1..Len(results) : f[n] = Inserted(f[n - 1], results[n])
         /\ Ranked(results) = f[Len(results)]
  BY RankedSteps
<1> DEFINE T == {n \in Nat : n <= Len(results) => IsRanking(f[n], results, n)}
<1>3. 0 \in T
  <2> DEFINE p == [i \in 1..0 |-> i]
  <2>1. p \in Injection(1..0, 1..0) /\ 1..0 = {}
    BY DEF Injection, IsInjective
  <2>2. <<>> = [i \in 1..0 |-> results[p[i]]]
    OBVIOUS
  <2> HIDE DEF p
  <2> QED  BY <1>2, <2>1, <2>2 DEF IsRanking
<1>4. ASSUME NEW n \in Nat, n \in T
      PROVE  n + 1 \in T
  <2> SUFFICES ASSUME n + 1 <= Len(results)
               PROVE  IsRanking(f[n + 1], results, n + 1)
    OBVIOUS
  <2>1. IsRanking(f[n], results, n) /\ n < Len(results)
    BY <1>1, <1>4
  <2>2. f[n + 1] = Inserted(f[n], results[n + 1])
    BY <1>1, <1>2
  <2> QED  BY <2>1, <2>2, InsertedRanks
<1>5. Nat \subseteq T
  <2> HIDE DEF T
  <2> QED  BY <1>3, <1>4, Induction
<1> QED  BY <1>1, <1>2, <1>5

-----------------------------------------------------------------------------
(* Sums of products.                                                       *)

\* What a sum of products can be.
Sums == {Finite(n) : n \in Int} \union {PosInf, NegInf, NaN}

\* A product is finite or an infinity.
LEMMA ProductType ==
    ASSUME NEW m \in Int, NEW n \in Int
    PROVE  Product(m, n) \in Sums
<1>1. m * n \in Int
  OBVIOUS
<1> QED  BY <1>1 DEF Product, Sums

\* Finite sums add up.
LEMMA PlusFinite ==
    ASSUME NEW m \in Int, NEW n \in Int
    PROVE  Plus(Finite(m), Finite(n)) = Finite(m + n)
BY DEF Plus, Finite

\* A sum with an infinity in it never becomes finite again.
LEMMA PlusInfinite ==
    ASSUME NEW x \in Sums, NEW y \in Sums, x.den = 0 \/ y.den = 0
    PROVE  Plus(x, y) \in {PosInf, NegInf, NaN}
<1>1. CASE x.den = 0 /\ y.den = 0
  <2>1. x \in {PosInf, NegInf, NaN}
    BY <1>1 DEF Sums, Finite
  <2> QED  BY <1>1, <2>1 DEF Plus
<1>2. CASE x.den = 0 /\ y.den # 0
  <2>1. PICK n \in Int : y = Finite(n)
    BY <1>2 DEF Sums, PosInf, NegInf, NaN
  <2>2. x \in {PosInf, NegInf, NaN}
    BY <1>2 DEF Sums, Finite
  <2> QED  BY <2>1, <2>2 DEF Plus, Finite, PosInf, NegInf, NaN
<1>3. CASE x.den # 0 /\ y.den = 0
  <2>1. PICK n \in Int : x = Finite(n)
    BY <1>3 DEF Sums, PosInf, NegInf, NaN
  <2>2. y \in {PosInf, NegInf, NaN}
    BY <1>3 DEF Sums, Finite
  <2> QED  BY <2>1, <2>2 DEF Plus, Finite, PosInf, NegInf, NaN
<1> QED  BY <1>1, <1>2, <1>3

\* A sum of sums is a sum.
LEMMA PlusType ==
    ASSUME NEW x \in Sums, NEW y \in Sums
    PROVE  Plus(x, y) \in Sums
<1>1. CASE x.den = 0 \/ y.den = 0
  BY <1>1, PlusInfinite DEF Sums
<1>2. CASE x.den # 0 /\ y.den # 0
  <2>1. PICK m \in Int : x = Finite(m)
    BY <1>2 DEF Sums, PosInf, NegInf, NaN
  <2>2. PICK n \in Int : y = Finite(n)
    BY <1>2 DEF Sums, PosInf, NegInf, NaN
  <2> QED  BY <2>1, <2>2, PlusFinite, m + n \in Int DEF Sums
<1> QED  BY <1>1, <1>2

\* A dot product goes through the components one at a time.
LEMMA DotSteps ==
    ASSUME NEW a \in Seq(Int), NEW b \in Seq(Int), Len(a) = Len(b)
    PROVE  \E f \in [0..Len(a) -> Sums] :
              /\ f[0] = Finite(0)
              /\ \A n \in 1..Len(a) : f[n] = Plus(f[n - 1], Product(a[n], b[n]))
              /\ Dot(a, b) = f[Len(a)]
<1> DEFINE N == Len(a)
           products == [i \in 1..N |-> Product(a[i], b[i])]
           Solves(h) == h = [s \in SUBSET (1..N) |->
                               IF s = {} THEN Finite(0)
                               ELSE Plus(h[s \ {Max(s)}], products[Max(s)])]
           g == [p \in Sums \X (1..N) |-> Plus(p[1], products[p[2]])]
           fold == CHOOSE h : Solves(h)
<1>1. N \in Nat /\ DOMAIN a = 1..N /\ \A n \in 1..N : products[n] \in Sums
  <2>1. N \in Nat /\ DOMAIN a = 1..N /\ \A n \in 1..N : a[n] \in Int /\ b[n] \in Int
    OBVIOUS
  <2> QED  BY <2>1, ProductType
<1>2. Dot(a, b) = fold[1..N]
  <2>1. Dot(a, b) = FoldLeft(Plus, Finite(0), products)
    BY <1>1 DEF Dot
  <2>2. DOMAIN products = 1..N
    OBVIOUS
  <2> HIDE DEF products
  <2> QED  BY <2>1, <2>2 DEF FoldLeft, MapThenFoldSet
<1> HIDE DEF N, products
<1>3. g \in [Sums \X (1..N) -> Sums]
  BY <1>1, PlusType
<1>4. \A s \in SUBSET (1..N) : s # {} => Max(s) \in 1..N
  BY <1>1, MaxOfSome
<1>5. \E h \in [SUBSET (1..N) -> Sums] : Solves(h)
  <2>1. Finite(0) \in Sums
    BY DEF Sums
  <2> HIDE DEF g
  <2>2. PICK h \in [SUBSET (1..N) -> Sums] : SolvesFold(h, N, Finite(0), g)
    BY <1>1, <1>3, <2>1, FoldExists
  <2>3. ASSUME NEW s \in SUBSET (1..N), s # {}
        PROVE  g[<<h[s \ {Max(s)}], Max(s)>>] = Plus(h[s \ {Max(s)}], products[Max(s)])
    <3>1. h[s \ {Max(s)}] \in Sums /\ Max(s) \in 1..N
      BY <1>4, <2>3
    <3> QED  BY <3>1 DEF g
  <2> QED  BY <2>2, <2>3 DEF SolvesFold
<1>6. Solves(fold)
  <2> HIDE DEF Solves
  <2> QED  BY <1>5
<1> HIDE DEF fold
<1>7. 1..0 = {} /\ fold[1..0] = Finite(0)
  <2>1. 1..0 = {} /\ {} \in SUBSET (1..N)
    OBVIOUS
  <2> QED  BY <1>6, <2>1
<1>8. ASSUME NEW n \in 1..N
      PROVE  fold[1..n] = Plus(fold[1..(n - 1)], products[n])
  <2>1. /\ 1..n \in SUBSET (1..N) /\ 1..n # {}
        /\ Max(1..n) = n /\ (1..n) \ {Max(1..n)} = 1..(n - 1)
    BY <1>1, MaxOfInterval
  <2> QED  BY <1>6, <2>1
<1>9. \A n \in 0..N : fold[1..n] \in Sums
  <2>1. fold[1..0] \in Sums
    BY <1>7 DEF Sums
  <2>2. \A n \in 1..N : fold[1..(n - 1)] \in Sums => fold[1..n] \in Sums
    BY <1>1, <1>8, PlusType
  <2> QED  BY <1>1, <2>1, <2>2, PrefixesStay
<1> DEFINE f == [n \in 0..N |-> fold[1..n]]
<1>10. f \in [0..N -> Sums] /\ f[0] = Finite(0) /\ Dot(a, b) = f[N]
  BY <1>1, <1>2, <1>7, <1>9
<1>11. ASSUME NEW n \in 1..N
       PROVE  f[n] = Plus(f[n - 1], Product(a[n], b[n]))
  <2>1. n \in 0..N /\ n - 1 \in 0..N
    BY <1>1
  <2>2. products[n] = Product(a[n], b[n])
    BY DEF products
  <2> QED  BY <1>8, <2>1, <2>2
<1> QED  BY <1>10, <1>11 DEF N

\* So does a squared distance.
LEMMA L2Steps ==
    ASSUME NEW a \in Seq(Int), NEW b \in Seq(Int), Len(a) = Len(b)
    PROVE  \E f \in [0..Len(a) -> Int] :
              /\ f[0] = 0
              /\ \A n \in 1..Len(a) : f[n] = f[n - 1] + (a[n] - b[n]) * (a[n] - b[n])
              /\ L2Similarity(a, b) = Finite(-f[Len(a)])
<1> DEFINE N == Len(a)
           squares == [i \in 1..N |-> (a[i] - b[i]) * (a[i] - b[i])]
           Solves(h) == h = [s \in SUBSET (1..N) |->
                               IF s = {} THEN 0 ELSE h[s \ {Max(s)}] + squares[Max(s)]]
           g == [p \in Int \X (1..N) |-> p[1] + squares[p[2]]]
           fold == CHOOSE h : Solves(h)
<1>1. N \in Nat /\ DOMAIN a = 1..N /\ \A n \in 1..N : squares[n] \in Int
  OBVIOUS
<1>2. L2Similarity(a, b) = Finite(-fold[1..N])
  <2>1. L2Similarity(a, b) = Finite(-FoldLeft(+, 0, squares))
    BY <1>1 DEF L2Similarity
  <2>2. DOMAIN squares = 1..N
    OBVIOUS
  <2> HIDE DEF squares
  <2>3. FoldLeft(+, 0, squares) = fold[1..N]
    BY <2>2 DEF FoldLeft, MapThenFoldSet
  <2> QED  BY <2>1, <2>3
<1> HIDE DEF N, squares
<1>3. g \in [Int \X (1..N) -> Int]
  BY <1>1
<1>4. \A s \in SUBSET (1..N) : s # {} => Max(s) \in 1..N
  BY <1>1, MaxOfSome
<1>5. \E h \in [SUBSET (1..N) -> Int] : Solves(h)
  <2> HIDE DEF g
  <2>1. PICK h \in [SUBSET (1..N) -> Int] : SolvesFold(h, N, 0, g)
    <3>1. 0 \in Int
      OBVIOUS
    <3> QED  BY <1>1, <1>3, <3>1, FoldExists, Zenon
  <2>2. ASSUME NEW s \in SUBSET (1..N), s # {}
        PROVE  g[<<h[s \ {Max(s)}], Max(s)>>] = h[s \ {Max(s)}] + squares[Max(s)]
    <3>1. h[s \ {Max(s)}] \in Int /\ Max(s) \in 1..N
      BY <1>4, <2>2
    <3> QED  BY <3>1 DEF g
  <2> QED  BY <2>1, <2>2 DEF SolvesFold
<1>6. Solves(fold)
  <2> HIDE DEF Solves
  <2> QED  BY <1>5
<1> HIDE DEF fold
<1>7. 1..0 = {} /\ fold[1..0] = 0
  <2>1. 1..0 = {} /\ {} \in SUBSET (1..N)
    OBVIOUS
  <2> QED  BY <1>6, <2>1
<1>8. ASSUME NEW n \in 1..N
      PROVE  fold[1..n] = fold[1..(n - 1)] + squares[n]
  <2>1. /\ 1..n \in SUBSET (1..N) /\ 1..n # {}
        /\ Max(1..n) = n /\ (1..n) \ {Max(1..n)} = 1..(n - 1)
    BY <1>1, MaxOfInterval
  <2> QED  BY <1>6, <2>1
<1>9. \A n \in 0..N : fold[1..n] \in Int
  <2>1. fold[1..0] \in Int
    BY <1>7
  <2>2. ASSUME NEW n \in 1..N, fold[1..(n - 1)] \in Int
        PROVE  fold[1..n] \in Int
    <3>1. squares[n] \in Int /\ fold[1..n] = fold[1..(n - 1)] + squares[n]
      BY <1>1, <1>8
    <3> QED  BY <2>2, <3>1
  <2> QED  BY <1>1, <2>1, <2>2, PrefixesStay
<1> DEFINE f == [n \in 0..N |-> fold[1..n]]
<1>10. f \in [0..N -> Int] /\ f[0] = 0 /\ L2Similarity(a, b) = Finite(-f[N])
  BY <1>1, <1>2, <1>7, <1>9
<1>11. ASSUME NEW n \in 1..N
       PROVE  f[n] = f[n - 1] + (a[n] - b[n]) * (a[n] - b[n])
  <2>1. n \in 0..N /\ n - 1 \in 0..N
    BY <1>1
  <2>2. squares[n] = (a[n] - b[n]) * (a[n] - b[n])
    BY DEF squares
  <2> QED  BY <1>8, <2>1, <2>2
<1> QED  BY <1>10, <1>11 DEF N

\* d is the sums of the products of a's and b's first components.
IsSum(d, a, b) ==
    /\ d \in [0..Len(a) -> Int] /\ d[0] = 0
    /\ \A n \in 1..Len(a) : d[n] = d[n - 1] + a[n] * b[n]

\* A dot product that ends finite was finite all along.
LEMMA DotFinite ==
    ASSUME NEW a \in Seq(Int), NEW b \in Seq(Int), Len(a) = Len(b), Dot(a, b).den # 0
    PROVE  \E d : IsSum(d, a, b) /\ Dot(a, b) = Finite(d[Len(a)])
<1> DEFINE N == Len(a)
<1>1. N \in Nat /\ \A n \in 1..N : a[n] \in Int /\ b[n] \in Int
  OBVIOUS
<1>2. PICK f \in [0..N -> Sums] :
         /\ f[0] = Finite(0)
         /\ \A n \in 1..N : f[n] = Plus(f[n - 1], Product(a[n], b[n]))
         /\ Dot(a, b) = f[N]
  BY DotSteps
<1> HIDE DEF N
<1>3. \A n \in 1..N : f[n].den # 0 => f[n - 1].den # 0 /\ Product(a[n], b[n]).den # 0
  <2> SUFFICES ASSUME NEW n \in 1..N, f[n - 1].den = 0 \/ Product(a[n], b[n]).den = 0
               PROVE  f[n].den = 0
    OBVIOUS
  <2>1. f[n - 1] \in Sums /\ Product(a[n], b[n]) \in Sums
    <3>1. n - 1 \in 0..N
      BY <1>1
    <3> QED  BY <1>1, <1>2, <3>1, ProductType
  <2>2. f[n] \in {PosInf, NegInf, NaN}
    BY <1>2, <2>1, PlusInfinite
  <2> QED  BY <2>2 DEF PosInf, NegInf, NaN
<1>4. \A n \in 0..N : f[n].den # 0
  <2> DEFINE T == {k \in Nat : k <= N => f[N - k].den # 0}
  <2>1. 0 \in T
    <3>1. N - 0 = N
      BY <1>1
    <3> QED  BY <1>2, <3>1
  <2>2. ASSUME NEW k \in Nat, k \in T
        PROVE  k + 1 \in T
    <3> SUFFICES ASSUME k + 1 <= N
                 PROVE  f[N - (k + 1)].den # 0
      OBVIOUS
    <3>1. N - k \in 1..N /\ (N - k) - 1 = N - (k + 1) /\ k <= N
      BY <1>1
    <3>2. f[N - k].den # 0
      BY <2>2, <3>1
    <3>3. f[(N - k) - 1].den # 0
      BY <1>3, <3>1, <3>2
    <3> QED  BY <3>1, <3>3
  <2>3. Nat \subseteq T
    <3> HIDE DEF T
    <3> QED  BY <2>1, <2>2, Induction
  <2>4. \A n \in 0..N : N - n \in Nat /\ N - n <= N /\ N - (N - n) = n
    BY <1>1
  <2> QED  BY <2>3, <2>4
<1>5. \A x \in Sums : x.den # 0 => x.num \in Int /\ x = Finite(x.num)
  BY DEF Sums, Finite, PosInf, NegInf, NaN
<1> DEFINE d == [n \in 0..N |-> f[n].num]
<1>6. \A n \in 0..N : d[n] \in Int /\ f[n] = Finite(d[n])
  BY <1>2, <1>4, <1>5
<1>7. d[0] = 0
  BY <1>1, <1>2 DEF Finite
<1>8. ASSUME NEW n \in 1..N
      PROVE  d[n] = d[n - 1] + a[n] * b[n]
  <2>1. n \in 0..N /\ n - 1 \in 0..N /\ a[n] * b[n] \in Int
    BY <1>1
  <2>2. Product(a[n], b[n]).den # 0
    BY <1>3, <1>4, <2>1
  <2>3. Product(a[n], b[n]) = Finite(a[n] * b[n])
    BY <2>2 DEF Product, PosInf, NegInf
  <2>4. f[n] = Finite(d[n - 1] + a[n] * b[n])
    <3>1. f[n] = Plus(Finite(d[n - 1]), Finite(a[n] * b[n])) /\ d[n - 1] \in Int
      BY <1>2, <1>6, <2>1, <2>3
    <3> HIDE DEF d
    <3> QED  BY <2>1, <3>1, PlusFinite
  <2> QED  BY <1>6, <2>1, <2>4 DEF Finite
<1>9. IsSum(d, a, b) /\ Dot(a, b) = Finite(d[N])
  <2>1. d \in [0..N -> Int]
    BY <1>6
  <2>2. Dot(a, b) = Finite(d[N])
    BY <1>1, <1>2, <1>6
  <2> HIDE DEF d
  <2> QED  BY <1>7, <1>8, <2>1, <2>2 DEF IsSum, N
<1> QED  BY <1>9 DEF N

-----------------------------------------------------------------------------
(* The inequality of Cauchy and Schwarz.                                   *)

\* A square is not negative.
LEMMA SquareIsNat ==
    ASSUME NEW m \in Int
    PROVE  m * m \in Nat
<1>1. CASE m >= 0
  BY <1>1
<1>2. CASE m < 0
  <2>1. m * m = (-m) * (-m) /\ -m \in Nat
    BY <1>2
  <2> QED  BY <2>1
<1> QED  BY <1>1, <1>2

\* The squares of a add up to at least each of them.
LEMMA SquaresAdd ==
    ASSUME NEW a \in Seq(Int), NEW d, IsSum(d, a, a)
    PROVE  d[Len(a)] \in Nat /\ \A i \in 1..Len(a) : a[i] * a[i] <= d[Len(a)]
<1>1. Len(a) \in Nat /\ \A n \in 1..Len(a) : a[n] \in Int
  OBVIOUS
<1> DEFINE T == {n \in Nat : n <= Len(a) =>
                                d[n] \in Nat /\ \A i \in 1..n : a[i] * a[i] <= d[n]}
<1>2. 0 \in T
  BY DEF IsSum
<1>3. ASSUME NEW n \in Nat, n \in T
      PROVE  n + 1 \in T
  <2> SUFFICES ASSUME n + 1 <= Len(a)
               PROVE  d[n + 1] \in Nat /\ \A i \in 1..(n + 1) : a[i] * a[i] <= d[n + 1]
    OBVIOUS
  <2>1. n + 1 \in 1..Len(a) /\ n <= Len(a) /\ (n + 1) - 1 = n
    BY <1>1
  <2>2. d[n] \in Nat /\ \A i \in 1..n : a[i] * a[i] <= d[n]
    BY <1>3, <2>1
  <2>3. d[n + 1] = d[n] + a[n + 1] * a[n + 1]
    BY <2>1 DEF IsSum
  <2>4. a[n + 1] * a[n + 1] \in Nat
    BY <1>1, <2>1, SquareIsNat
  <2>5. ASSUME NEW i \in 1..(n + 1)
        PROVE  a[i] * a[i] <= d[n + 1]
    <3>1. CASE i = n + 1
      BY <2>2, <2>3, <2>4, <3>1
    <3>2. CASE i \in 1..n
      <4>1. a[i] * a[i] \in Nat
        BY <1>1, <2>1, <3>2, SquareIsNat
      <4> QED  BY <2>2, <2>3, <2>4, <3>2, <4>1
    <3> QED  BY <3>1, <3>2
  <2> QED  BY <2>2, <2>3, <2>4, <2>5
<1>4. Nat \subseteq T
  <2> HIDE DEF T
  <2> QED  BY <1>2, <1>3, Induction
<1> QED  BY <1>1, <1>4

\* The squared length of p times one vector plus q times another, whose
\* squared lengths are A and B and whose product is D.
Form(p, q, A, D, B) == p * p * A + 2 * p * q * D + q * q * B

\* One more component leaves the squared length of the sum non-negative.
LEMMA FormGrows ==
    ASSUME NEW p \in Int, NEW q \in Int, NEW x \in Int, NEW y \in Int,
           NEW A \in Int, NEW D \in Int, NEW B \in Int, Form(p, q, A, D, B) >= 0
    PROVE  Form(p, q, A + x * x, D + x * y, B + y * y) >= 0
<1>1. Form(p, q, A + x * x, D + x * y, B + y * y)
      = Form(p, q, A, D, B) + (p * x + q * y) * (p * x + q * y)
  BY DEF Form
<1>2. p * x + q * y \in Int /\ Form(p, q, A, D, B) \in Int
  BY DEF Form
<1>3. (p * x + q * y) * (p * x + q * y) \in Nat
  BY <1>2, SquareIsNat
<1> QED  BY <1>1, <1>2, <1>3

\* Where the squared length is least.
LEMMA FormAtItsMinimum ==
    ASSUME NEW A \in Int, NEW D \in Int, NEW B \in Int
    PROVE  Form(B, -D, A, D, B) = B * (A * B - D * D)
BY DEF Form

\* The square of a dot product is at most the product of the norms.
LEMMA CauchySchwarz ==
    ASSUME NEW a \in Seq(Int), NEW b \in Seq(Int), Len(a) = Len(b),
           NEW dA, NEW dB, NEW dAB, IsSum(dA, a, a), IsSum(dB, b, b), IsSum(dAB, a, b),
           dB[Len(b)] # 0
    PROVE  dAB[Len(a)] * dAB[Len(a)] <= dA[Len(a)] * dB[Len(a)]
<1> DEFINE N == Len(a)
           p == dB[N]
           q == -dAB[N]
           Positive(n) == Form(p, q, dA[n], dAB[n], dB[n]) >= 0
           T == {n \in Nat : n <= N => Positive(n)}
<1>1. N \in Nat /\ N = Len(b) /\ \A n \in 1..N : a[n] \in Int /\ b[n] \in Int
  OBVIOUS
<1>2. \A n \in 0..N : dA[n] \in Int /\ dB[n] \in Int /\ dAB[n] \in Int
  BY DEF IsSum
<1>3. p \in Nat /\ p # 0
  BY <1>1, SquaresAdd
<1>4. dA[N] \in Int /\ dAB[N] \in Int /\ q \in Int /\ p \in Int
  BY <1>1, <1>2
<1> HIDE DEF N, p, q
<1>5. 0 \in T
  BY <1>1, <1>4 DEF IsSum, N, Form
<1>6. ASSUME NEW n \in Nat, n \in T
      PROVE  n + 1 \in T
  <2> SUFFICES ASSUME n + 1 <= N
               PROVE  Positive(n + 1)
    OBVIOUS
  <2>1. n + 1 \in 1..N /\ n \in 0..N /\ (n + 1) - 1 = n /\ n <= N
    BY <1>1
  <2>2. /\ dA[n + 1] = dA[n] + a[n + 1] * a[n + 1]
        /\ dB[n + 1] = dB[n] + b[n + 1] * b[n + 1]
        /\ dAB[n + 1] = dAB[n] + a[n + 1] * b[n + 1]
    BY <1>1, <2>1 DEF IsSum, N
  <2>3. Positive(n)
    BY <1>6, <2>1
  <2>4. /\ a[n + 1] \in Int /\ b[n + 1] \in Int
        /\ dA[n] \in Int /\ dAB[n] \in Int /\ dB[n] \in Int
    BY <1>1, <1>2, <2>1
  <2> QED  BY <1>4, <2>2, <2>3, <2>4, FormGrows
<1>7. Positive(N)
  <2> HIDE DEF T
  <2>1. Nat \subseteq T
    BY <1>5, <1>6, Induction
  <2> QED  BY <1>1, <2>1 DEF T
<1>8. p * (dA[N] * p - dAB[N] * dAB[N]) >= 0
  <2>1. Form(p, -dAB[N], dA[N], dAB[N], p) >= 0
    BY <1>7 DEF p, q
  <2> QED  BY <1>4, <2>1, FormAtItsMinimum
<1>9. \A z \in Int : \A y \in Nat : y # 0 /\ y * z >= 0 => z >= 0
  OBVIOUS
<1>10. dA[N] * p - dAB[N] * dAB[N] >= 0
  <2>1. dA[N] * p - dAB[N] * dAB[N] \in Int
    BY <1>4
  <2> QED  BY <1>3, <1>8, <1>9, <2>1
<1>11. dAB[N] * dAB[N] <= dA[N] * p
  BY <1>4, <1>10
<1> QED  BY <1>11 DEF N, p

-----------------------------------------------------------------------------
(* Similarities.                                                           *)

\* The dot product of two vectors of one length is a sum.
LEMMA SumsOfOneLength ==
    ASSUME NEW a \in Seq(Int), NEW b \in Seq(Int), Len(a) = Len(b)
    PROVE  Dot(a, b) \in Sums
<1>1. Len(a) \in 0..Len(a)
  OBVIOUS
<1> QED  BY <1>1, DotSteps

\* A finite sum is a number.
LEMMA FiniteSum ==
    ASSUME NEW x \in Sums, x.den # 0
    PROVE  x.den = 1 /\ x.num \in Int /\ x = Finite(x.num)
BY DEF Sums, Finite, PosInf, NegInf, NaN

\* A norm that did not overflow.
LEMMA NormIs ==
    ASSUME NEW a \in Seq(Int), Dot(a, a).den # 0
    PROVE  /\ Dot(a, a).den = 1 /\ Dot(a, a).num \in Nat
           /\ \A i \in 1..Len(a) : a[i] * a[i] <= Dot(a, a).num
<1>1. PICK d : IsSum(d, a, a) /\ Dot(a, a) = Finite(d[Len(a)])
  BY DotFinite
<1>2. Dot(a, a).den = 1 /\ Dot(a, a).num = d[Len(a)]
  BY <1>1 DEF Finite
<1> QED  BY <1>1, <1>2, SquaresAdd

\* No distance is negative, and the distance to itself is zero.
LEMMA L2IsNegated ==
    ASSUME NEW a \in Seq(Int), NEW b \in Seq(Int), Len(a) = Len(b)
    PROVE  \E n \in Nat : L2Similarity(a, b) = Finite(-n) /\ (a = b => n = 0)
<1>1. Len(a) \in Nat /\ \A n \in 1..Len(a) : a[n] \in Int /\ b[n] \in Int
  OBVIOUS
<1>2. PICK f \in [0..Len(a) -> Int] :
         /\ f[0] = 0
         /\ \A n \in 1..Len(a) : f[n] = f[n - 1] + (a[n] - b[n]) * (a[n] - b[n])
         /\ L2Similarity(a, b) = Finite(-f[Len(a)])
  BY L2Steps
<1> DEFINE T == {n \in Nat : n <= Len(a) => f[n] \in Nat /\ (a = b => f[n] = 0)}
<1>3. 0 \in T
  BY <1>2
<1>4. ASSUME NEW n \in Nat, n \in T
      PROVE  n + 1 \in T
  <2> SUFFICES ASSUME n + 1 <= Len(a)
               PROVE  f[n + 1] \in Nat /\ (a = b => f[n + 1] = 0)
    OBVIOUS
  <2>1. n + 1 \in 1..Len(a) /\ n <= Len(a) /\ (n + 1) - 1 = n
    BY <1>1
  <2>2. f[n] \in Nat /\ (a = b => f[n] = 0)
    BY <1>4, <2>1
  <2> DEFINE z == a[n + 1] - b[n + 1]
  <2>3. z \in Int /\ (a = b => z = 0)
    BY <1>1, <2>1
  <2>4. f[n + 1] = f[n] + z * z
    BY <1>2, <2>1
  <2> HIDE DEF z
  <2>5. z * z \in Nat /\ (a = b => z * z = 0)
    BY <2>3, SquareIsNat
  <2> QED  BY <2>2, <2>4, <2>5
<1>5. Nat \subseteq T
  <2> HIDE DEF T
  <2> QED  BY <1>3, <1>4, Induction
<1>6. f[Len(a)] \in Nat /\ (a = b => f[Len(a)] = 0)
  BY <1>1, <1>5
<1> QED  BY <1>2, <1>6

\* A similarity that is no NaN is a score the comparator orders.
LEMMA SimilarityIsScore ==
    ASSUME NEW a \in Seq(Int), NEW b \in Seq(Int), NEW metric, Similarity(a, b, metric) # NaN
    PROVE  Similarity(a, b, metric) \in Scores
<1>1. \A n \in Int : Finite(n) \in Scores
  BY DEF Finite, Scores
<1>2. CASE Len(a) # Len(b)
  BY <1>2 DEF Similarity, Scores
<1>3. CASE Len(a) = Len(b) /\ metric = "IP"
  <2>1. Similarity(a, b, metric) = Dot(a, b)
    BY <1>3 DEF Similarity
  <2>2. Dot(a, b) \in Sums
    BY <1>3, SumsOfOneLength
  <2> QED  BY <1>1, <2>1, <2>2 DEF Sums, Scores
<1>4. CASE Len(a) = Len(b) /\ metric = "L2"
  <2>1. Similarity(a, b, metric) = L2Similarity(a, b)
    BY <1>4 DEF Similarity
  <2>2. PICK n \in Nat : L2Similarity(a, b) = Finite(-n)
    BY <1>4, L2IsNegated
  <2>3. -n \in Int
    OBVIOUS
  <2> QED  BY <1>1, <2>1, <2>2, <2>3
<1>5. CASE Len(a) = Len(b) /\ metric # "IP" /\ metric # "L2"
  <2> DEFINE dot == Dot(a, b)
             normA == Dot(a, a)
             normB == Dot(b, b)
  <2>1. Similarity(a, b, metric) = CosineSimilarity(a, b)
    BY <1>5 DEF Similarity
  <2>2. CASE Finite(0) \in {normA, normB} \/ (dot.den # 0 /\ 0 \in {normA.den, normB.den})
    <3>1. CosineSimilarity(a, b) = Finite(0)
      BY <2>2 DEF CosineSimilarity
    <3> QED  BY <1>1, <2>1, <3>1
  <2>3. CASE Finite(0) \notin {normA, normB} /\ dot.den = 0
    <3>1. CosineSimilarity(a, b) = NaN
      BY <2>3 DEF CosineSimilarity
    <3> QED  BY <2>1, <3>1
  <2>4. CASE Finite(0) \notin {normA, normB} /\ dot.den # 0 /\ 0 \notin {normA.den, normB.den}
    <3>1. CosineSimilarity(a, b) = [num |-> dot.num * Abs(dot.num), den |-> normA.num * normB.num]
      BY <2>4 DEF CosineSimilarity
    <3>2. dot \in Sums /\ normA \in Sums /\ normB \in Sums
      BY <1>5, SumsOfOneLength
    <3>3. normA.num \in Nat /\ normB.num \in Nat /\ dot.num \in Int
      BY <2>4, <3>2, NormIs, FiniteSum
    <3>4. normA.num # 0 /\ normB.num # 0
      BY <2>4, <3>2, FiniteSum
    <3> HIDE DEF dot, normA, normB
    <3>5. normA.num * normB.num \in Nat \ {0} /\ dot.num * Abs(dot.num) \in Int
      BY <3>3, <3>4 DEF Abs
    <3> QED  BY <2>1, <3>1, <3>5 DEF Scores
  <2> QED  BY <2>2, <2>3, <2>4
<1> QED  BY <1>2, <1>3, <1>4, <1>5

\* A cosine whose square is at most one is no higher than one.
LEMMA SquareOverProduct ==
    ASSUME NEW D \in Int, NEW A \in Nat \ {0}, NEW B \in Nat \ {0}, D * D <= A * B
    PROVE  ~Higher([num |-> D * Abs(D), den |-> A * B], [num |-> A * Abs(A), den |-> A * A])
<1>1. D * Abs(D) <= A * B
  BY DEF Abs
<1>2. A * A \in Nat /\ A * B \in Nat /\ D * Abs(D) \in Int /\ Abs(A) = A
  BY DEF Abs
<1>3. \A x, y \in Int : \A z \in Nat : x <= y => x * z <= y * z
  OBVIOUS
<1>4. (D * Abs(D)) * (A * A) <= (A * B) * (A * A)
  BY <1>1, <1>2, <1>3
<1>5. (A * B) * (A * A) = (A * A) * (A * B)
  BY <1>2
<1>6. [num |-> D * Abs(D), den |-> A * B] # PosInf
  BY DEF PosInf
<1> HIDE DEF Abs
<1> QED  BY <1>2, <1>4, <1>5, <1>6 DEF Higher

\* Whatever overflows, nothing is more similar to a vector than itself, by
\* distance or by angle.
LEMMA NothingCloser ==
    ASSUME NEW a \in Seq(Int), NEW b \in Seq(Int), NEW metric, metric # "IP",
           metric # "L2" => \E i \in DOMAIN a : a[i] # 0
    PROVE  ~Higher(Similarity(a, b, metric), Similarity(a, a, metric))
<1>1. CASE metric = "L2"
  <2>1. PICK n \in Nat : L2Similarity(a, a) = Finite(-n) /\ n = 0
    BY L2IsNegated
  <2>2. Similarity(a, a, metric) = Finite(0)
    BY <1>1, <2>1 DEF Similarity
  <2>3. CASE Len(a) # Len(b)
    <3>1. Similarity(a, b, metric) = NegInf
      BY <2>3 DEF Similarity
    <3> QED  BY <2>2, <3>1 DEF Higher, Finite, NegInf, PosInf
  <2>4. CASE Len(a) = Len(b)
    <3>1. PICK m \in Nat : L2Similarity(a, b) = Finite(-m)
      BY <2>4, L2IsNegated
    <3>2. Similarity(a, b, metric) = Finite(-m)
      BY <1>1, <2>4, <3>1 DEF Similarity
    <3> QED  BY <2>2, <3>2 DEF Higher, Finite, NegInf, PosInf
  <2> QED  BY <2>3, <2>4
<1>2. CASE metric # "L2"
  <2> DEFINE dot == Dot(a, b)
             normA == Dot(a, a)
             normB == Dot(b, b)
             self == CosineSimilarity(a, a)
             other == CosineSimilarity(a, b)
  <2>1. Similarity(a, a, metric) = self
    BY <1>2 DEF Similarity
  <2>2. ~Higher(Similarity(a, b, metric), NaN)
    <3>1. Similarity(a, b, metric).num \in Int /\ Similarity(a, b, metric).den \in Int
      BY SimilarityIsScore DEF Scores, PosInf, NegInf, NaN
    <3> QED  BY <3>1 DEF Higher, NaN, NegInf
  <2>3. CASE normA.den = 0
    <3>1. normA # Finite(0)
      BY <2>3 DEF Finite
    <3>2. self = NaN
      BY <2>3, <3>1 DEF CosineSimilarity
    <3> QED  BY <2>1, <2>2, <3>2
  <2>4. CASE normA.den # 0
    <3>1. PICK i \in 1..Len(a) : a[i] # 0 /\ a[i] \in Int
      BY <1>2
    <3>2. normA.den = 1 /\ normA.num \in Nat \ {0} /\ normA # Finite(0)
      <4>1. a[i] * a[i] <= normA.num /\ normA.num \in Nat /\ normA.den = 1
        BY <2>4, <3>1, NormIs
      <4>2. a[i] * a[i] \in Nat /\ a[i] * a[i] # 0
        BY <3>1, SquareIsNat
      <4> QED  BY <4>1, <4>2 DEF Finite
    <3>3. self = [num |-> normA.num * Abs(normA.num), den |-> normA.num * normA.num]
      BY <3>2 DEF CosineSimilarity
    <3> DEFINE num == normA.num * Abs(normA.num)
               den == normA.num * normA.num
    <3>4. num \in Nat \ {0} /\ den \in Nat \ {0}
      BY <3>2 DEF Abs
    <3>5. self = [num |-> num, den |-> den]
      BY <3>3
    <3> HIDE DEF num, den, self
    <3>6. CASE Len(a) # Len(b)
      <4>1. Similarity(a, b, metric) = NegInf
        BY <3>6 DEF Similarity
      <4> QED  BY <2>1, <3>4, <3>5, <4>1 DEF Higher, NegInf, PosInf
    <3>7. CASE Len(a) = Len(b)
      <4>1. Similarity(a, b, metric) = other
        BY <1>2, <3>7 DEF Similarity
      <4>2. CASE normB = Finite(0) \/ (dot.den # 0 /\ normB.den = 0)
        <5>1. other = Finite(0)
          BY <4>2 DEF CosineSimilarity
        <5> QED  BY <2>1, <3>4, <3>5, <4>1, <5>1 DEF Higher, Finite, PosInf
      <4>3. CASE normB # Finite(0) /\ dot.den = 0
        <5>1. other = NaN
          BY <3>2, <4>3 DEF CosineSimilarity
        <5> QED  BY <2>1, <3>4, <3>5, <4>1, <5>1 DEF Higher, NaN, PosInf
      <4>4. CASE normB # Finite(0) /\ dot.den # 0 /\ normB.den # 0
        <5>1. other = [num |-> dot.num * Abs(dot.num), den |-> normA.num * normB.num]
          BY <3>2, <4>4 DEF CosineSimilarity
        <5>2. PICK dA : IsSum(dA, a, a) /\ normA = Finite(dA[Len(a)])
          BY <2>4, DotFinite
        <5>3. PICK dB : IsSum(dB, b, b) /\ normB = Finite(dB[Len(b)])
          BY <4>4, DotFinite
        <5>4. PICK dAB : IsSum(dAB, a, b) /\ dot = Finite(dAB[Len(a)])
          BY <3>7, <4>4, DotFinite
        <5>5. dB[Len(b)] # 0 /\ dB[Len(b)] \in Nat
          BY <4>4, <5>3, SquaresAdd
        <5>6. dAB[Len(a)] * dAB[Len(a)] <= dA[Len(a)] * dB[Len(a)]
          BY <3>7, <5>2, <5>3, <5>4, <5>5, CauchySchwarz
        <5>7. normA.num = dA[Len(a)] /\ normB.num = dB[Len(a)] /\ dot.num = dAB[Len(a)]
          BY <3>7, <5>2, <5>3, <5>4 DEF Finite
        <5>8. dot.num \in Int
          <6>1. Len(a) \in 0..Len(a)
            OBVIOUS
          <6> QED  BY <5>4, <5>7, <6>1 DEF IsSum
        <5>9. normB.num \in Nat \ {0} /\ dot.num * dot.num <= normA.num * normB.num
          BY <3>7, <5>5, <5>6, <5>7
        <5>10. ~Higher(other, self)
          BY <3>2, <3>3, <5>1, <5>8, <5>9, SquareOverProduct
        <5> QED  BY <2>1, <4>1, <5>10
      <4> QED  BY <4>2, <4>3, <4>4
    <3> QED  BY <3>6, <3>7
  <2> QED  BY <2>3, <2>4
<1> QED  BY <1>1, <1>2

\* Vectors whose components have squares that do not overflow.
Small(a) == \A i \in DOMAIN a : a[i] * a[i] < Overflow

\* The product of two numbers with small squares does not overflow.
LEMMA ProductOfSmall ==
    ASSUME Overflow \in Nat, NEW m \in Int, NEW n \in Int, m * m < Overflow, n * n < Overflow
    PROVE  Product(m, n) = Finite(m * n)
<1>1. (m - n) * (m - n) \in Nat /\ (m + n) * (m + n) \in Nat
  BY SquareIsNat, m - n \in Int, m + n \in Int
<1>2. (m - n) * (m - n) = m * m + n * n - 2 * (m * n)
  OBVIOUS
<1>3. (m + n) * (m + n) = m * m + n * n + 2 * (m * n)
  OBVIOUS
<1>4. m * m \in Int /\ n * n \in Int /\ m * n \in Int
  OBVIOUS
<1>5. 2 * (m * n) < 2 * Overflow /\ -(2 * (m * n)) < 2 * Overflow
  BY <1>1, <1>2, <1>3, <1>4
<1>6. ~(m * n >= Overflow) /\ ~(-(m * n) >= Overflow)
  BY <1>4, <1>5
<1> QED  BY <1>6 DEF Product

\* Nor does the dot product of small vectors.
LEMMA DotOfSmall ==
    ASSUME Overflow \in Nat, NEW a \in Seq(Int), NEW b \in Seq(Int), Len(a) = Len(b),
           Small(a), Small(b)
    PROVE  Dot(a, b).den # 0
<1>1. Len(a) \in Nat /\ \A n \in 1..Len(a) : a[n] \in Int /\ b[n] \in Int
  OBVIOUS
<1>2. PICK f \in [0..Len(a) -> Sums] :
         /\ f[0] = Finite(0)
         /\ \A n \in 1..Len(a) : f[n] = Plus(f[n - 1], Product(a[n], b[n]))
         /\ Dot(a, b) = f[Len(a)]
  BY DotSteps
<1> DEFINE T == {n \in Nat : n <= Len(a) => \E m \in Int : f[n] = Finite(m)}
<1>3. 0 \in T
  BY <1>2
<1>4. ASSUME NEW n \in Nat, n \in T
      PROVE  n + 1 \in T
  <2> SUFFICES ASSUME n + 1 <= Len(a)
               PROVE  \E m \in Int : f[n + 1] = Finite(m)
    OBVIOUS
  <2>1. n + 1 \in 1..Len(a) /\ n <= Len(a) /\ (n + 1) - 1 = n
    BY <1>1
  <2>2. PICK m \in Int : f[n] = Finite(m)
    BY <1>4, <2>1
  <2>3. a[n + 1] \in Int /\ b[n + 1] \in Int
        /\ a[n + 1] * a[n + 1] < Overflow /\ b[n + 1] * b[n + 1] < Overflow
    <3>1. n + 1 \in DOMAIN a /\ n + 1 \in DOMAIN b
      BY <2>1
    <3> QED  BY <1>1, <2>1, <3>1 DEF Small
  <2>4. Product(a[n + 1], b[n + 1]) = Finite(a[n + 1] * b[n + 1])
    BY <2>3, ProductOfSmall
  <2>5. a[n + 1] * b[n + 1] \in Int
    BY <2>3
  <2>6. f[n + 1] = Plus(Finite(m), Finite(a[n + 1] * b[n + 1]))
    BY <1>2, <2>1, <2>2, <2>4
  <2>7. \A z \in Int : Plus(Finite(m), Finite(z)) = Finite(m + z) /\ m + z \in Int
    BY PlusFinite
  <2> QED  BY <2>5, <2>6, <2>7
<1>5. Nat \subseteq T
  <2> HIDE DEF T
  <2> QED  BY <1>3, <1>4, Induction
<1>6. \E m \in Int : Dot(a, b) = Finite(m)
  BY <1>1, <1>2, <1>5
<1> QED  BY <1>6 DEF Finite

\* Vectors whose components have squares that do not overflow are compared
\* without NaN, whichever the metric.
LEMMA SmallCompare ==
    ASSUME Overflow \in Nat, NEW a \in Seq(Int), NEW b \in Seq(Int), Small(a), Small(b), NEW metric
    PROVE  Similarity(a, b, metric) # NaN
<1>1. CASE Len(a) # Len(b)
  BY <1>1 DEF Similarity, NegInf, NaN
<1>2. CASE Len(a) = Len(b)
  <2>1. Dot(a, b).den # 0 /\ Dot(a, a).den # 0 /\ Dot(b, b).den # 0
    BY <1>2, DotOfSmall
  <2>2. CASE metric = "IP"
    BY <1>2, <2>1, <2>2 DEF Similarity, NaN
  <2>3. CASE metric = "L2"
    <3>1. PICK n \in Nat : L2Similarity(a, b) = Finite(-n)
      BY <1>2, L2IsNegated
    <3> QED  BY <1>2, <2>3, <3>1 DEF Similarity, Finite, NaN
  <2>4. CASE metric # "IP" /\ metric # "L2"
    <3>1. Similarity(a, b, metric) = CosineSimilarity(a, b)
      BY <1>2, <2>4 DEF Similarity
    <3>2. CASE Finite(0) \in {Dot(a, a), Dot(b, b)}
      <4>1. CosineSimilarity(a, b) = Finite(0)
        BY <3>2 DEF CosineSimilarity
      <4> QED  BY <3>1, <4>1 DEF Finite, NaN
    <3>3. CASE Finite(0) \notin {Dot(a, a), Dot(b, b)}
      <4>1. CosineSimilarity(a, b).den = Dot(a, a).num * Dot(b, b).num
        BY <2>1, <3>3 DEF CosineSimilarity
      <4>2. Dot(a, a).num \in Nat \ {0} /\ Dot(b, b).num \in Nat \ {0}
        <5>1. Dot(a, a) \in Sums /\ Dot(b, b) \in Sums
          BY SumsOfOneLength
        <5> QED  BY <2>1, <3>3, <5>1, NormIs, FiniteSum
      <4>3. Dot(a, a).num * Dot(b, b).num # 0
        BY <4>2
      <4> QED  BY <3>1, <4>1, <4>3 DEF NaN
    <3> QED  BY <3>2, <3>3
  <2> QED  BY <2>2, <2>3, <2>4
<1> QED  BY <1>1, <1>2

-----------------------------------------------------------------------------
(* The listing in order.                                                   *)

\* The place of x among the members of S.
Rank(S, x) == Cardinality({y \in S : y <= x})

\* Members are ranked from one to their number, in their order.
LEMMA RankMonotone ==
    ASSUME NEW S \in SUBSET Nat, IsFiniteSet(S), NEW x \in S
    PROVE  /\ Rank(S, x) \in 1..Cardinality(S)
           /\ \A y \in S : x < y => Rank(S, x) < Rank(S, y)
<1> DEFINE Upto(y) == {z \in S : z <= y}
<1>1. \A y \in S : IsFiniteSet(Upto(y)) /\ Cardinality(Upto(y)) \in Nat
                   /\ Cardinality(Upto(y)) <= Cardinality(S)
  <2> SUFFICES ASSUME NEW y \in S
               PROVE  IsFiniteSet(Upto(y)) /\ Cardinality(Upto(y)) \in Nat
                      /\ Cardinality(Upto(y)) <= Cardinality(S)
    OBVIOUS
  <2>1. Upto(y) \in SUBSET S
    OBVIOUS
  <2> HIDE DEF Upto
  <2> QED  BY <2>1, FS_Subset, FS_CardinalityType
<1>2. Cardinality(S) \in Nat
  BY FS_CardinalityType
<1>3. Cardinality(Upto(x)) # 0
  <2>1. x \in Upto(x)
    OBVIOUS
  <2> HIDE DEF Upto
  <2> QED  BY <1>1, <2>1, FS_EmptySet
<1>4. ASSUME NEW y \in S, x < y
      PROVE  Cardinality(Upto(x)) < Cardinality(Upto(y))
  <2>0. x \in Nat /\ y \in Nat
    OBVIOUS
  <2>a. ASSUME NEW z \in Upto(x)
        PROVE  z \in Upto(y)
    <3>1. z \in S /\ z \in Nat /\ z <= x
      OBVIOUS
    <3>2. z <= y
      BY <1>4, <2>0, <3>1
    <3> QED  BY <3>1, <3>2
  <2>b. y \in Upto(y)
    BY <2>0
  <2>c. y \notin Upto(x)
    BY <1>4, <2>0
  <2>1. Upto(x) \in SUBSET Upto(y) /\ y \in Upto(y) /\ y \notin Upto(x)
    <3> HIDE DEF Upto
    <3> QED  BY <2>a, <2>b, <2>c
  <2> HIDE DEF Upto
  <2>2. Cardinality(Upto(x)) <= Cardinality(Upto(y)) /\ Cardinality(Upto(x)) # Cardinality(Upto(y))
    BY <1>1, <2>1, FS_Subset
  <2> QED  BY <1>1, <2>2
<1> QED  BY <1>1, <1>2, <1>3, <1>4 DEF Rank

\* A finite set of numbers can be listed in order.
LEMMA SortedExists ==
    ASSUME NEW S \in SUBSET Nat, IsFiniteSet(S)
    PROVE  \E g \in SetToSeqs(S) : \A i, j \in DOMAIN g : i < j => g[i] < g[j]
<1> DEFINE n == Cardinality(S)
           rank == [x \in S |-> Rank(S, x)]
           g == [i \in 1..n |-> CHOOSE x \in S : rank[x] = i]
<1>1. n \in Nat
  BY FS_CardinalityType
<1>2. rank \in [S -> 1..n]
  BY RankMonotone
<1>3. \A x, y \in S : x < y => rank[x] < rank[y]
  BY RankMonotone
<1>4. rank \in Injection(S, 1..n)
  <2>1. \A x, y \in S : rank[x] = rank[y] => x = y
    <3> SUFFICES ASSUME NEW x \in S, NEW y \in S, x # y
                 PROVE  rank[x] # rank[y]
      OBVIOUS
    <3>1. x < y \/ y < x
      OBVIOUS
    <3>2. rank[x] \in Nat /\ rank[y] \in Nat
      BY <1>1, <1>2
    <3> HIDE DEF rank
    <3> QED  BY <1>3, <3>1, <3>2
  <2> QED  BY <1>2, <2>1 DEF Injection, IsInjective
<1> HIDE DEF rank
<1>5. rank \in Surjection(S, 1..n)
  <2>1. IsFiniteSet(1..n) /\ Cardinality(1..n) = n
    BY <1>1, FS_Interval
  <2> QED  BY <1>4, <2>1, FS_Injection
<1>6. \A i \in 1..n : g[i] \in S /\ rank[g[i]] = i
  BY <1>5 DEF Surjection
<1>7. ASSUME NEW i \in 1..n, NEW j \in 1..n, i < j
      PROVE  g[i] < g[j]
  <2>1. g[i] \in Nat /\ g[j] \in Nat
    BY <1>6
  <2>2. g[j] < g[i] => j < i
    <3>1. g[i] \in S /\ g[j] \in S /\ rank[g[i]] = i /\ rank[g[j]] = j
      BY <1>6
    <3> HIDE DEF g
    <3> QED  BY <1>3, <3>1
  <2>3. g[i] # g[j]
    BY <1>6, <1>7
  <2> HIDE DEF g
  <2> QED  BY <1>1, <1>7, <2>1, <2>2, <2>3
<1>8. g \in SetToSeqs(S)
  <2>1. g \in [1..n -> S]
    BY <1>6
  <2>2. \A i, j \in 1..n : i # j => g[i] # g[j]
    BY <1>6
  <2> HIDE DEF g
  <2> QED  BY <2>1, <2>2 DEF SetToSeqs
<1>9. DOMAIN g = 1..n
  OBVIOUS
<1> HIDE DEF g
<1> QED  BY <1>7, <1>8, <1>9

\* The order of the listing: every ID once, each at its rank.
LEMMA InOrderIs ==
    ASSUME NEW S \in SUBSET Nat, IsFiniteSet(S)
    PROVE  /\ Cardinality(S) \in Nat
           /\ InOrder(S) \in [1..Cardinality(S) -> S]
           /\ \A i, j \in 1..Cardinality(S) : InOrder(S)[i] = InOrder(S)[j] => i = j
           /\ \A x \in S : Rank(S, x) \in 1..Cardinality(S) /\ InOrder(S)[Rank(S, x)] = x
<1> DEFINE n == Cardinality(S)
           o == InOrder(S)
<1>1. n \in Nat
  BY FS_CardinalityType
<1>2. o \in SetToSeqs(S) /\ \A i, j \in DOMAIN o : i < j => o[i] < o[j]
  BY SortedExists DEF InOrder
<1> HIDE DEF o
<1>3. o \in [1..n -> S] /\ \A i, j \in 1..n : o[i] = o[j] => i = j
  BY <1>2 DEF SetToSeqs
<1>4. \A i, j \in 1..n : i < j => o[i] < o[j]
  BY <1>2, <1>3
<1>5. \A x \in S : \E i \in 1..n : o[i] = x
  <2>1. o \in Injection(1..n, S)
    BY <1>3 DEF Injection, IsInjective
  <2>2. Cardinality(1..n) = n
    BY <1>1, FS_Interval
  <2>3. o \in Surjection(1..n, S)
    BY <2>1, <2>2, FS_Injection
  <2> QED  BY <2>3 DEF Surjection
<1>6. ASSUME NEW i \in 1..n
      PROVE  Rank(S, o[i]) = i
  <2> DEFINE below == {y \in S : y <= o[i]}
             h == [k \in 1..i |-> o[k]]
  <2>1. \A k \in 1..i : k \in 1..n /\ o[k] \in S /\ o[k] <= o[i]
    <3> SUFFICES ASSUME NEW k \in 1..i
                 PROVE  k \in 1..n /\ o[k] \in S /\ o[k] <= o[i]
      OBVIOUS
    <3>1. k \in 1..n /\ (k < i \/ k = i)
      BY <1>1
    <3>2. o[k] \in S /\ o[i] \in S /\ o[k] \in Nat /\ o[i] \in Nat
      BY <1>3, <3>1
    <3>3. k < i => o[k] < o[i]
      BY <1>4, <3>1
    <3> QED  BY <3>1, <3>2, <3>3
  <2>2. ASSUME NEW y \in below
        PROVE  \E k \in 1..i : h[k] = y
    <3>1. PICK k \in 1..n : o[k] = y
      BY <1>5
    <3>2. ~(i < k)
      <4>1. o[i] \in Nat /\ o[k] \in Nat /\ o[k] <= o[i]
        BY <1>3, <3>1
      <4> QED  BY <1>4, <4>1
    <3>3. k \in 1..i
      BY <1>1, <3>2
    <3> QED  BY <3>1, <3>3
  <2>3. h \in [1..i -> below] /\ \A k, l \in 1..i : h[k] = h[l] => k = l
    BY <1>3, <2>1
  <2>4. h \in Bijection(1..i, below)
    <3> HIDE DEF h, below
    <3> QED  BY <2>2, <2>3 DEF Bijection, Injection, Surjection, IsInjective
  <2>5. Cardinality(below) = i
    <3>1. i \in Nat
      BY <1>1
    <3> HIDE DEF below
    <3> QED  BY <2>4, <3>1, FS_CountingElements DEF ExistsBijection
  <2> QED  BY <2>5 DEF Rank
<1>7. \A x \in S : Rank(S, x) \in 1..n /\ o[Rank(S, x)] = x
  BY <1>5, <1>6
<1> QED  BY <1>1, <1>3, <1>7 DEF o

\* A document that joins moves the others back, if at all.
LEMMA RankGrows ==
    ASSUME NEW S \in SUBSET Nat, NEW T \in SUBSET Nat, S \subseteq T, IsFiniteSet(T), NEW x \in Nat
    PROVE  Rank(S, x) \in Nat /\ Rank(T, x) \in Nat /\ Rank(S, x) <= Rank(T, x)
<1> DEFINE A == {y \in S : y <= x}
           B == {y \in T : y <= x}
<1>1. A \subseteq B /\ B \subseteq T
  OBVIOUS
<1> HIDE DEF A, B
<1>2. IsFiniteSet(B) /\ IsFiniteSet(A)
  BY <1>1, FS_Subset
<1>3. Cardinality(A) \in Nat /\ Cardinality(B) \in Nat /\ Cardinality(A) <= Cardinality(B)
  BY <1>1, <1>2, FS_Subset, FS_CardinalityType
<1> QED  BY <1>3 DEF Rank, A, B

\* A page is the documents from its offset on, and is empty only at the end.
LEMMA PageIs ==
    ASSUME NEW S, NEW ids \in Seq(S), NEW offset \in Nat, NEW limit \in Nat \ {0}
    PROVE  /\ Page(ids, offset, limit) \in Seq(S)
           /\ \A i \in 1..Len(Page(ids, offset, limit)) :
                offset + i \in 1..Len(ids) /\ Page(ids, offset, limit)[i] = ids[offset + i]
           /\ offset < Len(ids) => Len(Page(ids, offset, limit)) > 0
<1> DEFINE n == Len(ids)
           from == IF offset < 0 THEN 0 ELSE IF offset > n THEN n ELSE offset
           rest == SubSeq(ids, from + 1, n)
           page == IF limit > 0 /\ Len(rest) > limit THEN SubSeq(rest, 1, limit) ELSE rest
<1>1. n \in Nat /\ from \in 0..n /\ (offset <= n => from = offset) /\ (offset > n => from = n)
  OBVIOUS
<1> HIDE DEF from
<1>2. /\ rest \in Seq(S) /\ Len(rest) = n - from
      /\ \A i \in 1..(n - from) : rest[i] = ids[from + i]
  <2>1. from + 1 \in 1..(n + 1) /\ n \in (from + 1 - 1)..n
    BY <1>1
  <2>2. \A i \in from + 1..n : ids[i] \in S
    BY <1>1
  <2> QED  BY <1>1, <2>1, <2>2, SubSeqProperties
<1> HIDE DEF rest
<1>3. /\ page \in Seq(S) /\ Len(page) <= Len(rest) /\ Len(page) \in Nat
      /\ Len(rest) > 0 => Len(page) > 0
      /\ \A i \in 1..Len(page) : page[i] = rest[i]
  <2>1. CASE Len(rest) > limit
    <3>1. page = SubSeq(rest, 1, limit)
      BY <2>1
    <3>2. /\ SubSeq(rest, 1, limit) \in Seq(S) /\ Len(SubSeq(rest, 1, limit)) = limit
          /\ \A i \in 1..limit : SubSeq(rest, 1, limit)[i] = rest[i]
      BY <1>2, <2>1
    <3> HIDE DEF page
    <3> QED  BY <2>1, <3>1, <3>2, <1>1, <1>2
  <2>2. CASE ~(Len(rest) > limit)
    <3>1. page = rest
      BY <2>2
    <3> QED  BY <3>1, <1>2
  <2> QED  BY <2>1, <2>2
<1>4. Page(ids, offset, limit) = page
  BY DEF Page, from, rest
<1> HIDE DEF page
<1>5. ASSUME NEW i \in 1..Len(page)
      PROVE  offset + i \in 1..n /\ page[i] = ids[offset + i]
  <2>1. i \in 1..(n - from) /\ from = offset
    BY <1>1, <1>2, <1>3
  <2> QED  BY <1>1, <1>2, <1>3, <2>1
<1>6. offset < n => Len(page) > 0
  BY <1>1, <1>2, <1>3
<1> QED  BY <1>3, <1>4, <1>5, <1>6

-----------------------------------------------------------------------------
(* The best k.                                                             *)

\* What the search makes of a document, given its score.
Entry(sc, id) == [id |-> id, score |-> sc[id]]

\* The best k of the documents, in whatever order the map is walked, are k of
\* them, each once, the i-th outranked by fewer than i of all.
LEMMA TopKIsBest ==
    ASSUME NEW W, IsFiniteSet(W), NEW sc \in [W -> Scores], NEW order \in SetToSeqs(W),
           NEW k \in Int, NEW results, results = [i \in DOMAIN order |-> Entry(sc, order[i])],
           NEW best, best = TopK(results, k)
    PROVE  /\ Len(best) = IF k > 0 /\ k < Cardinality(W) THEN k ELSE Cardinality(W)
           /\ DOMAIN best = 1..Len(best)
           /\ \A i \in 1..Len(best) : best[i].id \in W
           /\ \A i, j \in 1..Len(best) : best[i].id = best[j].id => i = j
           /\ \A i \in 1..Len(best) :
                Cardinality({x \in W : Higher(sc[x], sc[best[i].id])}) < i
<1> DEFINE n == Cardinality(W)
           R == {Entry(sc, id) : id \in W}
           s == Ranked(results)
           len == IF k > 0 /\ k < n THEN k ELSE n
<1>1. n \in Nat /\ len \in 0..n
  BY FS_CardinalityType
<1> HIDE DEF len
<1>2. order \in [1..n -> W] /\ \A i, j \in 1..n : order[i] = order[j] => i = j
  BY DEF SetToSeqs
<1>3. /\ DOMAIN order = 1..n
      /\ \A i \in 1..n : results[i] = Entry(sc, order[i])
      /\ results \in [1..n -> R]
  BY <1>2
<1>4. results \in Seq(R) /\ Len(results) = n
  BY <1>1, <1>3
<1>5. \A r \in R : r.score \in Scores
  BY DEF Entry
<1>6. IsRanking(s, results, n)
  <2> HIDE DEF s, R
  <2> QED  BY <1>4, <1>5, RankedIsRanking DEF s
<1>7. PICK p \in Injection(1..n, 1..n) : s = [i \in 1..n |-> results[p[i]]]
  BY <1>6 DEF IsRanking
<1>8. \A i, j \in 1..n : i < j => ~Higher(s[j].score, s[i].score)
  BY <1>6 DEF IsRanking
<1>9. p \in [1..n -> 1..n] /\ \A i, j \in 1..n : p[i] = p[j] => i = j
  BY DEF Injection, IsInjective
<1>10. p \in Surjection(1..n, 1..n)
  <2>1. IsFiniteSet(1..n) /\ Cardinality(1..n) = n
    BY <1>1, FS_Interval
  <2> QED  BY <1>7, <2>1, FS_Injection
<1>11. \A i \in 1..n : s[i] = Entry(sc, order[p[i]])
  BY <1>3, <1>7, <1>9
<1>12. \A i \in 1..n : /\ s[i].id = order[p[i]] /\ s[i].id \in W
                       /\ s[i].score = sc[s[i].id]
  <2> SUFFICES ASSUME NEW i \in 1..n
               PROVE  s[i].id = order[p[i]] /\ s[i].id \in W /\ s[i].score = sc[s[i].id]
    <3> HIDE DEF s
    <3> QED  OBVIOUS
  <2>1. order[p[i]] \in W
    BY <1>2, <1>9
  <2>2. s[i] = Entry(sc, order[p[i]])
    BY <1>11
  <2> HIDE DEF s, n
  <2> QED  BY <2>1, <2>2 DEF Entry
<1>13. \A x \in W : \E j \in 1..n : s[j].id = x
  <2>1. order \in Injection(1..n, W)
    BY <1>2 DEF Injection, IsInjective
  <2>2. Cardinality(1..n) = n
    BY <1>1, FS_Interval
  <2>3. order \in Surjection(1..n, W)
    BY <2>1, <2>2, FS_Injection
  <2>4. \A x \in W : \E q \in 1..n : order[q] = x
    BY <2>3 DEF Surjection
  <2>5. \A q \in 1..n : \E j \in 1..n : p[j] = q
    BY <1>10 DEF Surjection
  <2> SUFFICES ASSUME NEW x \in W
               PROVE  \E j \in 1..n : s[j].id = x
    OBVIOUS
  <2>6. PICK q \in 1..n : order[q] = x
    BY <2>4
  <2>7. PICK j \in 1..n : p[j] = q
    BY <2>5
  <2>8. s[j].id = order[p[j]]
    BY <1>12
  <2> HIDE DEF s
  <2> QED  BY <2>6, <2>7, <2>8
<1>14. s \in Seq(R) /\ Len(s) = n /\ DOMAIN s = 1..n
  <2>1. s \in [1..n -> R]
    <3> HIDE DEF R, s
    <3> QED  BY <1>3, <1>7, <1>9
  <2> HIDE DEF R, s
  <2> QED  BY <1>1, <2>1
<1>15. /\ Len(best) = len /\ DOMAIN best = 1..len
       /\ \A i \in 1..len : i \in 1..n /\ best[i] = s[i]
  <2>1. CASE k > 0 /\ n > k
    <3>1. best = SubSeq(s, 1, k) /\ len = k
      BY <1>1, <1>4, <2>1 DEF TopK, len
    <3> HIDE DEF R, s
    <3> QED  BY <1>1, <1>14, <2>1, <3>1
  <2>2. CASE ~(k > 0 /\ n > k)
    <3>1. best = s /\ len = n
      BY <1>1, <1>4, <2>2 DEF TopK, len
    <3> HIDE DEF R, s
    <3> QED  BY <1>1, <1>14, <3>1
  <2> QED  BY <2>1, <2>2
<1> HIDE DEF s, R
<1>16. ASSUME NEW i \in 1..n
       PROVE  Cardinality({x \in W : Higher(sc[x], sc[s[i].id])}) < i
  <2> DEFINE higher == {x \in W : Higher(sc[x], sc[s[i].id])}
             before == {s[j].id : j \in 1..(i - 1)}
  <2>1. ASSUME NEW x \in higher
        PROVE  x \in before
    <3>1. PICK j \in 1..n : s[j].id = x
      BY <1>13
    <3>2. Higher(s[j].score, s[i].score)
      BY <1>12, <3>1
    <3>3. j # i
      BY <3>2, <1>12, Asymmetric
    <3>4. ~(i < j)
      BY <3>2, <1>8
    <3>5. j \in 1..(i - 1)
      BY <1>1, <3>3, <3>4
    <3> QED  BY <3>1, <3>5
  <2>2. IsFiniteSet(before) /\ Cardinality(before) <= i - 1 /\ Cardinality(before) \in Nat
    <3> DEFINE f == [j \in 1..(i - 1) |-> s[j].id]
    <3>1. f \in Surjection(1..(i - 1), before)
      BY DEF Surjection
    <3>2. IsFiniteSet(1..(i - 1)) /\ Cardinality(1..(i - 1)) = i - 1
      <4>1. i - 1 \in Nat /\ (i - 1) - 1 + 1 = i - 1 /\ 1 \in Int /\ i - 1 \in Int
        BY <1>1
      <4>2. /\ IsFiniteSet(1..(i - 1))
            /\ Cardinality(1..(i - 1)) = IF 1 > i - 1 THEN 0 ELSE (i - 1) - 1 + 1
        BY <4>1, FS_Interval
      <4> QED  BY <4>1, <4>2
    <3> HIDE DEF f, before
    <3> QED  BY <3>1, <3>2, FS_Surjection, FS_CardinalityType
  <2>3. Cardinality(higher) <= Cardinality(before) /\ Cardinality(higher) \in Nat
    <3>1. higher \subseteq before
      BY <2>1
    <3> HIDE DEF higher, before
    <3> QED  BY <2>2, <3>1, FS_Subset, FS_CardinalityType
  <2> QED
    <3> HIDE DEF before
    <3>1. Cardinality(higher) < i
      <4> HIDE DEF higher
      <4> QED  BY <1>1, <2>2, <2>3
    <3> QED  BY <3>1
<1>17. \A i, j \in 1..n : s[i].id = s[j].id => i = j
  BY <1>2, <1>9, <1>12
<1>18. Len(best) = IF k > 0 /\ k < n THEN k ELSE n
  BY <1>15 DEF len
<1>19. /\ \A i \in 1..Len(best) : best[i].id \in W
       /\ \A i, j \in 1..Len(best) : best[i].id = best[j].id => i = j
  BY <1>12, <1>15, <1>17
<1>20. ASSUME NEW i \in 1..Len(best)
       PROVE  Cardinality({x \in W : Higher(sc[x], sc[best[i].id])}) < i
  <2>1. i \in 1..n /\ best[i] = s[i]
    BY <1>15
  <2> QED  BY <1>16, <2>1
<1> QED  BY <1>15, <1>18, <1>19, <1>20

\* Ranking leaves nothing out.
LEMMA RankedLength ==
    ASSUME NEW R, NEW results \in Seq(R)
    PROVE  Ranked(results) \in Seq(R) /\ Len(Ranked(results)) = Len(results)
<1> DEFINE N == Len(results)
<1>1. PICK f \in [0..N -> Seq(R)] : /\ f[0] = <<>>
                                    /\ \A n \in 1..N : f[n] = Inserted(f[n - 1], results[n])
                                    /\ Ranked(results) = f[N]
  BY RankedSteps
<1> DEFINE T == {n \in Nat : n <= N => Len(f[n]) = n}
<1>2. N \in Nat
  OBVIOUS
<1>3. 0 \in T
  BY <1>1
<1>4. ASSUME NEW n \in Nat, n \in T
      PROVE  n + 1 \in T
  <2> SUFFICES ASSUME n + 1 <= N
               PROVE  Len(f[n + 1]) = n + 1
    OBVIOUS
  <2>1. n + 1 \in 1..N /\ n \in 0..N /\ (n + 1) - 1 = n /\ n <= N
    BY <1>2
  <2>2. f[n] \in Seq(R) /\ Len(f[n]) = n /\ results[n + 1] \in R
    BY <1>4, <2>1
  <2>3. f[n + 1] = Inserted(f[n], results[n + 1])
    BY <1>1, <2>1
  <2>4. PICK m \in 0..Len(f[n]) : f[n + 1] = With(f[n], m, results[n + 1])
    BY <2>2, <2>3, InsertedIs
  <2>5. f[n + 1] = [i \in 1..(n + 1) |->
            IF i <= m THEN f[n][i] ELSE IF i = m + 1 THEN results[n + 1] ELSE f[n][i - 1]]
    BY <2>2, <2>4 DEF With
  <2>6. f[n + 1] \in Seq(R) /\ DOMAIN f[n + 1] = 1..(n + 1)
    BY <2>1, <2>5
  <2> HIDE DEF N
  <2> QED  BY <2>1, <2>6
<1>5. Nat \subseteq T
  <2> HIDE DEF T
  <2> QED  BY <1>3, <1>4, Induction
<1>6. Len(f[N]) = N /\ f[N] \in Seq(R)
  BY <1>2, <1>5
<1> QED  BY <1>1, <1>6

\* What is cut is a sequence of results.
LEMMA TopKType ==
    ASSUME NEW R, NEW results \in Seq(R), NEW k \in Int
    PROVE  TopK(results, k) \in Seq(R)
<1> DEFINE s == Ranked(results)
<1>1. s \in Seq(R) /\ Len(s) = Len(results)
  BY RankedLength
<1>2. TopK(results, k) = IF k > 0 /\ Len(results) > k THEN SubSeq(s, 1, k) ELSE s
  BY DEF TopK
<1> HIDE DEF s
<1>3. CASE k > 0 /\ Len(results) > k
  BY <1>1, <1>2, <1>3
<1>4. CASE ~(k > 0 /\ Len(results) > k)
  BY <1>1, <1>2, <1>4
<1> QED  BY <1>3, <1>4

\* Whatever the vectors, a similarity is a fraction.
LEMMA SimilarityType ==
    ASSUME NEW a \in Seq(Int), NEW b \in Seq(Int), NEW metric
    PROVE  Similarity(a, b, metric) \in [num : Int, den : Nat]
<1>1. CASE Similarity(a, b, metric) = NaN
  BY <1>1 DEF NaN
<1>2. CASE Similarity(a, b, metric) # NaN
  <2>1. Similarity(a, b, metric) \in Scores
    BY <1>2, SimilarityIsScore
  <2> QED  BY <2>1 DEF Scores, PosInf, NegInf
<1> QED  BY <1>1, <1>2

=============================================================================
