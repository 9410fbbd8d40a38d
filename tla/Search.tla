------------------------------- MODULE Search -------------------------------
(***************************************************************************)
(* Similarity, ranking and paging (collection.go: similarity, Search,      *)
(* Query, ListDocs; handlers.go: handleQuery, handleListDocuments).  Pure  *)
(* functions of the documents in memory; Reads puts them to use.           *)
(*                                                                         *)
(* A score is a floating-point number as far as comparing it goes: a       *)
(* fraction num/den, where n/1 is finite, 1/0 and -1/0 are the infinities  *)
(* and 0/0 is NaN.                                                         *)
(***************************************************************************)
EXTENDS Integers, Sequences, SequencesExt

CONSTANTS
    Overflow,  \* the least magnitude a float32 product rounds to an infinity
    Default,   \* the page length when none is asked for (100)
    Most       \* the longest page a client can ask for (1000)

-----------------------------------------------------------------------------
(* Floating point.                                                         *)

Finite(n) == [num |-> n, den |-> 1]
PosInf == [num |-> 1, den |-> 0]
NegInf == [num |-> -1, den |-> 0]
NaN == [num |-> 0, den |-> 0]

\* The operator > of the comparators, as IEEE 754 has it: false when either
\* side is NaN.  Cross-multiplied, but for the infinities on both sides.
Higher(x, y) == x.num * y.den > y.num * x.den \/ (x = PosInf /\ y = NegInf)

\* A product of two float32: it overflows where the sum, of float64, does not.
Product(a, b) ==
    IF a * b >= Overflow THEN PosInf ELSE IF -(a * b) >= Overflow THEN NegInf ELSE Finite(a * b)

\* The sum of two infinities is the one they both are, or NaN.
Plus(x, y) ==
    IF x.den = 0 /\ y.den = 0 THEN (IF x = y THEN x ELSE NaN)
    ELSE [num |-> x.num * y.den + y.num * x.den, den |-> x.den * y.den]

Dot(a, b) == FoldLeft(Plus, Finite(0), [i \in DOMAIN a |-> Product(a[i], b[i])])

-----------------------------------------------------------------------------
(* similarity.                                                             *)

Abs(n) == IF n < 0 THEN -n ELSE n

\* The cosine itself needs square roots; what is compared is its square with
\* its sign, which orders the same way.  A zero vector is similar to none; an
\* infinite dot product has an infinite norm beside it.
CosineSimilarity(a, b) ==
    LET dot == Dot(a, b)
        normA == Dot(a, a)
        normB == Dot(b, b)
    IN IF Finite(0) \in {normA, normB} THEN Finite(0)
       ELSE IF dot.den = 0 THEN NaN
       ELSE IF 0 \in {normA.den, normB.den} THEN Finite(0)
       ELSE [num |-> dot.num * Abs(dot.num), den |-> normA.num * normB.num]

\* The squared distance, in float64, negated.
L2Similarity(a, b) ==
    Finite(-FoldLeft(+, 0, [i \in DOMAIN a |-> (a[i] - b[i]) * (a[i] - b[i])]))

\* Mutant: the distance itself, so that the farthest comes first.
DistanceAsSimilarity(a, b, metric) ==
    IF Len(a) # Len(b) THEN NegInf
    ELSE CASE metric = "IP" -> Dot(a, b)
           [] metric = "L2" -> Finite(-L2Similarity(a, b).num)
           [] OTHER -> CosineSimilarity(a, b)

Similarity(a, b, metric) ==
    IF Len(a) # Len(b) THEN NegInf
    ELSE CASE metric = "IP" -> Dot(a, b)
           [] metric = "L2" -> L2Similarity(a, b)
           [] OTHER -> CosineSimilarity(a, b)

-----------------------------------------------------------------------------
(* Ranking.                                                                *)

\* sort.SliceStable on as few results as these is an insertion sort: an entry
\* moves towards the front until it meets one that it is not higher than.
Inserted(ranked, r) ==
    LET stop == Max({0} \union {i \in DOMAIN ranked : ~Higher(r.score, ranked[i].score)})
    IN InsertAt(ranked, stop + 1, r)

Ranked(results) == FoldLeft(Inserted, <<>>, results)

\* Mutant: the cut comes before the sort.
CutThenRanked(results, k) ==
    Ranked(IF k > 0 /\ Len(results) > k THEN SubSeq(results, 1, k) ELSE results)

\* The best k of the results, all of them for k <= 0.
TopK(results, k) ==
    IF k > 0 /\ Len(results) > k THEN SubSeq(Ranked(results), 1, k) ELSE Ranked(results)

-----------------------------------------------------------------------------
(* Paging.                                                                 *)

\* handleListDocuments: the length of the page a client asks for.
PageLength(limit) == IF limit <= 0 THEN Default ELSE IF limit > Most THEN Most ELSE limit

\* sort.Strings, of IDs each of which is there once.
InOrder(ids) ==
    CHOOSE order \in SetToSeqs(ids) : \A i, j \in DOMAIN order : i < j => order[i] < order[j]

\* Mutant: the first document of every page but the first is passed over.
PageSkipping(ids, offset, limit) ==
    LET from == IF offset < 0 THEN 0 ELSE IF offset > Len(ids) THEN Len(ids) ELSE offset
        rest == SubSeq(ids, from + (IF from = 0 THEN 1 ELSE 2), Len(ids))
    IN IF limit > 0 /\ Len(rest) > limit THEN SubSeq(rest, 1, limit) ELSE rest

\* ListDocs, of the IDs in order.
Page(ids, offset, limit) ==
    LET from == IF offset < 0 THEN 0 ELSE IF offset > Len(ids) THEN Len(ids) ELSE offset
        rest == SubSeq(ids, from + 1, Len(ids))
    IN IF limit > 0 /\ Len(rest) > limit THEN SubSeq(rest, 1, limit) ELSE rest

=============================================================================
