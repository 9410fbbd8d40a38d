----------------------------- MODULE ReadsProofs -----------------------------
(***************************************************************************)
(* Proofs about Reads, for any number of documents, vectors of any length  *)
(* and pages of any length.                                                *)
(***************************************************************************)
EXTENDS Reads, SearchProofs

\* No two vectors that meet make a NaN: what AnswersAreBest needs, and what
\* the run reads_overflow shows it cannot do without.
Comparable ==
    \A v \in Vectors \union Queries, w \in Vectors, m \in Metrics : Similarity(v, w, m) # NaN

\* What Answer ranks.
Results(v, order) == [i \in DOMAIN order |-> [id |-> order[i], score |-> Score(v, order[i])]]

\* An answer is the best of the documents as they are.
Found ==
    answer # NoAnswer =>
        /\ answer.vector \in Vectors \union Queries
        /\ answer.by # None => answer.vector = Example(answer.by)
        /\ \E order \in SetToSeqs(WithField) :
             answer.ranked = TopK(Results(answer.vector, order), answer.k)

\* With nothing deleted, what a page in progress has yet to show is ranked
\* behind its offset; with nothing added either, what it has shown are the
\* first documents in order.
Ahead ==
    ~scan.shrunk =>
        \A id \in scan.stayed \ Range(scan.seen) : Len(scan.seen) < Rank(Present, id)

Behind ==
    ~scan.shrunk /\ ~scan.grown =>
        /\ scan.stayed = Present /\ Len(scan.seen) <= Cardinality(Present)
        /\ \A i \in 1..Len(scan.seen) : scan.seen[i] = InOrder(Present)[i]

Underway == scan.state = "listing" => scan.stayed \subseteq Present /\ Ahead /\ Behind

IndInv == TypeOK /\ IsFiniteSet(Present) /\ Found /\ Underway /\ PagesCover

-----------------------------------------------------------------------------
(* Writers.                                                                *)

\* Nothing is in the collection, found or listed at first.
LEMMA InitInv == Init => IndInv
<1> SUFFICES ASSUME Init PROVE IndInv
  OBVIOUS
<1>1. Present = {}
  BY DEF Init, Present
<1>2. IsFiniteSet(Present)
  BY <1>1, FS_EmptySet
<1>3. Found /\ Underway /\ PagesCover
  BY DEF Init, NoScan, Found, Underway, PagesCover
<1>4. TypeOK
  BY DEF Init, TypeOK, NoScan, NoAnswer, Contents
<1> QED  BY <1>2, <1>3, <1>4 DEF IndInv

\* A listing that has ended or has not begun is left alone.
LEMMA WatchType ==
    ASSUME TypeOK, NEW stayed \in SUBSET Ids, NEW came \in BOOLEAN, NEW went \in BOOLEAN,
           Watch(stayed, came, went)
    PROVE  /\ scan' \in [state : {"none", "listing", "ended"}, limit : Int, seen : Seq(Ids),
                         stayed : SUBSET Ids, grown : BOOLEAN, shrunk : BOOLEAN]
           /\ scan.state # "listing" => scan' = scan
           /\ scan.state = "listing" =>
                /\ scan'.state = "listing" /\ scan'.seen = scan.seen /\ scan'.stayed = stayed
                /\ scan'.grown = (scan.grown \/ came) /\ scan'.shrunk = (scan.shrunk \/ went)
BY DEF TypeOK, Watch

\* A write leaves no answer standing, and a new document moves the others
\* back but for those it comes after.
LEMMA UpsertStep ==
    ASSUME IndInv, NEW id \in Ids, NEW v \in Contents \ {None}, Upsert(id, v)
    PROVE  IndInv'
<1>1. /\ docs' \in [Ids -> Contents] /\ stored' \in [Ids -> Contents]
      /\ answer' = NoAnswer /\ metric' = metric
  BY DEF Upsert, IndInv, TypeOK
<1>2. Present' = Present \union {id}
  BY DEF Upsert, IndInv, TypeOK, Present
<1>3. IsFiniteSet(Present)'
  BY <1>2, FS_AddElement DEF IndInv
<1>4. /\ scan' \in [state : {"none", "listing", "ended"}, limit : Int, seen : Seq(Ids),
                    stayed : SUBSET Ids, grown : BOOLEAN, shrunk : BOOLEAN]
      /\ scan.state # "listing" => scan' = scan
      /\ scan.state = "listing" =>
           /\ scan'.state = "listing" /\ scan'.seen = scan.seen /\ scan'.stayed = scan.stayed
           /\ scan'.grown = (scan.grown \/ id \notin Present) /\ scan'.shrunk = scan.shrunk
  <2>1. Watch(scan.stayed, id \notin Present, FALSE) /\ scan.stayed \in SUBSET Ids
    BY DEF Upsert, IndInv, TypeOK
  <2>2. TypeOK
    BY DEF IndInv
  <2>3. (scan.shrunk \/ FALSE) = scan.shrunk
    BY <2>2 DEF TypeOK
  <2> QED  BY <2>1, <2>2, <2>3, WatchType
<1>5. TypeOK'
  BY <1>1, <1>4 DEF IndInv, TypeOK, NoAnswer
<1>6. Found'
  BY <1>1 DEF Found, NoAnswer
<1>7. PagesCover'
  BY <1>4 DEF IndInv, PagesCover
<1>8. Underway'
  <2> SUFFICES ASSUME scan.state = "listing", scan'.state = "listing"
               PROVE  (scan.stayed \subseteq Present /\ Ahead /\ Behind)'
    BY <1>4 DEF Underway
  <2>1. scan.stayed \subseteq Present /\ Ahead /\ Behind
    BY DEF IndInv, Underway
  <2>2. (scan.stayed \subseteq Present)'
    BY <1>2, <1>4, <2>1
  <2>3. Ahead'
    <3> SUFFICES ASSUME ~scan'.shrunk, NEW d \in scan'.stayed \ Range(scan'.seen)
                 PROVE  Len(scan'.seen) < Rank(Present', d)
      BY DEF Ahead
    <3>1. Len(scan.seen) < Rank(Present, d)
      BY <1>4, <2>1 DEF Ahead
    <3>2. Present \in SUBSET Nat /\ Present' \in SUBSET Nat /\ d \in Nat /\ Present \subseteq Present'
      BY <1>2, <1>4, <2>1, ReadsAssumption DEF Present
    <3>3. Rank(Present, d) \in Nat /\ Rank(Present', d) \in Nat
          /\ Rank(Present, d) <= Rank(Present', d)
      BY <1>3, <3>2, RankGrows
    <3>4. Len(scan.seen) \in Nat
      BY DEF IndInv, TypeOK
    <3> QED  BY <1>4, <3>1, <3>3, <3>4
  <2>4. Behind'
    <3>1. CASE id \in Present
      <4>1. Present' = Present
        BY <1>2, <3>1
      <4> QED  BY <1>4, <2>1, <3>1, <4>1 DEF Behind
    <3>2. CASE id \notin Present
      BY <1>4, <3>2 DEF Behind
    <3> QED  BY <3>1, <3>2
  <2> QED  BY <2>2, <2>3, <2>4
<1> QED  BY <1>3, <1>5, <1>6, <1>7, <1>8 DEF IndInv

\* A document that goes is no longer one that stayed.
LEMMA DeleteStep ==
    ASSUME IndInv, NEW id \in Ids, Delete(id)
    PROVE  IndInv'
<1>1. /\ docs' \in [Ids -> Contents] /\ stored' \in [Ids -> Contents]
      /\ answer' = NoAnswer /\ metric' = metric
  BY DEF Delete, IndInv, TypeOK, Contents
<1>2. Present' = Present \ {id}
  BY DEF Delete, IndInv, TypeOK, Present
<1>3. IsFiniteSet(Present)'
  BY <1>2, FS_RemoveElement DEF IndInv
<1>4. /\ scan' \in [state : {"none", "listing", "ended"}, limit : Int, seen : Seq(Ids),
                    stayed : SUBSET Ids, grown : BOOLEAN, shrunk : BOOLEAN]
      /\ scan.state # "listing" => scan' = scan
      /\ scan.state = "listing" =>
           /\ scan'.state = "listing" /\ scan'.seen = scan.seen
           /\ scan'.stayed = scan.stayed \ {id}
           /\ scan'.grown = scan.grown /\ scan'.shrunk = (scan.shrunk \/ id \in Present)
  <2>1. Watch(scan.stayed \ {id}, FALSE, id \in Present) /\ scan.stayed \ {id} \in SUBSET Ids
    BY DEF Delete, IndInv, TypeOK
  <2>2. TypeOK
    BY DEF IndInv
  <2>3. (scan.grown \/ FALSE) = scan.grown
    BY <2>2 DEF TypeOK
  <2>4. (id \in Present) \in BOOLEAN
    OBVIOUS
  <2> QED  BY <2>1, <2>2, <2>3, <2>4, WatchType
<1>5. TypeOK'
  BY <1>1, <1>4 DEF IndInv, TypeOK, NoAnswer
<1>6. Found'
  BY <1>1 DEF Found, NoAnswer
<1>7. PagesCover'
  BY <1>4 DEF IndInv, PagesCover
<1>8. Underway'
  <2> SUFFICES ASSUME scan.state = "listing", scan'.state = "listing"
               PROVE  (scan.stayed \subseteq Present /\ Ahead /\ Behind)'
    BY <1>4 DEF Underway
  <2>1. scan.stayed \subseteq Present /\ Ahead /\ Behind
    BY DEF IndInv, Underway
  <2>2. (scan.stayed \subseteq Present)'
    BY <1>2, <1>4, <2>1
  <2>3. CASE id \in Present
    <3>1. scan'.shrunk
      BY <1>4, <2>3
    <3> QED  BY <2>2, <3>1 DEF Ahead, Behind
  <2>4. CASE id \notin Present
    <3>1. Present' = Present /\ scan.stayed \ {id} = scan.stayed
      BY <1>2, <2>1, <2>4
    <3> QED  BY <1>4, <2>1, <2>2, <2>4, <3>1 DEF Ahead, Behind
  <2> QED  BY <2>3, <2>4
<1> QED  BY <1>3, <1>5, <1>6, <1>7, <1>8 DEF IndInv

-----------------------------------------------------------------------------
(* Search and Query.                                                       *)

\* The vectors searched with and those met.
LEMMA VectorsAre ==
    ASSUME IndInv, NEW id \in Ids
    PROVE  /\ id \in WithField => docs[id] \in Vectors
           /\ Example(id) \notin {None, NoVector} => Example(id) \in Vectors
           /\ id \in WithField => Example(id) = docs[id]
BY DEF IndInv, TypeOK, Contents, WithField, Example

\* What is ranked are documents with scores.
LEMMA ResultsType ==
    ASSUME IndInv, NEW v \in Vectors \union Queries, NEW order \in SetToSeqs(WithField),
           NEW S, WithField \subseteq S
    PROVE  Results(v, order) \in Seq([id : S, score : [num : Int, den : Nat]])
<1>1. IsFiniteSet(WithField) /\ WithField \subseteq Ids
  BY FS_Subset DEF IndInv, Present, WithField
<1>2. Cardinality(WithField) \in Nat /\ order \in [1..Cardinality(WithField) -> WithField]
  BY <1>1, FS_CardinalityType DEF SetToSeqs
<1>3. ASSUME NEW id \in WithField
      PROVE  Score(v, id) \in [num : Int, den : Nat]
  <2>1. v \in Seq(Int) /\ docs[id] \in Seq(Int)
    BY <1>1, VectorsAre, ReadsAssumption
  <2> QED  BY <2>1, SimilarityType DEF Score
<1>4. \A i \in 1..Cardinality(WithField) :
        [id |-> order[i], score |-> Score(v, order[i])] \in [id : S, score : [num : Int, den : Nat]]
  BY <1>2, <1>3
<1>5. Results(v, order) \in
        [1..Cardinality(WithField) -> [id : S, score : [num : Int, den : Nat]]]
  BY <1>2, <1>4 DEF Results
<1>6. \A n \in Nat : \A T : [1..n -> T] \subseteq Seq(T)
  BY SeqDef
<1> QED  BY <1>2, <1>5, <1>6, Zenon

\* Nothing but a document with the field is found.
LEMMA FoundAreThere ==
    ASSUME IndInv, answer # NoAnswer, answer.ranked # <<>>
    PROVE  answer.ranked[1].id \in WithField
<1> DEFINE R == [id : WithField, score : [num : Int, den : Nat]]
<1>1. PICK order \in SetToSeqs(WithField) :
         answer.ranked = TopK(Results(answer.vector, order), answer.k)
  BY DEF IndInv, Found
<1>2. Results(answer.vector, order) \in Seq(R)
  BY ResultsType DEF IndInv, Found
<1>3. answer.k \in Int
  BY DEF IndInv, TypeOK
<1> HIDE DEF R
<1>4. answer.ranked \in Seq(R)
  BY <1>1, <1>2, <1>3, TopKType
<1>5. answer.ranked[1] \in R
  BY <1>4
<1> QED  BY <1>5 DEF R

\* Whoever searches, the answer is found among the documents as they are.
LEMMA AnswerStep ==
    ASSUME IndInv, NEW by \in Ids \union {None}, NEW v \in Vectors \union Queries, NEW k \in Int,
           by # None => v = Example(by), Answer(by, v, k)
    PROVE  IndInv'
<1>1. UNCHANGED <<metric, docs, stored, scan>>
  BY DEF Answer
<1>2. PICK order \in SetToSeqs(WithField) :
         answer' = [by |-> by, vector |-> v, k |-> k, ranked |-> TopK(Results(v, order), k)]
  BY DEF Answer, Results
<1>3. Results(v, order) \in Seq([id : Ids, score : [num : Int, den : Nat]])
  <2>1. WithField \subseteq Ids
    BY DEF WithField
  <2> QED  BY <2>1, ResultsType
<1>4. TopK(Results(v, order), k) \in Seq([id : Ids, score : [num : Int, den : Nat]])
  BY <1>3, TopKType
<1>5. v \in Seq(Int)
  BY ReadsAssumption
<1>6. TypeOK'
  BY <1>1, <1>2, <1>4, <1>5 DEF IndInv, TypeOK
<1>7. Found'
  <2>1. /\ answer'.vector = v /\ answer'.by = by /\ answer'.k = k
        /\ answer'.ranked = TopK(Results(v, order), k)
    BY <1>2
  <2>2. WithField' = WithField /\ Example(by)' = Example(by)
    BY <1>1 DEF WithField, Example
  <2>3. Results(v, order)' = Results(v, order)
    BY <1>1 DEF Results, Score
  <2>4. by # None => v = Example(by)'
    BY <2>2
  <2>5. \E o \in SetToSeqs(WithField)' : answer'.ranked = TopK(Results(v, o)', k)
    BY <2>1, <2>2, <2>3
  <2> QED  BY <2>1, <2>4, <2>5 DEF Found
<1>8. (IsFiniteSet(Present) /\ Underway /\ PagesCover)'
  BY <1>1 DEF IndInv, Present, Underway, Ahead, Behind, PagesCover
<1> QED  BY <1>6, <1>7, <1>8 DEF IndInv

\* Query searches with a vector of the client's or with a document's.
LEMMA QueryStep ==
    ASSUME IndInv, NEW k \in Ks,
           (\E v \in Queries : QueryByVector(v, k)) \/ (\E id \in Ids : QueryByID(id, k))
    PROVE  IndInv'
<1>1. k \in Int
  BY ReadsAssumption
<1>2. CASE \E v \in Queries : QueryByVector(v, k)
  BY <1>1, <1>2, AnswerStep DEF QueryByVector
<1>3. CASE \E id \in Ids : QueryByID(id, k)
  <2>1. PICK id \in Ids : Example(id) \notin {None, NoVector} /\ Answer(id, Example(id), k)
    BY <1>3 DEF QueryByID
  <2>2. Example(id) \in Vectors
    BY <2>1, VectorsAre
  <2> QED  BY <1>1, <2>1, <2>2, AnswerStep
<1> QED  BY <1>2, <1>3

-----------------------------------------------------------------------------
(* A listing in pages.                                                     *)

\* What the listing takes the pages from.
LEMMA OrderIs ==
    ASSUME IndInv
    PROVE  /\ Cardinality(Present) \in Nat
           /\ InOrder(Present) \in Seq(Present) /\ Len(InOrder(Present)) = Cardinality(Present)
           /\ \A i, j \in 1..Cardinality(Present) :
                InOrder(Present)[i] = InOrder(Present)[j] => i = j
           /\ \A id \in Present : /\ Rank(Present, id) \in 1..Cardinality(Present)
                                  /\ InOrder(Present)[Rank(Present, id)] = id
<1> DEFINE n == Cardinality(Present)
           o == InOrder(Present)
<1>1. Present \in SUBSET Nat /\ IsFiniteSet(Present)
  BY ReadsAssumption DEF IndInv, Present
<1>2. /\ n \in Nat /\ o \in [1..n -> Present]
      /\ \A i, j \in 1..n : o[i] = o[j] => i = j
      /\ \A id \in Present : Rank(Present, id) \in 1..n /\ o[Rank(Present, id)] = id
  BY <1>1, InOrderIs
<1> HIDE DEF n, o
<1>3. o \in Seq(Present) /\ Len(o) = n
  BY <1>2
<1> QED  BY <1>2, <1>3 DEF n, o

\* A listing begins with the documents that are there.
LEMMA StartListingStep ==
    ASSUME IndInv, NEW limit \in Limits, StartListing(limit)
    PROVE  IndInv'
<1>1. UNCHANGED <<metric, docs, stored, answer>> /\ Present' = Present
  BY DEF StartListing, Present
<1>2. scan' = [state |-> "listing", limit |-> limit, seen |-> <<>>, stayed |-> Present,
               grown |-> FALSE, shrunk |-> FALSE]
  BY DEF StartListing, NoScan
<1>3. TypeOK'
  BY <1>1, <1>2, ReadsAssumption DEF IndInv, TypeOK, Present
<1>4. Found'
  BY <1>1 DEF IndInv, Found, WithField, Example, Results, Score
<1>5. Underway'
  <2>1. Ahead'
    BY <1>1, <1>2, OrderIs DEF Ahead
  <2>2. Behind'
    BY <1>1, <1>2, OrderIs DEF Behind
  <2> QED  BY <1>1, <1>2, <2>1, <2>2 DEF Underway
<1> QED  BY <1>1, <1>2, <1>3, <1>4, <1>5 DEF IndInv, PagesCover

\* A page shows the documents ranked next, and there is none only when no
\* document is ranked behind the offset.
LEMMA NextPageStep ==
    ASSUME IndInv, NextPage
    PROVE  IndInv'
<1> DEFINE o == InOrder(Present)
           n == Cardinality(Present)
           m == Len(scan.seen)
           page == Page(o, m, PageLength(scan.limit))
<1>1. UNCHANGED <<metric, docs, stored, answer>> /\ Present' = Present
  BY DEF NextPage, Present
<1>2. /\ scan.state = "listing" /\ scan.stayed \subseteq Present /\ Ahead /\ Behind
      /\ scan \in [state : {"none", "listing", "ended"}, limit : Int, seen : Seq(Ids),
                    stayed : SUBSET Ids, grown : BOOLEAN, shrunk : BOOLEAN]
  BY DEF NextPage, IndInv, Underway, TypeOK
<1>3. /\ scan' = [state |-> IF page = <<>> THEN "ended" ELSE "listing", limit |-> scan.limit,
                  seen |-> scan.seen \o page, stayed |-> scan.stayed,
                  grown |-> scan.grown, shrunk |-> scan.shrunk]
  BY <1>2 DEF NextPage
<1>4. /\ n \in Nat /\ o \in Seq(Present) /\ Len(o) = n
      /\ \A i, j \in 1..n : o[i] = o[j] => i = j
      /\ \A id \in Present : Rank(Present, id) \in 1..n /\ o[Rank(Present, id)] = id
  BY OrderIs
<1>5. m \in Nat /\ scan.seen \in Seq(Ids)
  BY <1>2
<1>6. PageLength(scan.limit) \in Nat \ {0}
  BY <1>2, ReadsAssumption DEF PageLength
<1> HIDE DEF o, n
<1>7. /\ page \in Seq(Present)
      /\ \A i \in 1..Len(page) : m + i \in 1..n /\ page[i] = o[m + i]
      /\ m < n => Len(page) > 0
  <2> HIDE DEF m
  <2> QED  BY <1>4, <1>5, <1>6, PageIs
<1> HIDE DEF page, m
<1>8. /\ scan'.seen \in Seq(Ids) /\ Len(scan'.seen) = m + Len(page) /\ Len(page) \in Nat
      /\ \A i \in 1..m : scan'.seen[i] = scan.seen[i]
      /\ \A i \in 1..Len(page) : scan'.seen[m + i] = page[i]
  <2>1. page \in Seq(Ids)
    BY <1>7 DEF Present
  <2>2. scan'.seen = scan.seen \o page
    BY <1>3
  <2>3. m = Len(scan.seen)
    BY DEF m
  <2> QED  BY <1>5, <2>1, <2>2, <2>3
<1>9. TypeOK'
  BY <1>1, <1>2, <1>3, <1>8 DEF IndInv, TypeOK
<1>10. Found'
  BY <1>1 DEF IndInv, Found, WithField, Example, Results, Score
<1>11. Ahead'
  <2> SUFFICES ASSUME ~scan'.shrunk, NEW id \in scan'.stayed \ Range(scan'.seen)
               PROVE  Len(scan'.seen) < Rank(Present, id)
    BY <1>1 DEF Ahead
  <2>1. id \in Present /\ Rank(Present, id) \in 1..n /\ o[Rank(Present, id)] = id
    BY <1>2, <1>3, <1>4
  <2>2. \A i \in 1..(m + Len(page)) : scan'.seen[i] # id
    <3>1. DOMAIN scan'.seen = 1..(m + Len(page))
      BY <1>5, <1>8
    <3> QED  BY <3>1 DEF Range
  <2>3. id \notin Range(scan.seen)
    <3>1. DOMAIN scan.seen = 1..m
      BY <1>5 DEF m
    <3>2. \A i \in 1..m : i \in 1..(m + Len(page)) /\ scan'.seen[i] = scan.seen[i]
      BY <1>5, <1>8
    <3>3. \A i \in 1..m : scan.seen[i] # id
      BY <2>2, <3>2
    <3> QED  BY <3>1, <3>3 DEF Range
  <2>4. m < Rank(Present, id)
    BY <1>2, <1>3, <2>3 DEF Ahead, m
  <2>5. ASSUME Rank(Present, id) <= m + Len(page)
        PROVE  FALSE
    <3> DEFINE i == Rank(Present, id) - m
    <3>1. i \in 1..Len(page) /\ m + i = Rank(Present, id) /\ m + i \in 1..(m + Len(page))
      BY <1>4, <1>5, <1>8, <2>1, <2>4, <2>5
    <3>2. scan'.seen[m + i] = id
      BY <1>7, <1>8, <2>1, <3>1
    <3> QED  BY <2>2, <3>1, <3>2
  <2> QED  BY <1>4, <1>5, <1>8, <2>1, <2>5
<1>12. Behind'
  <2> SUFFICES ASSUME ~scan'.shrunk, ~scan'.grown
               PROVE  /\ scan'.stayed = Present /\ Len(scan'.seen) <= n
                      /\ \A i \in 1..Len(scan'.seen) : scan'.seen[i] = o[i]
    BY <1>1 DEF Behind, n, o
  <2>1. /\ scan.stayed = Present /\ m <= n
        /\ \A i \in 1..m : scan.seen[i] = o[i]
    BY <1>2, <1>3 DEF Behind, m, n, o
  <2>2. scan'.stayed = Present
    BY <1>3, <2>1
  <2>3. m + Len(page) <= n
    <3>1. CASE Len(page) = 0
      BY <1>4, <1>5, <2>1, <3>1
    <3>2. CASE Len(page) # 0
      <4>1. Len(page) \in 1..Len(page)
        BY <1>8, <3>2
      <4> QED  BY <1>4, <1>5, <1>7, <4>1
    <3> QED  BY <3>1, <3>2
  <2>4. ASSUME NEW i \in 1..(m + Len(page))
        PROVE  scan'.seen[i] = o[i]
    <3>1. CASE i <= m
      <4>1. i \in 1..m
        BY <1>5, <1>8, <3>1
      <4> QED  BY <1>8, <2>1, <4>1
    <3>2. CASE i > m
      <4>1. i - m \in 1..Len(page) /\ m + (i - m) = i
        BY <1>5, <1>8, <3>2
      <4> QED  BY <1>7, <1>8, <4>1
    <3> QED  BY <1>5, <1>8, <3>1, <3>2
  <2> QED  BY <1>8, <2>2, <2>3, <2>4
<1>13. Underway'
  BY <1>1, <1>2, <1>3, <1>11, <1>12 DEF Underway
<1>14. PagesCover'
  <2> SUFFICES ASSUME page = <<>>
               PROVE  PagesCover'
    BY <1>3 DEF PagesCover
  <2>1. m >= n /\ scan'.seen = scan.seen
    <3>1. Len(page) = 0
      OBVIOUS
    <3>2. ~(m < n)
      BY <1>7, <3>1
    <3>3. scan.seen \o <<>> = scan.seen
      BY <1>5
    <3> QED  BY <1>3, <1>4, <1>5, <3>2, <3>3
  <2>2. ASSUME ~scan'.shrunk
        PROVE  scan'.stayed \subseteq Range(scan'.seen)
    <3> SUFFICES ASSUME NEW id \in scan.stayed, id \notin Range(scan.seen)
                 PROVE  FALSE
      BY <1>3, <2>1
    <3>1. m < Rank(Present, id)
      BY <1>2, <1>3, <2>2 DEF Ahead, m
    <3>2. Rank(Present, id) \in 1..n
      BY <1>2, <1>4
    <3> QED  BY <1>4, <1>5, <2>1, <3>1, <3>2
  <2>3. ASSUME ~scan'.shrunk, ~scan'.grown
        PROVE  IsInjective(scan'.seen) /\ scan'.stayed = Range(scan'.seen)
    <3>1. /\ scan.stayed = Present /\ m <= n
          /\ \A i \in 1..m : scan.seen[i] = o[i]
      BY <1>2, <1>3, <2>3 DEF Behind, m, n, o
    <3>2. DOMAIN scan.seen = 1..m /\ m = n
      BY <1>4, <1>5, <2>1, <3>1 DEF m
    <3>3. IsInjective(scan.seen)
      BY <1>4, <3>1, <3>2 DEF IsInjective
    <3>4. \A i \in 1..n : o[i] \in Present
      BY <1>4
    <3>5. Range(scan.seen) \subseteq Present
      BY <3>1, <3>2, <3>4 DEF Range
    <3> QED  BY <1>3, <2>1, <2>2, <2>3, <3>1, <3>3, <3>5
  <2> QED  BY <2>2, <2>3 DEF PagesCover
<1> QED  BY <1>1, <1>9, <1>10, <1>13, <1>14 DEF IndInv

\* A client that is done forgets what it was shown.
LEMMA LeaveStep ==
    ASSUME IndInv, Leave
    PROVE  IndInv'
<1>1. UNCHANGED <<metric, docs, stored, answer>> /\ Present' = Present /\ scan' = NoScan
  BY DEF Leave, Present
<1>2. TypeOK'
  BY <1>1 DEF IndInv, TypeOK, NoScan
<1>3. Found'
  BY <1>1 DEF IndInv, Found, WithField, Example, Results, Score
<1>4. Underway' /\ PagesCover'
  BY <1>1 DEF NoScan, Underway, PagesCover
<1> QED  BY <1>1, <1>2, <1>3, <1>4 DEF IndInv

-----------------------------------------------------------------------------
\* Every step keeps the strengthened invariant.
LEMMA Step == IndInv /\ [Next]_vars => IndInv'
<1> SUFFICES ASSUME IndInv, [Next]_vars PROVE IndInv'
  OBVIOUS
<1>1. CASE UNCHANGED vars
  <2>1. UNCHANGED <<metric, docs, stored, answer, scan>>
    BY <1>1 DEF vars
  <2>2. TypeOK' /\ IsFiniteSet(Present)' /\ PagesCover'
    BY <2>1 DEF IndInv, TypeOK, Present, PagesCover
  <2>3. Found'
    BY <2>1 DEF IndInv, Found, WithField, Example, Results, Score
  <2>4. Underway'
    BY <2>1 DEF IndInv, Present, Underway, Ahead, Behind
  <2> QED  BY <2>2, <2>3, <2>4 DEF IndInv
<1>2. CASE Next
  BY <1>2, UpsertStep, DeleteStep, QueryStep, StartListingStep, NextPageStep, LeaveStep DEF Next
<1> QED  BY <1>1, <1>2

\* The strengthened invariant.
THEOREM Inductive == Spec => []IndInv
BY InitInv, Step, PTL DEF Spec

\* A search returns the k best of the documents it finds, each once
\* (AnswersAreBest), however many there are and in whatever order the map is
\* walked, as long as no two vectors that meet make a NaN.
THEOREM BestAnswers ==
    ASSUME Comparable
    PROVE  Spec => []AnswersAreBest
<1>1. ASSUME IndInv
      PROVE  AnswersAreBest
  <2> SUFFICES ASSUME answer # NoAnswer
               PROVE  AnswersAreBest
    BY DEF AnswersAreBest
  <2> DEFINE v == answer.vector
             sc == [id \in WithField |-> Score(v, id)]
  <2>1. PICK order \in SetToSeqs(WithField) : answer.ranked = TopK(Results(v, order), answer.k)
    BY <1>1 DEF IndInv, Found
  <2>2. IsFiniteSet(WithField)
    <3>1. WithField \subseteq Present
      BY DEF WithField, Present
    <3> QED  BY <1>1, <3>1, FS_Subset DEF IndInv
  <2>3. sc \in [WithField -> Scores]
    <3> SUFFICES ASSUME NEW id \in WithField
                 PROVE  Score(v, id) \in Scores
      OBVIOUS
    <3>1. docs[id] \in Vectors /\ v \in Vectors \union Queries /\ metric \in Metrics
      BY <1>1, VectorsAre DEF IndInv, Found, TypeOK, WithField
    <3>2. v \in Seq(Int) /\ docs[id] \in Seq(Int)
      BY <3>1, ReadsAssumption
    <3> HIDE DEF v
    <3>3. Similarity(v, docs[id], metric) # NaN
      BY <3>1, Comparable DEF Comparable
    <3> QED  BY <3>2, <3>3, SimilarityIsScore DEF Score
  <2>4. DOMAIN order = 1..Cardinality(WithField) /\ \A i \in DOMAIN order : order[i] \in WithField
    BY DEF SetToSeqs
  <2>5. Results(v, order) = [i \in DOMAIN order |-> Entry(sc, order[i])]
    BY <2>4 DEF Results, Entry
  <2>6. answer.k \in Int
    BY <1>1 DEF IndInv, TypeOK
  <2> DEFINE best == answer.ranked
  <2> HIDE DEF sc, v
  <2>7. /\ Len(best) = IF answer.k > 0 /\ answer.k < Cardinality(WithField)
                        THEN answer.k ELSE Cardinality(WithField)
        /\ DOMAIN best = 1..Len(best)
        /\ \A i \in 1..Len(best) : best[i].id \in WithField
        /\ \A i, j \in 1..Len(best) : best[i].id = best[j].id => i = j
        /\ \A i \in 1..Len(best) :
             Cardinality({x \in WithField : Higher(sc[x], sc[best[i].id])}) < i
    <3> HIDE DEF best
    <3> QED  BY <2>1, <2>2, <2>3, <2>5, <2>6, TopKIsBest DEF best
  <2> DEFINE ids == [i \in DOMAIN best |-> best[i].id]
  <2>8. ASSUME NEW i \in DOMAIN best
        PROVE  Cardinality({x \in WithField : Closer(answer.vector, x, ids[i])}) < i
    <3>1. ids[i] = best[i].id /\ best[i].id \in WithField
      BY <2>7
    <3> HIDE DEF ids, best
    <3>2. {x \in WithField : Closer(answer.vector, x, ids[i])}
            = {x \in WithField : Higher(sc[x], sc[best[i].id])}
      BY <3>1 DEF Closer, sc, v
    <3> QED  BY <2>7, <3>2
  <2>9. IsInjective(ids)
    BY <2>7 DEF IsInjective
  <2>10. Len(ids) = Len(best) /\ DOMAIN ids = DOMAIN best
    BY <1>1, <2>7 DEF IndInv, TypeOK
  <2> QED  BY <2>7, <2>8, <2>9, <2>10 DEF AnswersAreBest
<1> QED  BY <1>1, Inductive, PTL

\* That is so of vectors whose components have squares that do not overflow.
THEOREM BestAmongSmall ==
    ASSUME \A v \in Vectors \union Queries : Small(v)
    PROVE  Spec => []AnswersAreBest
<1>1. Comparable
  <2> SUFFICES ASSUME NEW v \in Vectors \union Queries, NEW w \in Vectors, NEW m \in Metrics
               PROVE  Similarity(v, w, m) # NaN
    BY DEF Comparable
  <2>1. v \in Seq(Int) /\ w \in Seq(Int) /\ Small(v) /\ Small(w) /\ Overflow \in Nat
    BY ReadsAssumption
  <2> QED  BY <2>1, SmallCompare
<1> QED  BY <1>1, BestAnswers

\* A search by the ID of a document in memory finds nothing more similar to
\* the document than itself (NothingCloserThanItself), whatever overflows.
THEOREM ItselfFirst == Spec => []NothingCloserThanItself
<1>1. ASSUME IndInv
      PROVE  NothingCloserThanItself
  <2> SUFFICES ASSUME answer.by \in WithField, answer.ranked # <<>>, metric # "IP",
                      metric = "COSINE" => \E i \in DOMAIN answer.vector : answer.vector[i] # 0
               PROVE  ~Closer(answer.vector, answer.ranked[1].id, answer.by)
    BY DEF NothingCloserThanItself
  <2>1. answer # NoAnswer
    BY DEF NoAnswer
  <2>2. answer.by # None
    BY ReadsAssumption DEF WithField
  <2>3. answer.vector = docs[answer.by] /\ docs[answer.by] \in Vectors
    BY <1>1, <2>1, <2>2, VectorsAre DEF IndInv, Found, WithField
  <2>4. answer.ranked[1].id \in WithField
    BY <1>1, <2>1, FoundAreThere
  <2>5. docs[answer.ranked[1].id] \in Vectors
    BY <1>1, <2>4, VectorsAre DEF WithField
  <2>6. metric # "L2" => metric = "COSINE"
    BY <1>1, ReadsAssumption DEF IndInv, TypeOK
  <2>7. docs[answer.by] \in Seq(Int) /\ docs[answer.ranked[1].id] \in Seq(Int)
    BY <2>3, <2>5, ReadsAssumption
  <2> QED  BY <2>3, <2>6, <2>7, NothingCloser DEF Closer, Score
<1> QED  BY <1>1, Inductive, PTL

\* A listing in pages passes over nothing that stays, and shows each document
\* once unless one is added (PagesCover).
THEOREM PagesAreComplete == Spec => []PagesCover
BY Inductive, PTL DEF IndInv

=============================================================================
