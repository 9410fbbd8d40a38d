-------------------------------- MODULE Reads --------------------------------
(***************************************************************************)
(* What clients see of one collection through Search, Query and ListDocs   *)
(* while others write to it.  Every call is one step: it runs under c.mu.  *)
(* A listing in pages is many calls, and documents come and go in between. *)
(***************************************************************************)
EXTENDS Search, FiniteSets

CONSTANTS
    Ids,       \* document IDs: numbers, ordered as the strings are
    Vectors,   \* the vectors documents have in the field that is searched
    Queries,   \* the vectors clients search with
    Metrics,   \* the metric of the field
    Ks,        \* the numbers of results asked for
    Limits,    \* the page lengths asked for
    NoVector,  \* a document without the field
    None       \* absence

ASSUME ReadsAssumption ==
    /\ Ids \subseteq Nat /\ Ks \subseteq Int /\ Limits \subseteq Int
    /\ Vectors \subseteq Seq(Int) /\ Queries \subseteq Seq(Int)
    /\ None \notin Ids /\ None \notin Vectors /\ NoVector \notin Vectors /\ None # NoVector
    /\ Metrics \subseteq {"COSINE", "L2", "IP"}
    /\ Overflow \in Nat /\ {Default, Most} \subseteq Nat \ {0}

VARIABLES
    metric,  \* of the field, for the life of the collection
    docs,    \* c.docs: the field's vector of each document in memory
    stored,  \* the same, of the documents on disk
    answer,  \* the last search and what it returned, while nothing has changed
    scan     \* the listing in progress

vars == <<metric, docs, stored, answer, scan>>

Contents == Vectors \union {NoVector, None}

NoAnswer == [by |-> None, vector |-> <<>>, k |-> 0, ranked |-> <<>>]

\* `stayed`: in the collection since the listing began; `grown`, `shrunk`:
\* whether documents came, or went, in the meantime.
NoScan == [state |-> "none", limit |-> 0, seen |-> <<>>, stayed |-> {},
           grown |-> FALSE, shrunk |-> FALSE]

TypeOK ==
    /\ metric \in Metrics
    /\ docs \in [Ids -> Contents] /\ stored \in [Ids -> Contents]
    /\ answer \in [by : Ids \union {None}, vector : Seq(Int), k : Int,
                   ranked : Seq([id : Ids, score : [num : Int, den : Nat]])]
    /\ scan \in [state : {"none", "listing", "ended"}, limit : Int, seen : Seq(Ids),
                 stayed : SUBSET Ids, grown : BOOLEAN, shrunk : BOOLEAN]

Init ==
    /\ metric \in Metrics
    /\ docs = [id \in Ids |-> None] /\ stored = docs
    /\ answer = NoAnswer /\ scan = NoScan

Present == {id \in Ids : docs[id] # None}

-----------------------------------------------------------------------------
(* Writers.                                                                *)

\* A listing in progress takes note of documents that come and go.
Watch(stayed, came, went) ==
    scan' = IF scan.state # "listing" THEN scan
            ELSE [scan EXCEPT !.stayed = stayed, !.grown = @ \/ came, !.shrunk = @ \/ went]

Upsert(id, v) ==
    /\ docs' = [docs EXCEPT ![id] = v] /\ stored' = [stored EXCEPT ![id] = v]
    /\ answer' = NoAnswer
    /\ Watch(scan.stayed, id \notin Present, FALSE)
    /\ UNCHANGED metric

\* os.Remove may fail: the document is then gone from memory alone.
Delete(id) ==
    /\ docs[id] # None \/ stored[id] # None
    /\ docs' = [docs EXCEPT ![id] = None]
    /\ stored' \in {stored, [stored EXCEPT ![id] = None]}
    /\ answer' = NoAnswer
    /\ Watch(scan.stayed \ {id}, FALSE, id \in Present)
    /\ UNCHANGED metric

-----------------------------------------------------------------------------
(* Search and Query.                                                       *)

WithField == {id \in Ids : docs[id] \notin {None, NoVector}}

Score(v, id) == Similarity(v, docs[id], metric)

\* Search and Query differ in where k comes from and in the fields of a
\* result.  The range over c.docs is in any order.
Answer(by, v, k) ==
    /\ scan.state = "none"
    /\ \E order \in SetToSeqs(WithField) :
         answer' = [by |-> by, vector |-> v, k |-> k,
                    ranked |-> TopK([i \in DOMAIN order |->
                                        [id |-> order[i], score |-> Score(v, order[i])]], k)]
    /\ UNCHANGED <<metric, docs, stored, scan>>

QueryByVector(v, k) == Answer(None, v, k)

\* The document in memory, or else on disk, whose vector is searched with.
Example(id) == IF docs[id] # None THEN docs[id] ELSE stored[id]

QueryByID(id, k) ==
    /\ Example(id) \notin {None, NoVector}
    /\ Answer(id, Example(id), k)

-----------------------------------------------------------------------------
(* A listing in pages: the client asks for what follows the documents it   *)
(* has, until it gets none.                                                *)

StartListing(limit) ==
    /\ scan.state # "listing" /\ answer = NoAnswer
    /\ scan' = [NoScan EXCEPT !.state = "listing", !.limit = limit, !.stayed = Present]
    /\ UNCHANGED <<metric, docs, stored, answer>>

NextPage ==
    /\ scan.state = "listing"
    /\ LET page == Page(InOrder(Present), Len(scan.seen), PageLength(scan.limit)) IN
         scan' = [scan EXCEPT !.seen = @ \o page,
                              !.state = IF page = <<>> THEN "ended" ELSE "listing"]
    /\ UNCHANGED <<metric, docs, stored, answer>>

Leave ==
    /\ scan.state = "ended"
    /\ scan' = NoScan
    /\ UNCHANGED <<metric, docs, stored, answer>>

-----------------------------------------------------------------------------
Next ==
    \/ \E id \in Ids : (\E v \in Contents \ {None} : Upsert(id, v)) \/ Delete(id)
    \/ \E k \in Ks : (\E v \in Queries : QueryByVector(v, k)) \/ (\E id \in Ids : QueryByID(id, k))
    \/ (\E limit \in Limits : StartListing(limit)) \/ NextPage \/ Leave

Spec == Init /\ [][Next]_vars

-----------------------------------------------------------------------------
(* Properties.                                                             *)

\* Document i is more similar to v than j is.
Closer(v, i, j) == Higher(Score(v, i), Score(v, j))

\* Whatever order the map is walked in, a search returns k documents, each
\* once, and the i-th is outranked by fewer than i documents of the whole
\* collection: sorted, and nothing better left out ("sort by score
\* (descending), then limit to topk", collection.go:1026; "higher means more
\* similar", collection.go:547).
AnswersAreBest ==
    answer # NoAnswer =>
        LET ids == [i \in DOMAIN answer.ranked |-> answer.ranked[i].id]
            n == Cardinality(WithField)
        IN /\ Len(ids) = IF answer.k > 0 /\ answer.k < n THEN answer.k ELSE n
           /\ IsInjective(ids)
           /\ \A i \in DOMAIN ids :
                Cardinality({id \in WithField : Closer(answer.vector, id, ids[i])}) < i

\* A search by the ID of a document in memory finds nothing more similar to it
\* than itself, by distance or by angle, unless it is a zero vector, which has
\* no angle.
NothingCloserThanItself ==
    answer.by \in WithField /\ answer.ranked # <<>>
    /\ metric # "IP" /\ (metric = "COSINE" => \E i \in DOMAIN answer.vector : answer.vector[i] # 0)
        => ~Closer(answer.vector, answer.ranked[1].id, answer.by)

\* A listing in pages, of any length the handler settles on, passes over no
\* document that was there all along, as long as none was deleted meanwhile,
\* and shows each exactly once if none was added either.
PagesCover ==
    scan.state = "ended" =>
        /\ ~scan.shrunk => scan.stayed \subseteq Range(scan.seen)
        /\ ~scan.shrunk /\ ~scan.grown => IsInjective(scan.seen) /\ scan.stayed = Range(scan.seen)

=============================================================================
