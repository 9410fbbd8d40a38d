------------------------------- MODULE Service -------------------------------
(***************************************************************************)
(* What the HTTP service promises its clients: named collections, each a   *)
(* set of documents, on which every request acts at one moment between the *)
(* question and the answer.  There are no locks, handles or directories.   *)
(*                                                                         *)
(* Four requests are not a single moment.  A listing of the collections    *)
(* counts the documents of one after another, and has all their names at   *)
(* the last moment; a listing of documents takes its page and its total at *)
(* two moments; creating answers with what the new collection holds a      *)
(* moment later; and a request may be waiting when its collection is       *)
(* dropped: it is then answered as one that came too late, even if the     *)
(* name has been given away again by then.                                 *)
(***************************************************************************)
EXTENDS Naturals, FiniteSets

CONSTANTS
    Procs,  \* the clients
    Names,  \* names of collections
    Docs,   \* document IDs
    None    \* absence: no collection, no name, no document

VARIABLES
    colls,  \* per name the documents of its collection, or None
    req,    \* per client the request it waits for
    late,   \* the clients whose collection was dropped while they wait
    ans     \* per client the last answer

vars == <<colls, req, late, ans>>

NoRequest == [op |-> "none", name |-> None, doc |-> None]

\* The status of an answer, the number in it, and the documents or, of a listing
\* of the collections, the names and their numbers of documents.
Answer(status, items, total) == [status |-> status, items |-> items, total |-> total]

NoAnswer == Answer("none", {}, 0)

Init ==
    /\ colls = [n \in Names |-> None]
    /\ req = [p \in Procs |-> NoRequest]
    /\ late = {}
    /\ ans = [p \in Procs |-> NoAnswer]

-----------------------------------------------------------------------------
Ask(p, op, n, d) ==
    /\ req[p] = NoRequest
    /\ req' = [req EXCEPT ![p] = [op |-> op, name |-> n, doc |-> d]]
    /\ ans' = [ans EXCEPT ![p] = NoAnswer]
    /\ UNCHANGED <<colls, late>>

Get(p, a) ==
    /\ req' = [req EXCEPT ![p] = NoRequest]
    /\ late' = late \ {p}
    /\ ans' = [ans EXCEPT ![p] = a]

\* The collection p asked about.
Of(p) == colls[req[p].name]

\* p's request is op, and its collection is there.
Finds(p, op) == req[p].op = op /\ p \notin late /\ Of(p) # None

Existing == {n \in Names : colls[n] # None}

-----------------------------------------------------------------------------
Upsert(p) ==
    /\ Finds(p, "upsert")
    /\ colls' = [colls EXCEPT ![req[p].name] = @ \union {req[p].doc}]
    /\ Get(p, Answer("ok", {}, 0))

Delete(p) ==
    /\ Finds(p, "delete")
    /\ colls' = [colls EXCEPT ![req[p].name] = @ \ {req[p].doc}]
    /\ Get(p, Answer(IF req[p].doc \in Of(p) THEN "ok" ELSE "missing", {}, 0))

Fetch(p) ==
    /\ Finds(p, "get")
    /\ Get(p, Answer(IF req[p].doc \in Of(p) THEN "ok" ELSE "missing", {}, 0))
    /\ UNCHANGED colls

Query(p) ==
    /\ Finds(p, "query")
    /\ Get(p, Answer("ok", Of(p), 0))
    /\ UNCHANGED colls

Info(p) ==
    /\ Finds(p, "info")
    /\ Get(p, Answer("ok", {}, Cardinality(Of(p))))
    /\ UNCHANGED colls

\* The page of a listing, and later its total.
Page(p) ==
    /\ Finds(p, "listdocs")
    /\ req' = [req EXCEPT ![p].op = "count"]
    /\ ans' = [ans EXCEPT ![p].items = Of(p)]
    /\ UNCHANGED <<colls, late>>

Total(p) ==
    /\ Finds(p, "count")
    /\ Get(p, Answer("ok", ans[p].items, Cardinality(Of(p))))
    /\ UNCHANGED colls

\* The names a listing has counted the documents of, and one more of them.
Told(p) == {item[1] : item \in ans[p].items}

Tell(p, n) ==
    /\ req[p].op = "list" /\ n \in Existing \ Told(p)
    /\ ans' = [ans EXCEPT ![p].items = @ \union {<<n, Cardinality(colls[n])>>}]
    /\ UNCHANGED <<colls, req, late>>

List(p) ==
    /\ req[p].op = "list" /\ Told(p) = Existing
    /\ Get(p, Answer("ok", ans[p].items, 0))
    /\ UNCHANGED colls

Health(p) ==
    /\ req[p].op = "health"
    /\ Get(p, Answer("ok", {}, Cardinality(Existing)))
    /\ UNCHANGED colls

\* A new collection is empty.  The answer tells what it holds by then.
Create(p) ==
    /\ req[p].op = "create" /\ Of(p) = None
    /\ colls' = [colls EXCEPT ![req[p].name] = {}]
    /\ req' = [req EXCEPT ![p].op = "info"]
    /\ UNCHANGED <<late, ans>>

Exists(p) ==
    /\ req[p].op = "create" /\ Of(p) # None
    /\ Get(p, Answer("exists", {}, 0))
    /\ UNCHANGED colls

\* The collection is gone at once; its documents never come back.  Some of
\* the others who asked about it are too late, the rest will find no such name
\* or another collection.
Drop(p) ==
    /\ Finds(p, "drop")
    /\ colls' = [colls EXCEPT ![req[p].name] = None]
    /\ req' = [req EXCEPT ![p].op = "dropped"]
    /\ \E S \in SUBSET {q \in Procs \ {p} : req[q].name = req[p].name} : late' = late \union S
    /\ UNCHANGED ans

Dropped(p) ==
    /\ req[p].op = "dropped"
    /\ Get(p, Answer("ok", {}, 0))
    /\ UNCHANGED colls

\* There is no collection of that name.
Missing(p) ==
    /\ req[p].op \in {"upsert", "delete", "get", "query", "info", "listdocs", "drop"}
    /\ p \notin late /\ Of(p) = None
    /\ Get(p, Answer("missing", {}, 0))
    /\ UNCHANGED colls

\* The collection was dropped meanwhile.  Reading one document answers that
\* it is missing; the statistics, and the total of a listing, are zero.
TooLate(p) ==
    /\ p \in late
    /\ \/ req[p].op \in {"upsert", "delete", "query", "listdocs"} /\ Get(p, Answer("failed", {}, 0))
       \/ req[p].op = "get" /\ Get(p, Answer("missing", {}, 0))
       \/ req[p].op \in {"info", "count"} /\ Get(p, Answer("ok", ans[p].items, 0))
    /\ UNCHANGED colls

Serve(p) ==
    \/ Upsert(p) \/ Delete(p) \/ Fetch(p) \/ Query(p) \/ Info(p)
    \/ Page(p) \/ Total(p) \/ (\E n \in Names : Tell(p, n)) \/ List(p) \/ Health(p)
    \/ Create(p) \/ Exists(p) \/ Drop(p) \/ Dropped(p)
    \/ Missing(p) \/ TooLate(p)

Ops == {"upsert", "delete", "get", "query", "info", "listdocs", "list", "health", "create", "drop"}

Next ==
    \E p \in Procs :
        \/ \E op \in Ops, n \in Names \union {None}, d \in Docs \union {None} : Ask(p, op, n, d)
        \/ Serve(p)

Spec == Init /\ [][Next]_vars

=============================================================================
