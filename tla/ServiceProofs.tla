---------------------------- MODULE ServiceProofs ----------------------------
(* Theorems about the service when no system call fails and nothing kills it: *)
(* what a collection serves is what its directory holds, a drop leaves        *)
(* nothing behind, and clients see no more than the promise of Service.       *)
EXTENDS ManagerProofs

-----------------------------------------------------------------------------
\* While the service runs a name without a collection has an empty directory,
\* while it is down one without collection.json has.
Clean ==
    \A n \in Names :
        /\ server # "down" /\ registry[n] = None => n \notin made /\ stored[n] = {}
        /\ server = "down" /\ n \notin made => stored[n] = {}

\* A registered collection is closed only while its drop removes the files.
Dying ==
    \A n \in Names : registry[n] # None /\ object[registry[n]].closed =>
        \E p \in Procs : pc[p] = "purge" /\ held[p] = registry[n]

\* Only a listing has answered in part: of documents, once it has its page.
Asks(p) ==
    /\ pc[p] # "idle" /\ req[p].op # "count" /\ ~Listing(p) => ans[p] = NoAnswer
    /\ req[p].op = "count" => pc[p] \in {"rlock", "read"}

Asking == \A p \in Procs : Asks(p)

\* A listing of the collections has answered for those it need not ask any more.
Counted(p) == {item[1] : item \in ans[p].items}

Tells(p) == Listing(p) => Counted(p) = {n \in Registered : registry[n] \notin todo[p]}

Telling == \A p \in Procs : Tells(p)

ServiceInv == IndInv /\ LiveMirrorsDisk /\ Clean /\ Dying /\ Asking /\ Telling

Simulates == [Promised!Next]_(Promised!vars)

-----------------------------------------------------------------------------
\* While a request is in m.mu's hands, short of removing files, or no writer
\* is on its way to it, every registered collection is open.
LEMMA RegisteredOpen ==
    ASSUME ServiceInv, NEW p \in Procs,
           \/ owner[Mgr] = None \/ p \in readers[Mgr]
           \/ owner[Mgr] = p /\ pc[p] # "purge"
    PROVE  \A n \in Names : registry[n] # None => ~object[registry[n]].closed
<1>1. \A q \in Procs : pc[q] # "purge"
  BY NoneAssumption DEF ServiceInv, IndInv, LockInv
<1> QED  BY <1>1 DEF ServiceInv, Dying

\* What a client sees of a request that has the collection's lock.
LEMMA Serving ==
    ASSUME ServiceInv, NEW p \in Procs, pc[p] \in {"enter", "read"}, req[p].name # None
    PROVE  /\ server # "down" /\ req[p].name \in Names /\ ~Listing(p)
           /\ Asked[p].name = req[p].name /\ Asked[p].doc = req[p].doc
           /\ Asked[p].op = IF req[p].op \in {"info", "describe", "stats"} THEN "info" ELSE req[p].op
           /\ held[p] \in Handles /\ object[held[p]] \in Object
           /\ Mine(p).name = req[p].name
           /\ Mine(p).closed => p \in Late
           /\ ~Mine(p).closed =>
                /\ p \notin Late /\ registry[req[p].name] = held[p]
                /\ Collections[req[p].name] = Mine(p).docs
                /\ stored[req[p].name] = Mine(p).docs /\ Mine(p).docs \in SUBSET Docs
<1> USE NoneAssumption DEF ServiceInv, IndInv
<1>0. req[p] \in [op : Ops \union {"none"}, name : Names \union {None}, doc : Docs \union {None}]
  BY DEF TypeOK
<1>1. /\ server # "down" /\ req[p].name \in Names /\ ~Listing(p)
      /\ held[p] \in Handles /\ object[held[p]] \in Object /\ Mine(p).name = req[p].name
  BY <1>0 DEF Listing, Places, Holding, TypeOK, Mine
<1>4. /\ Asked[p].name = req[p].name /\ Asked[p].doc = req[p].doc
      /\ Asked[p].op = IF req[p].op \in {"info", "describe", "stats"} THEN "info" ELSE req[p].op
  BY <1>0 DEF Asked
<1>2. Mine(p).closed => p \in Late
  BY <1>1 DEF Late, Mine
<1>3. ASSUME ~Mine(p).closed
      PROVE  /\ p \notin Late /\ registry[req[p].name] = held[p]
             /\ Collections[req[p].name] = Mine(p).docs
             /\ stored[req[p].name] = Mine(p).docs /\ Mine(p).docs \in SUBSET Docs
  <2>1. registry[req[p].name] = held[p]
    BY <1>1, <1>3 DEF RegistryInv, Mine
  <2>2. stored[req[p].name] = Mine(p).docs
    BY <1>1, <1>3 DEF LiveMirrorsDisk, Mine
  <2> QED  BY <1>1, <1>3, <2>1, <2>2 DEF Late, Collections, Mine, Object
<1> QED  BY <1>1, <1>2, <1>3, <1>4

\* One request changes.
LEMMA OneAsks ==
    ASSUME NEW p \in Procs, \A q \in Procs \ {p} : pc'[q] = pc[q] /\ req'[q] = req[q]
    PROVE  Asked' = [Asked EXCEPT ![p] = Asked'[p]]
BY DEF Asked

\* A step that answers and changes no collection.
LEMMA Replying ==
    ASSUME ServiceInv, IndInv', NEW p \in Procs, pc[p] \notin {"idle", "purge"},
           NEW a, Reply(p, a, object, registry), UNCHANGED <<server, made, stored>>
    PROVE  /\ ServiceInv'
           /\ Collections' = Collections
           /\ Promised!Get(p, a)
<1> USE NoneAssumption DEF ServiceInv, IndInv
<1>1. /\ pc' = [pc EXCEPT ![p] = "idle"] /\ req' = [req EXCEPT ![p] = NoRequest]
      /\ held' = [held EXCEPT ![p] = None] /\ ans' = [ans EXCEPT ![p] = a]
      /\ registry' = registry
  BY DEF Reply
<1>2. /\ \A h \in Handles : object'[h] = object[h] \/ object'[h] = None
      /\ \A n \in Names : registry[n] # None => object'[registry[n]] = object[registry[n]]
      /\ \A q \in Procs : held'[q] # None => object'[held'[q]] = object[held'[q]]
  BY DEF Reply, Reachable, TypeOK
<1>3. LiveMirrorsDisk' /\ Clean'
  BY <1>1, <1>2 DEF LiveMirrorsDisk, Clean
<1>4. Dying'
  BY <1>1, <1>2 DEF Dying, TypeOK
<1>5. Asking'
  BY <1>1 DEF Asking, Asks, Listing, TypeOK, NoRequest
<1>9. Telling'
  <2>1. todo' = [todo EXCEPT ![p] = {}]
    BY DEF Reply
  <2> QED  BY <1>1, <2>1 DEF Telling, Tells, Counted, Registered, Listing, TypeOK
<1>6. Collections' = Collections
  BY <1>1, <1>2 DEF Collections
<1>7. Asked' = [Asked EXCEPT ![p] = NoRequest]
  BY <1>1 DEF Asked, TypeOK, NoRequest
<1>8. Late' = Late \ {p}
  BY <1>1, <1>2 DEF Late, TypeOK
<1> QED  BY <1>1, <1>3, <1>4, <1>5, <1>6, <1>7, <1>8, <1>9 DEF Promised!Get, Promised!NoRequest, NoRequest

\* A step no client can notice: a request moves on.
LEMMA Unnoticed ==
    ASSUME ServiceInv, IndInv', NEW p \in Procs, NEW l, NEW r,
           pc[p] \notin {"idle", "purge"}, l \notin {"idle", "purge"},
           pc' = [pc EXCEPT ![p] = l], req' = [req EXCEPT ![p] = r],
           Asked'[p] = Asked[p], Asks(p)', Tells(p)', p \in Late' <=> p \in Late,
           \A q \in Procs \ {p} : held'[q] = held[q] /\ todo'[q] = todo[q],
           UNCHANGED <<server, registry, object, made, stored, ans>>
    PROVE  ServiceInv' /\ Simulates
<1> USE NoneAssumption DEF ServiceInv, IndInv
<1>0. \A q \in Procs \ {p} : pc'[q] = pc[q] /\ req'[q] = req[q]
  BY DEF TypeOK
<1>1. LiveMirrorsDisk' /\ Clean'
  BY DEF LiveMirrorsDisk, Clean
<1>2. Dying'
  BY DEF Dying, TypeOK
<1>3. Asking'
  BY <1>0 DEF Asking, Asks, Listing
<1>4. Telling'
  BY <1>0 DEF Telling, Tells, Counted, Registered, Listing
<1>5. Collections' = Collections
  BY DEF Collections
<1>6. Asked' = Asked
  BY <1>0 DEF Asked
<1>7. Late' = Late
  BY <1>0 DEF Late, TypeOK
<1> QED  BY <1>1, <1>2, <1>3, <1>4, <1>5, <1>6, <1>7 DEF Simulates, Promised!vars

-----------------------------------------------------------------------------
LEMMA AskStep ==
    ASSUME ServiceInv, IndInv', NEW p \in Procs,
           NEW op \in Promised!Ops, NEW n \in Names \union {None}, NEW d \in Docs \union {None},
           op = "info" => n \in Names, Request(p, op, n, d)
    PROVE  ServiceInv' /\ Simulates
<1> USE NoneAssumption DEF ServiceInv, IndInv
<1>1. /\ pc[p] = "idle" /\ req[p] = NoRequest /\ held[p] = None
      /\ req' = [req EXCEPT ![p] = [op |-> op, name |-> n, doc |-> d]]
      /\ ans' = [ans EXCEPT ![p] = NoAnswer]
      /\ UNCHANGED <<server, registry, object, made, stored, held, todo>>
  BY DEF Request, Places, Holding, disk
<1> DEFINE l == IF op = "list" THEN "mrlock"
                ELSE IF op = "health" THEN "health"
                ELSE IF op \in {"create", "drop"} THEN "mlock" ELSE "resolve"
<1>0. pc' = [pc EXCEPT ![p] = l] /\ l \notin {"idle", "purge", "each", "rlock", "read"}
  BY DEF Request
<1> HIDE DEF l
<1>2. LiveMirrorsDisk' /\ Clean' /\ Dying'
  BY <1>0, <1>1 DEF LiveMirrorsDisk, Clean, Dying, TypeOK
<1>3. Asking'
  BY <1>0, <1>1 DEF Asking, Asks, Listing, TypeOK, Promised!Ops
<1>8. Telling'
  BY <1>0, <1>1 DEF Telling, Tells, Counted, Registered, Listing, TypeOK
<1>4. Collections' = Collections
  BY <1>1 DEF Collections
<1>5. Asked[p] = NoRequest /\ Asked' = [Asked EXCEPT ![p] = [op |-> op, name |-> n, doc |-> d]]
  <2>1. pc'[p] = l /\ req'[p] = [op |-> op, name |-> n, doc |-> d]
        /\ \A q \in Procs \ {p} : pc'[q] = pc[q] /\ req'[q] = req[q]
    BY <1>0, <1>1 DEF TypeOK
  <2>2. Asked[p] = NoRequest
    BY <1>1 DEF Asked, NoRequest
  <2>3. Asked'[p] = [op |-> op, name |-> n, doc |-> d]
    BY <1>0, <2>1 DEF Asked, Promised!Ops
  <2> QED  BY <2>1, <2>2, <2>3, OneAsks
<1>6. Late' = Late
  BY <1>0, <1>1 DEF Late, TypeOK
<1>7. Promised!Ask(p, op, n, d)
  BY <1>1, <1>4, <1>5, <1>6 DEF Promised!Ask, Promised!NoRequest, NoRequest, Promised!NoAnswer,
     NoAnswer, Promised!Answer, Answer
<1> QED  BY <1>2, <1>3, <1>7, <1>8 DEF Simulates, Promised!Next

LEMMA WaitStep ==
    ASSUME ServiceInv, IndInv', NEW p \in Procs,
           WriteLock(p) \/ ReadLock(p) \/ ListLock(p) \/ RegistryLock(p) \/ DropLock(p)
    PROVE  ServiceInv' /\ Simulates
<1> USE NoneAssumption DEF ServiceInv, IndInv
<1>1. PICK l \in {"enter", "read", "each", "menter", "destroy"} :
         /\ pc' = [pc EXCEPT ![p] = l]
         /\ pc[p] \in {"lock", "rlock", "mrlock", "mlock", "dlock"}
         /\ pc[p] = "rlock" <=> l = "read"
         /\ pc[p] = "mrlock" <=> l = "each"
         /\ pc[p] = "mrlock" => todo' = [todo EXCEPT ![p] = {registry[n] : n \in Registered}]
         /\ pc[p] # "mrlock" => todo' = todo
  BY DEF WriteLock, ReadLock, ListLock, RegistryLock, DropLock, Goto
<1>2. UNCHANGED <<server, registry, object, made, stored, req, ans, held>>
  BY DEF WriteLock, ReadLock, ListLock, RegistryLock, DropLock, Goto, disk
<1>3. req' = [req EXCEPT ![p] = req[p]] /\ Asked'[p] = Asked[p]
  BY <1>1, <1>2 DEF Asked, TypeOK
<1>4. p \in Late' <=> p \in Late
  BY <1>1, <1>2 DEF Late, TypeOK
<1>5. pc[p] # "mrlock" => (Listing(p)' <=> Listing(p))
  BY <1>1, <1>2 DEF Listing, TypeOK
<1>6. pc[p] = "mrlock" => req[p].op = "list" /\ Listing(p)' /\ ans[p] = NoAnswer
  BY <1>1 DEF Listing, TypeOK, Places, Asking, Asks
<1>7. Asks(p)'
  BY <1>1, <1>2, <1>5, <1>6 DEF Asking, Asks, TypeOK
<1>8. Tells(p)'
  <2>1. CASE pc[p] # "mrlock"
    BY <1>1, <1>2, <1>5, <2>1 DEF Telling, Tells, Counted, Registered
  <2>2. CASE pc[p] = "mrlock"
    <3>1. ans'[p].items = {}
      BY <1>2, <1>6, <2>2 DEF NoAnswer, Answer
    <3>2. todo'[p] = {registry[n] : n \in Registered} /\ Registered' = Registered
      BY <1>1, <1>2, <2>2 DEF TypeOK, Registered
    <3> QED  BY <1>2, <3>1, <3>2 DEF Tells, Counted
  <2> QED  BY <2>1, <2>2
<1>9. \A q \in Procs \ {p} : held'[q] = held[q] /\ todo'[q] = todo[q]
  BY <1>1, <1>2 DEF TypeOK
<1> QED  BY <1>1, <1>2, <1>3, <1>4, <1>7, <1>8, <1>9, Unnoticed

\* A registered collection is looked up, to work on it, list it or drop it.
LEMMA LookStep ==
    ASSUME ServiceInv, IndInv', NEW p \in Procs,
           \/ Resolve(p) /\ registry[req[p].name] # None
           \/ \E h \in Handles : ListNext(p, h)
           \/ Drop(p)
    PROVE  ServiceInv' /\ Simulates
<1> USE NoneAssumption DEF ServiceInv, IndInv
<1>1. PICK l \in {"lock", "rlock", "dlock"} :
         /\ pc' = [pc EXCEPT ![p] = l]
         /\ pc[p] \in {"resolve", "each", "menter"}
         /\ pc[p] \in {"resolve", "menter"} => req' = req /\ req[p].name \in Names
         /\ pc[p] = "each" => /\ l = "rlock" /\ req' = [req EXCEPT ![p].op = "info"]
                              /\ req[p].op = "list" /\ req[p].name = None
  BY DEF Resolve, ListNext, Drop, Goto, Places
<1>2. UNCHANGED <<server, registry, object, made, stored, todo, ans>>
      /\ \A q \in Procs \ {p} : held'[q] = held[q] /\ todo'[q] = todo[q]
  BY DEF Resolve, ListNext, Drop, Goto, disk, TypeOK
<1>3. PICK r : /\ req' = [req EXCEPT ![p] = r] /\ r.name = req[p].name /\ r.op # "count"
               /\ pc[p] = "each" => r = [req[p] EXCEPT !.op = "info"]
               /\ pc[p] # "each" => r = req[p]
  <2>1. CASE pc[p] = "each"
    <3>1. req' = [req EXCEPT ![p] = [req[p] EXCEPT !.op = "info"]]
      BY <1>1, <2>1
    <3>2. /\ [req[p] EXCEPT !.op = "info"].op = "info"
          /\ [req[p] EXCEPT !.op = "info"].name = req[p].name
      BY DEF TypeOK
    <3> QED  BY <2>1, <3>1, <3>2
  <2>2. CASE pc[p] # "each"
    <3>1. req' = [req EXCEPT ![p] = req[p]]
      BY <1>1, <2>2 DEF TypeOK
    <3>2. req[p].op # "count"
      BY <1>1 DEF Asking, Asks
    <3> QED  BY <2>2, <3>1, <3>2
  <2> QED  BY <2>1, <2>2
<1>4. req'[p] = r /\ pc'[p] = l /\ req[p] = [op |-> req[p].op, name |-> req[p].name, doc |-> req[p].doc]
  BY <1>1, <1>3 DEF TypeOK
<1>5. Asked'[p] = Asked[p]
  BY <1>1, <1>3, <1>4 DEF Asked
<1>6. Listing(p)' <=> Listing(p)
  BY <1>1, <1>3, <1>4 DEF Listing
<1>7. Asks(p)' /\ Tells(p)'
  BY <1>1, <1>2, <1>3, <1>4, <1>6 DEF Asking, Asks, Telling, Tells, Counted, Registered
<1>8. owner[Mgr] = None \/ p \in readers[Mgr] \/ (owner[Mgr] = p /\ pc[p] # "purge")
  BY <1>1 DEF Resolve, ListNext, Drop, LockInv, Listing, Locked, Readable
<1>9. \A n \in Names : registry[n] # None => ~object[registry[n]].closed
  BY <1>8, RegisteredOpen
<1>10. p \notin Late /\ p \notin Late'
  <2>1. CASE Resolve(p) /\ registry[req[p].name] # None
    BY <1>2, <1>9, <2>1 DEF Resolve, Goto, Late, Holding, Places, TypeOK
  <2>2. CASE \E h \in Handles : ListNext(p, h)
    BY <1>2, <1>9, <2>2 DEF ListNext, Late, Holding, TypeOK
  <2>3. CASE Drop(p)
    BY <1>2, <1>9, <2>3 DEF Drop, Goto, Late, Holding, Places, TypeOK
  <2> QED  BY <2>1, <2>2, <2>3
<1> QED  BY <1>1, <1>2, <1>3, <1>5, <1>7, <1>10, Unnoticed

\* The schema is asked for, and later once more: it tells clients nothing.
LEMMA SchemaStep ==
    ASSUME ServiceInv, IndInv', NEW p \in Procs, Info(p) \/ Describe(p)
    PROVE  ServiceInv' /\ Simulates
<1> USE NoneAssumption DEF ServiceInv, IndInv
<1>1. PICK next \in {"describe", "stats"} :
         /\ pc[p] = "read" /\ req[p].op \in {"info", "describe"}
         /\ req' = [req EXCEPT ![p].op = next] /\ pc' = [pc EXCEPT ![p] = "rlock"]
         /\ ans' = [ans EXCEPT ![p].items = ans[p].items]
         /\ UNCHANGED <<server, registry, object, made, stored, held, todo>>
  BY DEF Info, Describe, ReadOn, disk
<1> DEFINE r == [req[p] EXCEPT !.op = next]
<1>2. req' = [req EXCEPT ![p] = r] /\ r.name = req[p].name /\ r.op = next /\ r.doc = req[p].doc
  BY <1>1 DEF TypeOK
<1>3. [r EXCEPT !.op = "list"] = [req[p] EXCEPT !.op = "list"]
      /\ [r EXCEPT !.op = "info"] = [req[p] EXCEPT !.op = "info"]
  OBVIOUS
<1> HIDE DEF r
<1>4. ans' = ans
  BY <1>1 DEF TypeOK, Answers
<1>5. req'[p] = r /\ pc'[p] = "rlock"
  BY <1>1, <1>2 DEF TypeOK
<1>6. Asked'[p] = Asked[p]
  BY <1>1, <1>2, <1>3, <1>5 DEF Asked
<1>7. Listing(p)' <=> Listing(p)
  BY <1>1, <1>2, <1>5 DEF Listing
<1>8. Asks(p)' /\ Tells(p)'
  BY <1>1, <1>2, <1>4, <1>5, <1>7 DEF Asking, Asks, Telling, Tells, Counted, Registered
<1>9. p \in Late' <=> p \in Late
  BY <1>1, <1>5 DEF Late
<1> QED  BY <1>1, <1>2, <1>4, <1>6, <1>8, <1>9, Unnoticed

-----------------------------------------------------------------------------
LEMMA SameCardinality ==
    \A S : Promised!Cardinality(S) = Cardinality(S)
BY DEF Promised!Cardinality, Cardinality

\* A lookup that finds nothing, the two counts of collections, the refusals.
LEMMA RegistryAnswers ==
    ASSUME ServiceInv, IndInv', NEW p \in Procs,
           \/ Resolve(p) /\ registry[req[p].name] = None
           \/ Health(p) \/ ListDone(p) \/ Refuse(p)
    PROVE  ServiceInv' /\ Simulates
<1> USE NoneAssumption DEF ServiceInv, IndInv
<1>1. /\ pc[p] \in {"resolve", "health", "each", "menter"} /\ server # "down"
      /\ UNCHANGED <<server, made, stored>> /\ held[p] = None /\ p \notin Late
  BY DEF Resolve, Health, ListDone, Refuse, Places, Holding, disk, Late
<1>0. /\ Asked[p].name = req[p].name
      /\ req[p].op \notin {"info", "describe", "stats"} => Asked[p].op = req[p].op
      /\ req[p].op \in {"info", "describe", "stats"} /\ req[p].name # None => Asked[p].op = "info"
  <2>1. req[p] \in [op : Ops \union {"none"}, name : Names \union {None}, doc : Docs \union {None}]
    BY DEF TypeOK
  <2> QED  BY <1>1, <2>1 DEF Asked
<1>2. owner[Mgr] = None \/ p \in readers[Mgr] \/ (owner[Mgr] = p /\ pc[p] # "purge")
  BY DEF Resolve, Health, ListDone, Refuse, LockInv, Listing, Locked, Readable
<1>3. \A n \in Names : registry[n] # None => ~object[registry[n]].closed /\ object[registry[n]] \in Object
  BY <1>2, RegisteredOpen DEF TypeOK
<1>4. \A n \in Names : Collections[n] = None <=> registry[n] = None
  BY <1>1, <1>3 DEF Collections, Object
<1>5. Promised!Existing = Registered
  BY <1>4 DEF Promised!Existing, Registered
<1>6. CASE Resolve(p) /\ registry[req[p].name] = None
  <2>1. /\ req[p].op \in {"upsert", "delete", "get", "query", "info", "describe", "stats", "listdocs"}
        /\ req[p].name \in Names /\ Asked[p].name \in Names
        /\ Reply(p, Answer("missing", {}, 0), object, registry)
    BY <1>0, <1>1, <1>6 DEF Resolve, Places, Asking, Asks, DocOps, ReadOps
  <2>2. ServiceInv' /\ Collections' = Collections /\ Promised!Get(p, Answer("missing", {}, 0))
    BY <1>1, <2>1, Replying
  <2>3. Promised!Missing(p)
    BY <1>0, <1>1, <1>4, <1>6, <2>1, <2>2 DEF Promised!Missing, Promised!Of, Promised!Answer, Answer
  <2> QED  BY <2>2, <2>3 DEF Simulates, Promised!Next, Promised!Serve
<1>7. CASE Health(p)
  <2>1. Reply(p, Answer("ok", {}, Cardinality(Registered)), object, registry) /\ req[p].op = "health"
    BY <1>7 DEF Health, Places
  <2>2. /\ ServiceInv' /\ Collections' = Collections
        /\ Promised!Get(p, Answer("ok", {}, Cardinality(Registered)))
    BY <1>1, <2>1, Replying
  <2>3. Promised!Health(p)
    BY <1>0, <1>1, <1>5, <2>1, <2>2, SameCardinality DEF Promised!Health, Promised!Answer, Answer
  <2> QED  BY <2>2, <2>3 DEF Simulates, Promised!Next, Promised!Serve
<1>8. CASE ListDone(p)
  <2>1. /\ Reply(p, Answer("ok", ans[p].items, 0), object, registry)
        /\ req[p].op = "list" /\ todo[p] = {} /\ Listing(p)
    BY <1>8 DEF ListDone, Places, Listing
  <2>2. ServiceInv' /\ Collections' = Collections /\ Promised!Get(p, Answer("ok", ans[p].items, 0))
    BY <1>1, <2>1, Replying
  <2>3. Promised!Told(p) = Promised!Existing
    <3>1. Counted(p) = Registered
      BY <2>1 DEF Telling, Tells, Registered
    <3> QED  BY <1>5, <3>1 DEF Counted, Promised!Told
  <2>4. Promised!List(p)
    BY <1>0, <1>1, <2>1, <2>2, <2>3 DEF Promised!List, Promised!Answer, Answer
  <2> QED  BY <2>2, <2>4 DEF Simulates, Promised!Next, Promised!Serve
<1>9. CASE Refuse(p)
  <2>1. req[p].op \in {"create", "drop"} /\ req[p].name \in Names
    BY <1>9 DEF Refuse, Places
  <2>2. CASE req[p].op = "drop"
    <3>1. Reply(p, Answer("missing", {}, 0), object, registry) /\ registry[req[p].name] = None
      BY <1>9, <2>2 DEF Refuse
    <3>2. ServiceInv' /\ Collections' = Collections /\ Promised!Get(p, Answer("missing", {}, 0))
      BY <1>1, <3>1, Replying
    <3>3. Promised!Missing(p)
      BY <1>0, <1>1, <1>4, <2>1, <2>2, <3>1, <3>2 DEF Promised!Missing, Promised!Of, Promised!Answer, Answer
    <3> QED  BY <3>2, <3>3 DEF Simulates, Promised!Next, Promised!Serve
  <2>3. CASE req[p].op = "create"
    <3>1. Reply(p, Answer("exists", {}, 0), object, registry) /\ registry[req[p].name] # None
      BY <1>9, <2>3 DEF Refuse
    <3>2. ServiceInv' /\ Collections' = Collections /\ Promised!Get(p, Answer("exists", {}, 0))
      BY <1>1, <3>1, Replying
    <3>3. Promised!Exists(p)
      BY <1>0, <1>1, <1>4, <2>1, <2>3, <3>1, <3>2 DEF Promised!Exists, Promised!Of, Promised!Answer, Answer
    <3> QED  BY <3>2, <3>3 DEF Simulates, Promised!Next, Promised!Serve
  <2> QED  BY <2>1, <2>2, <2>3
<1> QED  BY <1>6, <1>7, <1>8, <1>9

\* The calls that only read the collection, the last of a request.
LEMMA ReadAnswers ==
    ASSUME Faults = {}, ServiceInv, IndInv', NEW p \in Procs,
           GetDocument(p) \/ Query(p) \/ Stats(p) \/ Count(p)
    PROVE  ServiceInv' /\ Simulates
<1> USE NoneAssumption
<1>1. PICK a : /\ Reply(p, a, object, registry) /\ pc[p] = "read"
               /\ UNCHANGED <<server, made, stored>>
               /\ req[p].op \in {"get", "query", "stats", "count"} /\ req[p].name # None
               /\ req[p].op = "get" =>
                     a = Answer(IF req[p].doc \in Found(p) THEN "ok" ELSE "missing", {}, 0)
               /\ req[p].op = "query" =>
                     a = IF Mine(p).closed THEN Answer("failed", {}, 0) ELSE Answer("ok", Mine(p).docs, 0)
               /\ req[p].op = "stats" => a = Answer("ok", {}, Cardinality(Served(p)))
               /\ req[p].op = "count" => a = Answer("ok", ans[p].items, Cardinality(Served(p)))
  BY DEF GetDocument, GetFrom, Query, Stats, Count, Read, disk, ServiceInv, IndInv, Places
<1>2. ServiceInv' /\ Collections' = Collections /\ Promised!Get(p, a)
  BY <1>1, Replying
<1>3. /\ Asked[p].name = req[p].name /\ Asked[p].doc = req[p].doc /\ req[p].name \in Names
      /\ Asked[p].op = IF req[p].op = "stats" THEN "info" ELSE req[p].op
      /\ ~Listing(p)
  BY <1>1, Serving
<1>4. CASE Mine(p).closed
  <2>1. p \in Late /\ Found(p) = {} /\ Cardinality(Served(p)) = 0
    BY <1>1, <1>4, Serving, FS_EmptySet DEF Found, Served
  <2>2. req[p].op # "count" => ans[p].items = {}
    BY <1>1, <1>3 DEF ServiceInv, Asking, Asks, NoAnswer, Answer
  <2>3. Promised!TooLate(p)
    BY <1>1, <1>2, <1>3, <1>4, <2>1, <2>2 DEF Promised!TooLate, Promised!Answer, Answer
  <2> QED  BY <1>2, <2>3 DEF Simulates, Promised!Next, Promised!Serve
<1>5. CASE ~Mine(p).closed
  <2>1. /\ p \notin Late /\ Promised!Of(p) = Mine(p).docs /\ Mine(p).docs # None
        /\ Served(p) = Mine(p).docs /\ Found(p) = Mine(p).docs
    BY <1>1, <1>3, <1>5, Serving DEF Promised!Of, Served, Found
  <2>2. Promised!Fetch(p) \/ Promised!Query(p) \/ Promised!Info(p) \/ Promised!Total(p)
    BY <1>1, <1>2, <1>3, <1>5, <2>1, SameCardinality DEF Promised!Fetch, Promised!Query, Promised!Info, Promised!Total,
       Promised!Finds, Promised!Answer, Answer
  <2> QED  BY <1>2, <2>2 DEF Simulates, Promised!Next, Promised!Serve
<1> QED  BY <1>4, <1>5

\* A listing counts the documents of one more collection, which nobody drops
\* while it has m.mu.
LEMMA TellStep ==
    ASSUME ServiceInv, IndInv', NEW p \in Procs, ListStat(p)
    PROVE  ServiceInv' /\ Simulates
<1> USE NoneAssumption
<1> DEFINE h == held[p]
           n == Mine(p).name
           total == Cardinality(Served(p))
<1>1. /\ pc[p] = "read" /\ req[p].op = "stats" /\ req[p].name = None
      /\ pc' = [pc EXCEPT ![p] = "each"] /\ req' = [req EXCEPT ![p].op = "list"]
      /\ held' = [held EXCEPT ![p] = None] /\ todo' = [todo EXCEPT ![p] = @ \ {h}]
      /\ ans' = [ans EXCEPT ![p].items = @ \union {<<n, total>>}]
      /\ UNCHANGED <<server, registry, object, made, stored>>
  BY DEF ListStat, disk
<1>2. /\ Listing(p) /\ p \in readers[Mgr] /\ server # "down"
      /\ h \in Handles /\ h \in todo[p] /\ object[h] \in Object /\ n \in Names /\ registry[n] = h
  <2>1. Listing(p) /\ p \in readers[Mgr] /\ server # "down"
    BY <1>1 DEF ServiceInv, IndInv, Listing, LockInv, Places
  <2>2. h \in Handles /\ h \in todo[p] /\ object[h] \in Object
    BY <1>1 DEF ServiceInv, IndInv, Holding, TypeOK
  <2>3. PICK m \in Names : registry[m] = h
    BY <2>2 DEF ServiceInv, IndInv, Holding
  <2>4. m = n
    BY <2>2, <2>3 DEF ServiceInv, IndInv, RegistryInv, Mine
  <2> QED  BY <2>1, <2>2, <2>3, <2>4
<1>3. ~object[h].closed
  BY <1>2, RegisteredOpen
<1>4. /\ Collections[n] = object[h].docs /\ object[h].docs # None
      /\ total = Cardinality(object[h].docs)
  BY <1>2, <1>3 DEF Collections, Served, Mine, Object
<1>5. \A m \in Names : Collections[m] = None <=> registry[m] = None
  <2>1. \A m \in Names : registry[m] # None => ~object[registry[m]].closed /\ object[registry[m]] \in Object
    BY <1>2, RegisteredOpen DEF ServiceInv, IndInv, TypeOK
  <2> QED  BY <1>2, <2>1 DEF Collections, Object
<1>6. Promised!Existing = Registered
  BY <1>5 DEF Promised!Existing, Registered
<1>7. Counted(p) = {m \in Registered : registry[m] \notin todo[p]} /\ Promised!Told(p) = Counted(p)
  BY <1>2 DEF ServiceInv, Telling, Tells, Counted, Promised!Told
<1>8. n \in Promised!Existing \ Promised!Told(p)
  BY <1>2, <1>6, <1>7 DEF Registered
<1>9. \A m \in Names : registry[m] = h => m = n
  BY <1>2 DEF ServiceInv, IndInv, RegistryInv
<1> HIDE DEF h, n, total
<1>10. /\ ans'[p].items = ans[p].items \union {<<n, total>>} /\ todo'[p] = todo[p] \ {h}
       /\ pc'[p] = "each" /\ held'[p] = None
       /\ req'[p] = [req[p] EXCEPT !.op = "list"] /\ req'[p].op = "list"
       /\ \A q \in Procs \ {p} : /\ ans'[q] = ans[q] /\ todo'[q] = todo[q] /\ pc'[q] = pc[q]
                                 /\ held'[q] = held[q] /\ req'[q] = req[q]
  BY <1>1 DEF ServiceInv, IndInv, TypeOK, Answers
<1>11. Telling'
  <2>1. Tells(p)'
    <3>1. Counted(p)' = Counted(p) \union {n}
      <4>1. <<n, total>>[1] = n
        OBVIOUS
      <4>2. Counted(p)' = {item[1] : item \in ans[p].items \union {<<n, total>>}}
        BY <1>10 DEF Counted
      <4> QED  BY <4>1, <4>2 DEF Counted
    <3>2. {m \in Registered' : registry'[m] \notin todo'[p]}
          = {m \in Registered : registry[m] \notin todo[p]} \union {n}
      BY <1>1, <1>2, <1>9, <1>10 DEF Registered, ServiceInv, IndInv, TypeOK
    <3> QED  BY <1>7, <3>1, <3>2 DEF Tells
  <2>2. \A q \in Procs \ {p} : Tells(q)'
    BY <1>1, <1>10 DEF ServiceInv, Telling, Tells, Counted, Registered, Listing
  <2> QED  BY <2>1, <2>2 DEF Telling
<1>12. Asking'
  BY <1>10 DEF ServiceInv, Asking, Asks, Listing
<1>13. LiveMirrorsDisk' /\ Clean'
  BY <1>1 DEF ServiceInv, LiveMirrorsDisk, Clean
<1>14. Dying'
  BY <1>1, <1>10 DEF ServiceInv, Dying
<1>15. Collections' = Collections
  BY <1>1 DEF Collections
<1>16. Asked'[p] = Asked[p] /\ Asked[p].op = "list"
  <2>1. Asked[p] = [req[p] EXCEPT !.op = "list"] /\ Asked'[p] = req'[p]
    BY <1>1, <1>10 DEF Asked
  <2> QED  BY <1>10, <2>1
<1>17. Asked' = Asked
  BY <1>10, <1>16 DEF Asked
<1>18. Late' = Late
  <2>1. p \notin Late /\ p \notin Late'
    BY <1>3, <1>10 DEF Late, h
  <2> QED  BY <1>1, <1>10, <2>1 DEF Late
<1>19. Promised!Tell(p, n)
  BY <1>1, <1>4, <1>8, <1>15, <1>16, <1>17, <1>18, SameCardinality DEF Promised!Tell
<1> QED  BY <1>2, <1>11, <1>12, <1>13, <1>14, <1>19 DEF Simulates, Promised!Next, Promised!Serve, ServiceInv

LEMMA PageStep ==
    ASSUME ServiceInv, IndInv', NEW p \in Procs, ListDocs(p)
    PROVE  ServiceInv' /\ Simulates
<1> USE NoneAssumption
<1>1. /\ pc[p] = "read" /\ req[p].op = "listdocs" /\ UNCHANGED <<server, made, stored>>
      /\ req[p].name # None
  BY DEF ListDocs, Read, ReadOn, disk, ServiceInv, IndInv, Places
<1>4. /\ Asked[p].name = req[p].name /\ Asked[p].op = "listdocs" /\ req[p].name \in Names
      /\ ~Listing(p)
  BY <1>1, Serving
<1>2. CASE Mine(p).closed
  <2>1. Reply(p, Answer("failed", {}, 0), object, registry) /\ p \in Late
    BY <1>1, <1>2, Serving DEF ListDocs, Read, ReadOn
  <2>2. ServiceInv' /\ Collections' = Collections /\ Promised!Get(p, Answer("failed", {}, 0))
    BY <1>1, <2>1, Replying
  <2>3. Promised!TooLate(p)
    BY <1>1, <1>4, <2>1, <2>2 DEF Promised!TooLate, Promised!Answer, Answer
  <2> QED  BY <2>2, <2>3 DEF Simulates, Promised!Next, Promised!Serve
<1>3. CASE ~Mine(p).closed
  <2>1. /\ p \notin Late /\ Promised!Of(p) = Mine(p).docs /\ Mine(p).docs # None
    BY <1>1, <1>3, <1>4, Serving DEF Promised!Of
  <2>2. /\ req' = [req EXCEPT ![p].op = "count"] /\ pc' = [pc EXCEPT ![p] = "rlock"]
        /\ ans' = [ans EXCEPT ![p].items = Mine(p).docs]
        /\ UNCHANGED <<registry, object, held, todo>>
    BY <1>3 DEF ListDocs, Read, ReadOn
  <2>3. LiveMirrorsDisk' /\ Clean' /\ Dying'
    BY <1>1, <2>2 DEF ServiceInv, IndInv, LiveMirrorsDisk, Clean, Dying, TypeOK
  <2>4. Asking'
    BY <1>1, <1>4, <2>2 DEF ServiceInv, IndInv, Asking, Asks, Listing, TypeOK
  <2>9. Telling'
    BY <1>1, <1>4, <2>2 DEF ServiceInv, IndInv, Telling, Tells, Counted, Registered, Listing, TypeOK
  <2>5. Collections' = Collections
    BY <1>1, <2>2 DEF Collections
  <2>6. Late' = Late
    BY <1>1, <2>2 DEF ServiceInv, IndInv, TypeOK, Late
  <2>7. Asked' = [Asked EXCEPT ![p].op = "count"]
    <3>1. req'[p] = [req[p] EXCEPT !.op = "count"] /\ req'[p].op = "count" /\ pc'[p] = "rlock"
          /\ \A q \in Procs \ {p} : pc'[q] = pc[q] /\ req'[q] = req[q]
      BY <2>2 DEF ServiceInv, IndInv, TypeOK
    <3>2. Asked[p] = req[p] /\ Asked'[p] = req'[p]
      BY <1>1, <3>1 DEF Asked
    <3>3. Asked' = [Asked EXCEPT ![p] = [Asked[p] EXCEPT !.op = "count"]]
      BY <3>1, <3>2, OneAsks
    <3> QED  BY <3>3
  <2>8. Promised!Page(p)
    BY <1>1, <1>4, <2>1, <2>2, <2>5, <2>6, <2>7 DEF Promised!Page, Promised!Finds
  <2> QED  BY <2>3, <2>4, <2>8, <2>9 DEF Simulates, Promised!Next, Promised!Serve, ServiceInv
<1> QED  BY <1>2, <1>3

-----------------------------------------------------------------------------
\* A document is stored or removed, in memory and on disk at once.
LEMMA WriteAnswers ==
    ASSUME Faults = {}, ServiceInv, IndInv', NEW p \in Procs, UpsertDocument(p) \/ DeleteDocument(p)
    PROVE  ServiceInv' /\ Simulates
<1> USE NoneAssumption
<1> DEFINE n == req[p].name
           d == req[p].doc
           h == held[p]
<1>1. PICK op \in DocOps :
         /\ Enter(p, op)
         /\ op = "upsert" => UpsertDocument(p)
         /\ op = "delete" => DeleteDocument(p)
  BY DEF UpsertDocument, DeleteDocument, DocOps
<1>2. /\ pc[p] = "enter" /\ req[p].op = op /\ op \in {"upsert", "delete"} /\ UNCHANGED <<server, made>>
      /\ h \in Handles /\ object[h] \in Object /\ n \in Names /\ d \in Docs /\ Mine(p).name = n
  <2>1. pc[p] = "enter" /\ req[p].op = op /\ op \in {"upsert", "delete"} /\ UNCHANGED <<server, made>>
    BY <1>1 DEF Enter, DocOps
  <2>2. h \in Handles /\ object[h] \in Object /\ n \in Names /\ d \in Docs /\ Mine(p).name = n
    BY <1>1, EnterStep DEF ServiceInv
  <2> QED  BY <2>1, <2>2
<1>5. /\ Asked[p].name = n /\ Asked[p].doc = d /\ Asked[p].op = op
      /\ Mine(p).closed => p \in Late
      /\ ~Mine(p).closed =>
           /\ p \notin Late /\ registry[n] = h /\ Collections[n] = Mine(p).docs
           /\ stored[n] = Mine(p).docs /\ Mine(p).docs \in SUBSET Docs
      /\ server # "down"
  BY <1>2, Serving
<1>6. ~Mine(p).closed =>
         /\ Promised!Of(p) = Mine(p).docs /\ Found(p) = Mine(p).docs /\ Mine(p).docs # None
  BY <1>2, <1>5 DEF Promised!Of, Found
<1>3. CASE Mine(p).closed
  <2>1. Reply(p, Answer("failed", {}, 0), object, registry) /\ stored' = stored
    BY <1>1, <1>2, <1>3 DEF UpsertDocument, DeleteDocument, Spoil
  <2>2. ServiceInv' /\ Collections' = Collections /\ Promised!Get(p, Answer("failed", {}, 0))
    BY <1>2, <2>1, Replying
  <2>3. Promised!TooLate(p)
    BY <1>2, <1>3, <1>5, <2>2 DEF Promised!TooLate, Promised!Answer, Answer
  <2> QED  BY <2>2, <2>3 DEF Simulates, Promised!Next, Promised!Serve
<1>7. CASE ~Mine(p).closed /\ op = "delete" /\ d \notin Found(p)
  <2>1. Reply(p, Answer("missing", {}, 0), object, registry) /\ stored' = stored
    BY <1>1, <1>2, <1>7 DEF DeleteDocument, Spoil
  <2>2. ServiceInv' /\ Collections' = Collections /\ Promised!Get(p, Answer("missing", {}, 0))
    BY <1>2, <2>1, Replying
  <2>3. Collections' = [Collections EXCEPT ![n] = Promised!Of(p) \ {d}]
    <3>1. Promised!Of(p) \ {d} = Collections[n]
      BY <1>5, <1>6, <1>7
    <3>2. Collections = [Collections EXCEPT ![n] = Collections[n]]
      BY <1>2 DEF Collections
    <3> QED  BY <2>2, <3>1, <3>2
  <2>4. Promised!Delete(p)
    BY <1>2, <1>5, <1>6, <1>7, <2>2, <2>3
    DEF Promised!Delete, Promised!Finds, Promised!Of, Promised!Answer, Answer
  <2> QED  BY <2>2, <2>4 DEF Simulates, Promised!Next, Promised!Serve
<1>4. CASE ~Mine(p).closed /\ (op = "upsert" \/ d \in Found(p))
  <2> DEFINE docs == IF op = "upsert" THEN Mine(p).docs \union {d} ELSE Mine(p).docs \ {d}
             obj == [object EXCEPT ![h].docs = docs]
             a == Answer("ok", {}, 0)
  <2>1. /\ p \notin Late /\ registry[n] = h /\ Collections[n] = Mine(p).docs
        /\ stored[n] = Mine(p).docs /\ Mine(p).docs \in SUBSET Docs /\ server # "down"
    BY <1>4, <1>5
  <2>2. Reply(p, a, obj, registry) /\ stored' = [stored EXCEPT ![n] = docs]
    <3>1. CASE op = "upsert"
      <4>1. Store(p, Mine(p).docs \union {d}, stored[n] \union {d}, "ok")
        BY <1>1, <1>2, <1>4, <3>1 DEF UpsertDocument
      <4> QED  BY <1>2, <2>1, <3>1, <4>1 DEF Store
    <3>2. CASE op = "delete"
      <4>1. Store(p, Mine(p).docs \ {d}, stored[n] \ {d}, "ok")
        BY <1>1, <1>2, <1>4, <1>6, <2>1, <3>2 DEF DeleteDocument
      <4> QED  BY <1>2, <2>1, <3>2, <4>1 DEF Store
    <3> QED  BY <1>2, <3>1, <3>2
  <2>3. /\ \A g \in Handles \ {h} : obj[g] = object[g]
        /\ obj[h] # None /\ obj[h].name = n /\ ~obj[h].closed /\ obj[h].docs = docs
    <3>1. obj[h] \in Object
      BY <1>2, <2>1 DEF ServiceInv, IndInv, TypeOK, Object, Mine
    <3> QED  BY <1>2, <1>4, <3>1 DEF ServiceInv, IndInv, TypeOK, Object, Mine
  <2>4. docs \in SUBSET Docs
    BY <1>2, <2>1
  <2> HIDE DEF obj, docs
  <2>5. /\ pc' = [pc EXCEPT ![p] = "idle"] /\ req' = [req EXCEPT ![p] = NoRequest]
        /\ held' = [held EXCEPT ![p] = None] /\ ans' = [ans EXCEPT ![p] = a]
        /\ registry' = registry
    BY <2>2 DEF Reply
  <2>6. /\ \A g \in Handles : object'[g] = obj[g] \/ object'[g] = None
        /\ \A m \in Names : registry[m] # None => object'[registry[m]] = obj[registry[m]]
        /\ \A q \in Procs : held'[q] # None => object'[held'[q]] = obj[held'[q]]
    BY <2>2 DEF Reply, Reachable, ServiceInv, IndInv, TypeOK
  <2>7. LiveMirrorsDisk'
    <3> SUFFICES ASSUME NEW g \in Handles, object'[g] # None, ~object'[g].closed
                 PROVE  object'[g].name \in made' /\ object'[g].docs = stored'[object'[g].name]
      BY DEF LiveMirrorsDisk
    <3>1. object'[g] = obj[g]
      BY <2>6
    <3>2. CASE g = h
      BY <1>2, <1>4, <2>1, <2>2, <2>3, <3>1, <3>2 DEF ServiceInv, IndInv, LiveMirrorsDisk, Mine, TypeOK
    <3>3. CASE g # h
      <4>1. object[g] = object'[g] /\ object[g].name # n
        BY <1>2, <2>1, <2>3, <3>1, <3>3 DEF ServiceInv, IndInv, RegistryInv
      <4>2. stored'[object[g].name] = stored[object[g].name]
        BY <2>2, <4>1 DEF ServiceInv, IndInv, TypeOK, Object
      <4> QED  BY <1>2, <4>1, <4>2 DEF ServiceInv, LiveMirrorsDisk
    <3> QED  BY <3>2, <3>3
  <2>8. Clean'
    BY <1>2, <2>1, <2>2, <2>5 DEF ServiceInv, IndInv, Clean, TypeOK
  <2>9. Dying'
    <3> SUFFICES ASSUME NEW m \in Names, registry[m] # None, object'[registry[m]].closed
                 PROVE  \E q \in Procs : pc'[q] = "purge" /\ held'[q] = registry[m]
      BY <2>5 DEF Dying
    <3>1. registry[m] \in Handles /\ registry[m] # h /\ object[registry[m]].closed
      BY <2>3, <2>6 DEF ServiceInv, IndInv, TypeOK
    <3>2. PICK q \in Procs : pc[q] = "purge" /\ held[q] = registry[m]
      BY <3>1 DEF ServiceInv, Dying
    <3> QED  BY <1>2, <2>5, <3>2 DEF ServiceInv, IndInv, TypeOK
  <2>10. Asking'
    BY <2>5 DEF ServiceInv, IndInv, Asking, Asks, Listing, TypeOK, NoRequest
  <2>16. Telling'
    <3>1. todo' = [todo EXCEPT ![p] = {}]
      BY <2>2 DEF Reply
    <3> QED  BY <2>5, <3>1 DEF ServiceInv, IndInv, Telling, Tells, Counted, Registered, Listing, TypeOK
  <2>11. Collections' = [Collections EXCEPT ![n] = docs]
    <3>1. \A m \in Names \ {n} : registry[m] # h
      BY <1>2, <2>1 DEF ServiceInv, IndInv, RegistryInv, Mine
    <3>2. Collections'[n] = docs
      BY <1>2, <2>1, <2>3, <2>5, <2>6 DEF Collections
    <3>3. ASSUME NEW m \in Names \ {n} PROVE Collections'[m] = Collections[m]
      <4>1. registry[m] # None => object'[registry[m]] = object[registry[m]]
        <5>1. registry[m] \in Handles \union {None}
          BY DEF ServiceInv, IndInv, TypeOK
        <5> QED  BY <2>3, <2>6, <3>1, <5>1
      <4>2. server' = server /\ registry' = registry /\ server # "down"
        BY <1>2, <2>1, <2>5
      <4> QED  BY <4>1, <4>2 DEF Collections
    <3>4. \A m \in Names \ {n} : Collections'[m] = Collections[m]
      BY <3>3
    <3>5. Collections = [m \in Names |-> Collections[m]] /\ Collections' = [m \in Names |-> Collections'[m]]
      BY DEF Collections
    <3> QED  BY <1>2, <3>2, <3>4, <3>5
  <2>12. Asked' = [Asked EXCEPT ![p] = NoRequest]
    BY <1>2, <2>5 DEF ServiceInv, IndInv, Asked, TypeOK, NoRequest
  <2>13. Late' = Late \ {p}
    <3>1. \A q \in Procs \ {p} : held[q] # None => (object'[held[q]].closed <=> object[held[q]].closed)
      BY <1>2, <1>4, <2>3, <2>5, <2>6 DEF ServiceInv, IndInv, TypeOK, Mine
    <3> QED  BY <2>5, <3>1 DEF ServiceInv, IndInv, TypeOK, Late
  <2>14. Promised!Get(p, a)
    BY <2>5, <2>12, <2>13 DEF Promised!Get, Promised!NoRequest, NoRequest
  <2>15. Promised!Upsert(p) \/ Promised!Delete(p)
    <3>1. CASE op = "upsert"
      <4>1. docs = Promised!Of(p) \union {d}
        BY <1>4, <1>6, <3>1 DEF docs
      <4> QED  BY <1>2, <1>4, <1>5, <1>6, <2>1, <2>11, <2>14, <3>1, <4>1
          DEF Promised!Upsert, Promised!Finds, Promised!Of, Promised!Answer, Answer
    <3>2. CASE op = "delete"
      <4>1. docs = Promised!Of(p) \ {d} /\ d \in Promised!Of(p)
        BY <1>4, <1>6, <3>2 DEF docs
      <4> QED  BY <1>2, <1>4, <1>5, <1>6, <2>1, <2>11, <2>14, <3>2, <4>1
          DEF Promised!Delete, Promised!Finds, Promised!Of, Promised!Answer, Answer
    <3> QED  BY <1>2, <3>1, <3>2
  <2> QED  BY <2>7, <2>8, <2>9, <2>10, <2>15, <2>16 DEF Simulates, Promised!Next, Promised!Serve, ServiceInv
<1> QED  BY <1>2, <1>3, <1>4, <1>7

-----------------------------------------------------------------------------
LEMMA CreateAnswers ==
    ASSUME ServiceInv, IndInv', NEW p \in Procs, NEW h \in Handles, Create(p, h)
    PROVE  ServiceInv' /\ Simulates
<1> USE NoneAssumption
<1> DEFINE n == req[p].name
           new == [name |-> n, closed |-> FALSE, docs |-> {}]
<1>1. /\ pc[p] = "menter" /\ owner[Mgr] = p /\ req[p].op = "create" /\ server # "down"
      /\ n \in Names /\ registry[n] = None /\ object[h] = None /\ held[p] = None
      /\ made' = made \union {n} /\ registry' = [registry EXCEPT ![n] = h]
      /\ object' = [object EXCEPT ![h] = new] /\ held' = [held EXCEPT ![p] = h]
      /\ pc' = [pc EXCEPT ![p] = "rlock"] /\ req' = [req EXCEPT ![p].op = "info"]
      /\ UNCHANGED <<server, stored, ans>> /\ readers[Mgr] = {}
  BY DEF Create, Locked, ServiceInv, IndInv, Holding, Places
<1>2. new \in Object /\ new # None /\ new.name = n /\ ~new.closed /\ new.docs = {}
  <2>1. new \in Object
    BY <1>1 DEF Object
  <2> QED  BY <2>1
<1> HIDE DEF new
<1>3. /\ \A m \in Names : registry[m] # h
      /\ \A q \in Procs : held[q] # h
  BY <1>1 DEF ServiceInv, IndInv, TypeOK
<1>4. stored[n] = {} /\ n \notin made
  BY <1>1 DEF ServiceInv, Clean
<1>5. LiveMirrorsDisk'
  <2> SUFFICES ASSUME NEW g \in Handles, object'[g] # None, ~object'[g].closed
               PROVE  object'[g].name \in made' /\ object'[g].docs = stored'[object'[g].name]
    BY DEF LiveMirrorsDisk
  <2>1. CASE g = h
    <3>1. object'[g] = new /\ n \in made'
      BY <1>1, <2>1 DEF ServiceInv, IndInv, TypeOK
    <3> QED  BY <1>1, <1>2, <1>4, <3>1
  <2>2. CASE g # h
    <3>1. object'[g] = object[g]
      BY <1>1, <2>2 DEF ServiceInv, IndInv, TypeOK
    <3> QED  BY <1>1, <3>1 DEF ServiceInv, LiveMirrorsDisk
  <2> QED  BY <2>1, <2>2
<1>6. Clean'
  BY <1>1 DEF ServiceInv, IndInv, TypeOK, Clean
<1>7. Dying'
  BY <1>1, <1>2, <1>3 DEF ServiceInv, IndInv, TypeOK, Dying
<1>8. req'[p].op = "info" /\ \A q \in Procs \ {p} : req'[q] = req[q]
  BY <1>1 DEF ServiceInv, IndInv, TypeOK
<1>9. Asking'
  BY <1>1, <1>8 DEF ServiceInv, IndInv, TypeOK, Asking, Asks, Listing
<1>14. Telling'
  BY <1>1, <1>8 DEF ServiceInv, IndInv, LockInv, TypeOK, Telling, Tells, Listing
<1>10. Collections' = [Collections EXCEPT ![n] = {}]
  <2>1. Collections'[n] = {}
    BY <1>1, <1>2 DEF Collections, ServiceInv, IndInv, TypeOK
  <2>2. \A m \in Names \ {n} : Collections'[m] = Collections[m]
    BY <1>1, <1>3 DEF Collections, ServiceInv, IndInv, TypeOK
  <2> QED  BY <2>1, <2>2 DEF Collections
<1>11. Asked' = [Asked EXCEPT ![p].op = "info"] /\ Asked[p] = req[p]
  <2>1. /\ req'[p] = [req[p] EXCEPT !.op = "info"] /\ req'[p].name = n /\ n # None /\ pc'[p] = "rlock"
        /\ \A q \in Procs \ {p} : pc'[q] = pc[q] /\ req'[q] = req[q]
    BY <1>1 DEF ServiceInv, IndInv, TypeOK
  <2>2. [req'[p] EXCEPT !.op = "info"] = req'[p]
    BY <1>8, <2>1 DEF ServiceInv, IndInv, TypeOK
  <2>3. Asked[p] = req[p] /\ Asked'[p] = [req[p] EXCEPT !.op = "info"]
    BY <1>1, <1>8, <2>1, <2>2 DEF Asked
  <2>4. Asked' = [Asked EXCEPT ![p] = [Asked[p] EXCEPT !.op = "info"]]
    BY <2>1, <2>3, OneAsks
  <2> QED  BY <2>3, <2>4
<1>12. Late' = Late
  BY <1>1, <1>2, <1>3 DEF Late, ServiceInv, IndInv, TypeOK
<1>13. Promised!Create(p)
  BY <1>1, <1>10, <1>11, <1>12 DEF Promised!Create, Promised!Of, Collections
<1> QED  BY <1>5, <1>6, <1>7, <1>9, <1>13, <1>14 DEF Simulates, Promised!Next, Promised!Serve, ServiceInv

\* To clients a collection is gone when it is marked closed.
LEMMA DestroyAnswers ==
    ASSUME ServiceInv, IndInv', NEW p \in Procs, Destroy(p)
    PROVE  ServiceInv' /\ Simulates
<1> USE NoneAssumption
<1> DEFINE h == held[p]
           n == req[p].name
<1>1. /\ pc[p] = "destroy" /\ h \in Handles /\ object[h] \in Object /\ server # "down"
      /\ owner[Mgr] = p /\ owner[h] = p /\ readers[h] = {} /\ readers[Mgr] = {}
      /\ n \in Names /\ req[p].op = "drop" /\ registry[n] = h /\ object[h].name = n
      /\ pc' = [pc EXCEPT ![p] = "purge"]
      /\ UNCHANGED <<server, registry, made, stored, req, held, ans>>
  <2>1. /\ pc[p] = "destroy" /\ owner[h] = p /\ readers[h] = {}
        /\ pc' = [pc EXCEPT ![p] = "purge"]
        /\ UNCHANGED <<server, registry, made, stored, req, held, ans>>
    BY DEF Destroy, Locked, Goto
  <2>2. owner[Mgr] = p /\ readers[Mgr] = {}
    BY <2>1 DEF ServiceInv, IndInv, LockInv
  <2>3. server # "down" /\ n \in Names /\ req[p].op = "drop"
    BY <2>1 DEF ServiceInv, IndInv, Places
  <2>4. h \in Handles /\ object[h] \in Object /\ registry[n] = h /\ object[h].name = n
    BY <2>1, <2>3 DEF ServiceInv, IndInv, Holding, TypeOK
  <2> QED  BY <2>1, <2>2, <2>3, <2>4
<1>2. /\ \A g \in Handles \ {h} : object'[g] = object[g]
      /\ object'[h] # None /\ object'[h].closed /\ object'[h].name = n
  <2>1. object' = [object EXCEPT ![held[p]].closed = TRUE] /\ object \in [Handles -> Object \union {None}]
    BY DEF Destroy, ServiceInv, IndInv, TypeOK
  <2> QED  BY <1>1, <2>1 DEF Object
<1>3. ~object[h].closed
  BY <1>1, RegisteredOpen
<1>4. \A m \in Names \ {n} : registry[m] # h
  BY <1>1 DEF ServiceInv, IndInv, RegistryInv
<1>5. LiveMirrorsDisk' /\ Clean'
  BY <1>1, <1>2 DEF ServiceInv, LiveMirrorsDisk, Clean
<1>6. Dying'
  BY <1>1, <1>2, <1>4 DEF ServiceInv, IndInv, TypeOK, Dying
<1>7. Asking' /\ Telling'
  BY <1>1 DEF ServiceInv, IndInv, TypeOK, LockInv, Asking, Asks, Telling, Tells, Listing
<1>8. Collections' = [Collections EXCEPT ![n] = None]
  <2>1. Collections'[n] = None
    BY <1>1, <1>2 DEF Collections
  <2>2. \A m \in Names \ {n} : Collections'[m] = Collections[m]
    BY <1>1, <1>2, <1>4 DEF Collections, ServiceInv, IndInv, TypeOK
  <2> QED  BY <2>1, <2>2 DEF Collections
<1>9. Asked' = [Asked EXCEPT ![p].op = "dropped"] /\ Asked[p] = req[p]
  BY <1>1 DEF Asked, ServiceInv, IndInv, TypeOK
<1> DEFINE S == {q \in Procs \ {p} : held[q] = h}
<1>10. S \in SUBSET {q \in Procs \ {p} : Asked[q].name = n}
  <2> SUFFICES ASSUME NEW q \in Procs \ {p}, held[q] = h PROVE Asked[q].name = n
    OBVIOUS
  <2>1. ~Listing(q) /\ pc[q] # "purge"
    BY <1>1 DEF ServiceInv, IndInv, LockInv
  <2>2. req[q].name = n /\ n # None
    BY <1>1, <2>1 DEF ServiceInv, IndInv, Holding, Places, Listing
  <2>3. Asked[q].name = req[q].name
    BY <2>1 DEF Asked, ServiceInv, IndInv, TypeOK
  <2> QED  BY <2>2, <2>3
<1>11. \A q \in Procs \ {p} : pc[q] # "purge"
  BY <1>1 DEF ServiceInv, IndInv, LockInv
<1>12. Late' = Late \union S
  <2>1. p \notin Late /\ p \notin Late'
    BY <1>1, <1>3 DEF Late, ServiceInv, IndInv, TypeOK
  <2>2. \A q \in Procs \ {p} : q \in Late' <=> q \in Late \/ held[q] = h
    BY <1>1, <1>2, <1>11 DEF Late, ServiceInv, IndInv, TypeOK
  <2>3. Late \in SUBSET Procs /\ Late' \in SUBSET Procs
    BY DEF Late
  <2> QED  BY <2>1, <2>2, <2>3
<1>13. Promised!Drop(p)
  <2>1. Promised!Finds(p, "drop")
    BY <1>1, <1>3, <1>9 DEF Promised!Finds, Promised!Of, Collections, Late, Object
  <2>2. \E T \in SUBSET {q \in Procs \ {p} : Asked[q].name = Asked[p].name} : Late' = Late \union T
    BY <1>9, <1>10, <1>12
  <2> QED  BY <1>1, <1>8, <1>9, <2>1, <2>2 DEF Promised!Drop
<1> QED  BY <1>5, <1>6, <1>7, <1>13 DEF Simulates, Promised!Next, Promised!Serve, ServiceInv

LEMMA PurgeAnswers ==
    ASSUME ServiceInv, IndInv', NEW p \in Procs, Purge(p)
    PROVE  ServiceInv' /\ Simulates
<1> USE NoneAssumption
<1> DEFINE n == Mine(p).name
<1>1. /\ pc[p] = "purge" /\ n \in Names /\ registry[n] = held[p] /\ object[held[p]].closed
      /\ held[p] # None /\ server # "down"
      /\ UNCHANGED <<server, registry, object, pc, req, held, todo, ans>>
  BY DEF Purge, Mine, ServiceInv, IndInv, Places, Holding, TypeOK, progress
<1>2. \/ made' = made \ {n} /\ stored' = stored
      \/ stored' = [stored EXCEPT ![n] = {}] /\ made' = made
  BY DEF Purge
<1> HIDE DEF n
<1>3. \A h \in Handles : object[h] # None /\ ~object[h].closed => object[h].name # n
  BY <1>1 DEF ServiceInv, IndInv, RegistryInv
<1>4. LiveMirrorsDisk'
  BY <1>1, <1>2, <1>3 DEF ServiceInv, IndInv, LiveMirrorsDisk, TypeOK, Object
<1>5. Clean'
  BY <1>1, <1>2 DEF ServiceInv, IndInv, Clean, TypeOK
<1>6. Dying' /\ Asking' /\ Telling'
  BY <1>1 DEF ServiceInv, Dying, Asking, Asks, Telling, Tells, Counted, Registered, Listing
<1>7. Collections' = Collections /\ Asked' = Asked /\ Late' = Late
  BY <1>1 DEF Collections, Asked, Late
<1> QED  BY <1>1, <1>4, <1>5, <1>6, <1>7 DEF Simulates, Promised!vars, ServiceInv

LEMMA DroppedAnswers ==
    ASSUME Faults = {}, ServiceInv, IndInv', NEW p \in Procs, Dropped(p)
    PROVE  ServiceInv' /\ Simulates
<1> USE NoneAssumption
<1> DEFINE n == Mine(p).name
           h == held[p]
           reg == [registry EXCEPT ![n] = None]
           a == Answer("ok", {}, 0)
<1>1. /\ pc[p] = "purge" /\ h \in Handles /\ n \in Names /\ registry[n] = h /\ object[h].closed
      /\ server # "down" /\ n = req[p].name /\ req[p].op = "drop"
  <2>1. pc[p] = "purge"
    BY DEF Dropped
  <2>2. server # "down" /\ req[p].name \in Names /\ req[p].op = "drop"
    BY <2>1 DEF ServiceInv, IndInv, Places
  <2>3. h \in Handles
    BY <2>1 DEF ServiceInv, IndInv, Holding, TypeOK
  <2>4. object[h].name = req[p].name /\ object[h].closed /\ registry[req[p].name] = h
    BY <2>1, <2>2, <2>3 DEF ServiceInv, IndInv, Holding
  <2> QED  BY <2>1, <2>2, <2>3, <2>4 DEF Mine
<1>2. /\ Reply(p, a, object, reg) /\ UNCHANGED <<server, made, stored>>
      /\ n \notin made /\ stored[n] = {}
  BY DEF Dropped, disk
<1>3. reg[n] = None /\ \A m \in Names \ {n} : reg[m] = registry[m]
  BY <1>1 DEF ServiceInv, IndInv, TypeOK
<1>4. \A m \in Names \ {n} : registry[m] # h
  BY <1>1 DEF ServiceInv, IndInv, RegistryInv
<1> HIDE DEF reg, n
<1>5. /\ pc' = [pc EXCEPT ![p] = "idle"] /\ req' = [req EXCEPT ![p] = NoRequest]
      /\ held' = [held EXCEPT ![p] = None] /\ ans' = [ans EXCEPT ![p] = a]
      /\ registry' = reg
  BY <1>2 DEF Reply
<1>6. /\ \A g \in Handles : object'[g] = object[g] \/ object'[g] = None
      /\ \A m \in Names \ {n} : registry[m] # None => object'[registry[m]] = object[registry[m]]
      /\ \A q \in Procs : held'[q] # None => object'[held'[q]] = object[held'[q]]
  BY <1>2, <1>3 DEF Reply, Reachable, ServiceInv, IndInv, TypeOK
<1>7. LiveMirrorsDisk'
  BY <1>2, <1>6 DEF ServiceInv, LiveMirrorsDisk
<1>8. Clean'
  BY <1>2, <1>3, <1>5 DEF ServiceInv, Clean
<1>9. Dying'
  <2> SUFFICES ASSUME NEW m \in Names, reg[m] # None, object'[reg[m]].closed
               PROVE  \E q \in Procs : pc'[q] = "purge" /\ held'[q] = reg[m]
    BY <1>5 DEF Dying
  <2>1. m # n /\ registry[m] = reg[m] /\ object[registry[m]].closed
    BY <1>3, <1>6
  <2>2. PICK q \in Procs : pc[q] = "purge" /\ held[q] = registry[m]
    BY <1>3, <2>1 DEF ServiceInv, Dying
  <2> QED  BY <1>1, <1>4, <1>5, <2>1, <2>2 DEF ServiceInv, IndInv, TypeOK
<1>10. Asking' /\ Telling'
  <2>1. readers[Mgr] = {}
    BY <1>1 DEF ServiceInv, IndInv, LockInv
  <2> QED  BY <1>5, <2>1 DEF ServiceInv, IndInv, LockInv, Asking, Asks, Telling, Tells, Listing, TypeOK, NoRequest
<1>11. Collections' = Collections
  <2>1. \A m \in Names \ {n} : Collections'[m] = Collections[m]
    BY <1>1, <1>2, <1>3, <1>5, <1>6 DEF Collections
  <2>2. Collections'[n] = None /\ Collections[n] = None
    BY <1>1, <1>2, <1>3, <1>5 DEF Collections
  <2> QED  BY <2>1, <2>2 DEF Collections
<1>12. Asked[p].op = "dropped" /\ Asked' = [Asked EXCEPT ![p] = NoRequest]
  <2>1. [req[p] EXCEPT !.op = "dropped"].op = "dropped"
    BY DEF ServiceInv, IndInv, TypeOK
  <2>2. /\ req'[p] = NoRequest /\ pc'[p] = "idle"
        /\ \A q \in Procs \ {p} : pc'[q] = pc[q] /\ req'[q] = req[q]
    BY <1>5 DEF ServiceInv, IndInv, TypeOK
  <2>3. Asked[p].op = "dropped" /\ Asked'[p] = NoRequest
    BY <1>1, <2>1, <2>2 DEF Asked, NoRequest
  <2> QED  BY <2>2, <2>3, OneAsks
<1>13. Late' = Late \ {p}
  BY <1>5, <1>6 DEF ServiceInv, IndInv, TypeOK, Late
<1>14. Promised!Dropped(p)
  BY <1>5, <1>11, <1>12, <1>13 DEF Promised!Dropped, Promised!Get, Promised!NoRequest, NoRequest,
     Promised!Answer, Answer
<1> QED  BY <1>7, <1>8, <1>9, <1>10, <1>14 DEF Simulates, Promised!Next, Promised!Serve, ServiceInv

-----------------------------------------------------------------------------
\* Clients notice neither a start nor an orderly stop.
LEMMA StartUnnoticed ==
    ASSUME Faults = {}, ServiceInv, IndInv', Start
    PROVE  ServiceInv' /\ Simulates
<1> USE NoneAssumption
<1>1. Opened(made, stored)
  <2>1. PICK skipped \in SUBSET made, loaded \in [Names -> SUBSET Docs] :
           skipped = {} /\ loaded = stored /\ Opened(made \ skipped, loaded)
    BY DEF Start
  <2>2. made \ skipped = made
    BY <2>1
  <2> QED  BY <2>1, <2>2
<1> DEFINE fresh(n) == [name |-> n, closed |-> FALSE, docs |-> stored[n]]
<1>2. PICK opened \in [made -> Handles] :
        /\ \A m, n \in made : opened[m] = opened[n] => m = n
        /\ registry' = [n \in Names |-> IF n \in made THEN opened[n] ELSE None]
        /\ object' = [h \in Handles |->
              IF \E n \in made : opened[n] = h
              THEN LET n == CHOOSE n \in made : opened[n] = h IN fresh(n)
              ELSE None]
  BY <1>1 DEF Opened
<1>3. /\ server = "down" /\ server' = "serving" /\ made \in SUBSET Names
      /\ UNCHANGED <<made, stored, pc, req, held, ans>>
  BY DEF Start, ServiceInv, IndInv, TypeOK, disk, progress
<1>4. \A p \in Procs : pc[p] = "idle" /\ held[p] = None
  BY <1>3 DEF ServiceInv, IndInv, Places, Holding
<1>5. \A n \in made : registry'[n] = opened[n] /\ object'[opened[n]] = fresh(n)
  BY <1>2, <1>3
<1>6. \A h \in Handles : object'[h] # None => \E n \in made : opened[n] = h /\ object'[h] = fresh(n)
  BY <1>2
<1>7. \A n \in Names \ made : registry'[n] = None
  BY <1>2
<1>8. \A n \in made : fresh(n).name = n /\ ~fresh(n).closed /\ fresh(n).docs = stored[n]
  OBVIOUS
<1> HIDE DEF fresh
<1>9. LiveMirrorsDisk'
  BY <1>3, <1>6, <1>8 DEF LiveMirrorsDisk
<1>10. Clean' /\ Asking' /\ Telling'
  BY <1>3, <1>4, <1>5, <1>7 DEF ServiceInv, Clean, Asking, Asks, Telling, Tells, Listing
<1>11. Dying'
  BY <1>5, <1>7, <1>8 DEF Dying
<1>12. \A n \in Names : Collections'[n] = Collections[n]
  BY <1>3, <1>5, <1>7, <1>8 DEF Collections
<1>13. Collections' = Collections /\ Asked' = Asked /\ Late' = Late
  BY <1>3, <1>4, <1>12 DEF Collections, Asked, Late
<1> QED  BY <1>3, <1>9, <1>10, <1>11, <1>13 DEF Simulates, Promised!vars, ServiceInv

LEMMA ShutdownUnnoticed ==
    ASSUME ServiceInv, IndInv', Shutdown
    PROVE  ServiceInv' /\ Simulates
<1> USE NoneAssumption
<1>1. /\ server = "draining" /\ server' = "down" /\ UNCHANGED <<made, stored>>
      /\ \A p \in Procs :
            /\ pc[p] = "idle" /\ held[p] = None /\ req[p] = NoRequest
            /\ pc'[p] = "idle" /\ held'[p] = None /\ req'[p] = NoRequest
      /\ \A n \in Names : registry'[n] = None
      /\ \A h \in Handles : object'[h] = None
  BY DEF Shutdown, Gone, Idle, ServiceInv, IndInv, Places, Holding, disk
<1>2. ans' = ans
  BY <1>1 DEF Gone, Shutdown, ServiceInv, IndInv, TypeOK
<1>3. \A n \in Names :
         /\ registry[n] = None => n \notin made /\ stored[n] = {}
         /\ registry[n] # None =>
               ~object[registry[n]].closed /\ n \in made /\ object[registry[n]].docs = stored[n]
  BY <1>1 DEF ServiceInv, IndInv, Clean, Dying, LiveMirrorsDisk, RegistryInv, TypeOK
<1>4. LiveMirrorsDisk' /\ Clean' /\ Dying' /\ Asking' /\ Telling'
  <2>1. LiveMirrorsDisk' /\ Dying'
    BY <1>1 DEF LiveMirrorsDisk, Dying
  <2>2. Clean'
    BY <1>1, <1>3 DEF Clean
  <2>3. Asking' /\ Telling'
    BY <1>1 DEF Asking, Asks, Telling, Tells, Listing, NoRequest
  <2> QED  BY <2>1, <2>2, <2>3
<1>5. ASSUME NEW n \in Names PROVE Collections'[n] = Collections[n]
  <2>1. Collections'[n] = IF n \in made THEN stored[n] ELSE None
    BY <1>1 DEF Collections
  <2>2. Collections[n] = IF registry[n] = None THEN None ELSE stored[n]
    BY <1>1, <1>3 DEF Collections
  <2> QED  BY <1>3, <2>1, <2>2
<1>6. Collections' = Collections /\ Asked' = Asked /\ Late' = Late
  BY <1>1, <1>5 DEF Collections, Asked, Late
<1> QED  BY <1>2, <1>4, <1>6 DEF Simulates, Promised!vars, ServiceInv

LEMMA NothingHappens ==
    ASSUME ServiceInv, IndInv', UNCHANGED <<registry, object, made, stored, pc, req, held, todo, ans>>,
           server' = server \/ (server = "serving" /\ server' = "draining")
    PROVE  ServiceInv' /\ Simulates
<1>1. LiveMirrorsDisk' /\ Clean' /\ Dying' /\ Asking' /\ Telling'
  BY DEF ServiceInv, LiveMirrorsDisk, Clean, Dying, Asking, Asks, Telling, Tells, Counted, Registered, Listing
<1>2. Collections' = Collections /\ Asked' = Asked /\ Late' = Late
  BY DEF Collections, Asked, Late
<1> QED  BY <1>1, <1>2 DEF Simulates, Promised!vars, ServiceInv

-----------------------------------------------------------------------------
LEMMA RequestAnswers ==
    ASSUME ServiceInv, IndInv', NEW p \in Procs, Receive(p) PROVE ServiceInv' /\ Simulates
<1> USE DEF Promised!Ops
<1>1. CASE Request(p, "list", None, None) \/ Request(p, "health", None, None)
  BY <1>1, AskStep
<1>2. ASSUME NEW n \in Names, NEW op \in {"query", "listdocs", "info", "create", "drop"},
             Request(p, op, n, None)
      PROVE  ServiceInv' /\ Simulates
  BY <1>2, AskStep
<1>3. ASSUME NEW n \in Names, NEW op \in DocOps \union {"get"}, NEW d \in Docs, Request(p, op, n, d)
      PROVE  ServiceInv' /\ Simulates
  BY <1>3, AskStep DEF DocOps
<1> QED  BY <1>1, <1>2, <1>3 DEF Receive

LEMMA ProgressAnswers ==
    ASSUME Faults = {}, ServiceInv, IndInv', NEW p \in Procs, Acquire(p) \/ Advance(p)
    PROVE  ServiceInv' /\ Simulates
<1>1. ~CreateFails(p)
  BY DEF CreateFails
<1> QED  BY <1>1, WaitStep, LookStep, SchemaStep, RegistryAnswers, ReadAnswers, TellStep, PageStep,
            WriteAnswers, CreateAnswers, DestroyAnswers, PurgeAnswers, DroppedAnswers DEF Acquire, Advance

LEMMA ServiceStep ==
    ASSUME Faults = {}, ServiceInv, [Next]_vars PROVE ServiceInv' /\ Simulates
<1>1. IndInv'
  BY Stepwise DEF ServiceInv
<1>2. CASE Next
  <2>1. CASE \E p \in Procs : Receive(p) \/ Acquire(p) \/ Advance(p)
    BY <1>1, <2>1, RequestAnswers, ProgressAnswers
  <2>2. CASE Start
    BY <1>1, <2>2, StartUnnoticed
  <2>3. CASE Signal
    BY <1>1, <2>3, NothingHappens DEF Signal, disk, progress
  <2>4. CASE Shutdown
    BY <1>1, <2>4, ShutdownUnnoticed
  <2>5. ~Kill
    BY DEF Kill
  <2> QED  BY <1>2, <2>1, <2>2, <2>3, <2>4, <2>5 DEF Next
<1>3. CASE UNCHANGED vars
  BY <1>1, <1>3, NothingHappens DEF vars
<1> QED  BY <1>2, <1>3

LEMMA ServiceInitially ==
    Init => ServiceInv /\ Promised!Init
<1> SUFFICES ASSUME Init PROVE ServiceInv /\ Promised!Init
  OBVIOUS
<1> USE NoneAssumption DEF Init, AtRest, Idle
<1>1. LiveMirrorsDisk /\ Clean /\ Dying /\ Asking /\ Telling
  BY DEF LiveMirrorsDisk, Clean, Dying, Asking, Asks, Telling, Tells, Listing, NoRequest
<1>2. Collections = [n \in Names |-> None] /\ Late = {}
  BY DEF Collections, Late
<1>3. Asked = [p \in Procs |-> NoRequest]
  BY DEF Asked, NoRequest
<1> QED  BY <1>1, <1>2, <1>3, Initially DEF ServiceInv, Promised!Init, Promised!NoRequest, NoRequest,
            Promised!NoAnswer, NoAnswer, Promised!Answer, Answer

LEMMA ServiceAlways ==
    ASSUME Faults = {} PROVE Spec => []ServiceInv
<1>1. Init => ServiceInv
  BY ServiceInitially
<1>2. ServiceInv /\ [Next]_vars => ServiceInv'
  BY ServiceStep
<1> QED  BY <1>1, <1>2, PTL DEF Spec

-----------------------------------------------------------------------------
\* For any number of requests, names and documents: what an open collection
\* serves is what its directory holds, so no late request writes into the
\* directory of a later collection of the same name.
THEOREM MemoryMirrorsDisk ==
    ASSUME Faults = {} PROVE Spec => []LiveMirrorsDisk
<1>1. ServiceInv => LiveMirrorsDisk
  BY DEF ServiceInv
<1> QED  BY <1>1, ServiceAlways, PTL

\* The directory of a collection whose DELETE was answered stays empty.
THEOREM DropsErase ==
    ASSUME Faults = {} PROVE Spec => []DropErases
<1>1. ServiceInv => DropErases
  BY DEF ServiceInv, Clean, DropErases
<1> QED  BY <1>1, ServiceAlways, PTL

\* m.mu never gives out a closed collection.
THEOREM RegisteredOpenAlways ==
    ASSUME Faults = {} PROVE Spec => []RegisteredIsOpen
<1>1. ServiceInv => RegisteredIsOpen
  BY NoneAssumption DEF ServiceInv, IndInv, LockInv, Dying, RegisteredIsOpen, Readable
<1> QED  BY <1>1, ServiceAlways, PTL

\* The service implements the promise to its clients: every request acts at one
\* moment, or at the few that Service names, on collections that outlive restarts.
THEOREM Linearizable ==
    ASSUME Faults = {} PROVE Spec => ImplementsService
<1>1. Init => Promised!Init
  BY ServiceInitially
<1>2. ServiceInv /\ [Next]_vars => [Promised!Next]_(Promised!vars)
  BY ServiceStep DEF Simulates
<1> QED  BY <1>1, <1>2, ServiceAlways, PTL DEF Spec, ImplementsService, Promised!Spec

=============================================================================
