------------------------------- MODULE Manager -------------------------------
(***************************************************************************)
(* The HTTP service (server/handlers.go, manager.go, server.go): many      *)
(* requests at once over one registry of open collections.                 *)
(*                                                                         *)
(* A request that works on documents looks the collection up under m.mu,   *)
(* lets m.mu go, and only then asks for the lock of the collection it      *)
(* found: in between the collection may be dropped, and another created    *)
(* under its name.  Creating and dropping hold m.mu throughout, dropping   *)
(* takes the collection's lock inside it, and so does listing, for         *)
(* reading, three times for each collection.                               *)
(*                                                                         *)
(* What a collection does inside one call is Collection's subject; here a  *)
(* call is one step on the set of its documents, in memory and on disk,    *)
(* which its failing system calls leave different.                         *)
(***************************************************************************)
EXTENDS Naturals, FiniteSets

CONSTANTS
    Procs,    \* the goroutines that serve requests
    Names,    \* the names of collections
    Handles,  \* the *zvec.Collection values that can exist at one time
    Docs,     \* document IDs
    None,     \* absence
    Mgr,      \* the lock m.mu; the lock c.mu of a collection is its handle
    Rank,     \* the order in which handles are given out: it makes no difference,
              \* and an instance is smaller when there is one
    Faults    \* what may go wrong: writing, removing or reading a document,
              \* os.RemoveAll in the middle, creating or opening a collection, the
              \* process killed

Locks == Handles \union {Mgr}

\* Each name has one registered handle at most and each request holds one
\* more, so this many handles are never all in use when one is created.
ASSUME HandlesAssumption ==
    /\ Cardinality(Handles) >= Cardinality(Names) + Cardinality(Procs)
    /\ Mgr \notin Handles /\ Rank \in [Handles -> Nat]
    /\ Faults \subseteq {"write", "remove", "read", "removeAll", "create", "open", "kill"}

\* The struct a handle refers to.
Object == [name : Names, closed : BOOLEAN, docs : SUBSET Docs]

ASSUME NoneAssumption ==
    /\ None \notin Handles \union Procs \union Names \union Docs
    /\ None \notin Object /\ \A docs \in SUBSET Docs : docs # None

ASSUME FiniteAssumption == IsFiniteSet(Docs) /\ IsFiniteSet(Names)

VARIABLES
    server,    \* "serving"; "draining": http.Shutdown waits; "down"
    registry,  \* m.colls
    object,    \* what each handle in use refers to: the Collection struct
    made,      \* the names whose directory holds a collection.json that parses
    stored,    \* the documents in each name's directory
    kept,      \* per name, the documents whose upsert was answered with success and
               \* that no delete or drop has been carried out on since
    pc,        \* how far each goroutine is in its request
    req,       \* its request
    held,      \* the handle it works on
    ans,       \* the answer its client got last, or what there is of the next
    todo,      \* the handles List has still to ask for their statistics
    readers, owner

INSTANCE RWMutex

disk == <<made, stored, kept>>
locks == <<readers, owner>>
progress == <<pc, req, held, todo, ans>>
vars == <<server, registry, object, made, stored, kept, pc, req, held, todo, ans, readers, owner>>

DocOps == {"upsert", "delete"}
ReadOps == {"get", "query", "listdocs", "count", "info", "describe", "stats"}
Ops == DocOps \union ReadOps \union {"list", "health", "create", "drop"}

NoRequest == [op |-> "none", name |-> None, doc |-> None]

\* The status of an answer, the number in it, and the documents or, of a listing
\* of the collections, the names and their numbers of documents.
Answer(status, items, total) == [status |-> status, items |-> items, total |-> total]

NoAnswer == Answer("none", {}, 0)

Items == SUBSET (Docs \union (Names \X Nat))
Answers == [status : {"none", "ok", "missing", "failed", "exists"}, items : Items, total : Nat]

TypeOK ==
    /\ server \in {"serving", "draining", "down"}
    /\ registry \in [Names -> Handles \union {None}]
    /\ object \in [Handles -> Object \union {None}]
    /\ made \in SUBSET Names
    /\ {stored, kept} \subseteq [Names -> SUBSET Docs]
    /\ pc \in [Procs -> {"idle", "resolve", "health", "rlock", "read", "lock", "enter", "mrlock",
                         "each", "mlock", "menter", "dlock", "destroy", "purge"}]
    /\ req \in [Procs -> [op : Ops \union {"none"}, name : Names \union {None}, doc : Docs \union {None}]]
    /\ held \in [Procs -> Handles \union {None}]
    /\ todo \in [Procs -> SUBSET Handles]
    /\ ans \in [Procs -> Answers]
    /\ LocksTypeOK
    /\ \A n \in Names : registry[n] # None => object[registry[n]] # None
    /\ \A p \in Procs : held[p] # None => object[held[p]] # None

Idle == [p \in Procs |-> "idle"]

AtRest ==
    /\ pc = Idle /\ req = [p \in Procs |-> NoRequest]
    /\ held = [p \in Procs |-> None] /\ todo = [p \in Procs |-> {}]

Init ==
    /\ server = "down"
    /\ registry = [n \in Names |-> None]
    /\ object = [h \in Handles |-> None]
    /\ made = {} /\ stored = [n \in Names |-> {}] /\ kept = stored
    /\ AtRest /\ LocksFree
    /\ ans = [p \in Procs |-> NoAnswer]

-----------------------------------------------------------------------------
\* A handle nothing refers to any more is garbage.
Reachable(obj, reg, hd) ==
    [h \in Handles |->
        IF (\E n \in Names : reg[n] = h) \/ (\E p \in Procs : hd[p] = h) THEN obj[h] ELSE None]

\* Of the unused handles, those that new collections get.
Fresh(S) == \A h \in S, g \in Handles \ S : object[g] = None => Rank[h] <= Rank[g]

\* Move p on within its request.
Goto(p, l) == pc' = [pc EXCEPT ![p] = l] /\ UNCHANGED <<req, todo, ans>>

\* p answers a, having left the objects and the registry so.
Reply(p, a, obj, reg) ==
    /\ ans' = [ans EXCEPT ![p] = a]
    /\ pc' = [pc EXCEPT ![p] = "idle"]
    /\ req' = [req EXCEPT ![p] = NoRequest]
    /\ held' = [held EXCEPT ![p] = None]
    /\ todo' = [todo EXCEPT ![p] = {}]
    /\ object' = Reachable(obj, reg, held')
    /\ registry' = reg

Mine(p) == object[held[p]]

\* The documents p's collection serves, and those Get finds on disk besides.
Served(p) == IF Mine(p).closed THEN {} ELSE Mine(p).docs
Found(p) == IF Mine(p).closed THEN {} ELSE Mine(p).docs \union stored[Mine(p).name]

-----------------------------------------------------------------------------
(* Requests on documents.                                                  *)

\* A request comes in; which lock it asks for first depends on the handler.
Request(p, op, n, d) ==
    /\ server = "serving" /\ pc[p] = "idle"
    /\ req' = [req EXCEPT ![p] = [op |-> op, name |-> n, doc |-> d]]
    /\ pc' = [pc EXCEPT ![p] = IF op = "list" THEN "mrlock"
                               ELSE IF op = "health" THEN "health"
                               ELSE IF op \in {"create", "drop"} THEN "mlock" ELSE "resolve"]
    /\ ans' = [ans EXCEPT ![p] = NoAnswer]
    /\ UNCHANGED <<server, registry, object, disk, held, todo, locks>>

\* getCollection: m.mu is held for the lookup alone.
Resolve(p) ==
    /\ pc[p] = "resolve" /\ Readable(Mgr)
    /\ LET h == registry[req[p].name] IN
         \/ /\ h = None
            /\ Reply(p, Answer("missing", {}, 0), object, registry)
         \/ /\ h # None
            /\ held' = [held EXCEPT ![p] = h]
            /\ Goto(p, IF req[p].op \in DocOps THEN "lock" ELSE "rlock")
            /\ UNCHANGED <<registry, object>>
    /\ UNCHANGED <<server, disk, locks>>

WriteLock(p) ==
    /\ pc[p] = "lock"
    /\ Announce(p, held[p])
    /\ Goto(p, "enter")
    /\ UNCHANGED <<server, registry, object, disk, held>>

\* The collection p holds the lock of serves `docs` from now on, its directory
\* holds `there`, and p answers.
Store(p, docs, there, status) ==
    /\ stored' = [stored EXCEPT ![Mine(p).name] = there]
    /\ Reply(p, Answer(status, {}, 0), [object EXCEPT ![held[p]].docs = docs], registry)

\* The call is refused or fails before it has changed anything.
Spoil(p, status) ==
    /\ Reply(p, Answer(status, {}, 0), object, registry)
    /\ UNCHANGED <<stored, kept>>

\* A call that changes documents has the collection's lock, until it returns.
Enter(p, op) ==
    /\ pc[p] = "enter" /\ req[p].op = op /\ Locked(p, held[p])
    /\ Unlock({held[p]})
    /\ UNCHANGED <<server, made>>

\* Mutant: no "collection is closed".
UpsertUnchecked(p) ==
    /\ Enter(p, "upsert")
    /\ LET n == Mine(p).name
           d == req[p].doc
       IN /\ Store(p, Mine(p).docs \union {d}, stored[n] \union {d}, "ok")
          /\ kept' = [kept EXCEPT ![n] = @ \union {d}]

\* UpsertBatch changes memory first.  If the file cannot be written the
\* document stays in memory, and an earlier version of it on disk.
UpsertDocument(p) ==
    /\ Enter(p, "upsert")
    /\ LET n == Mine(p).name
           d == req[p].doc
       IN \/ Mine(p).closed /\ Spoil(p, "failed")
          \/ /\ ~Mine(p).closed
             /\ Store(p, Mine(p).docs \union {d}, stored[n] \union {d}, "ok")
             /\ kept' = [kept EXCEPT ![n] = @ \union {d}]
          \/ /\ ~Mine(p).closed /\ "write" \in Faults
             /\ Store(p, Mine(p).docs \union {d}, stored[n], "failed")
             /\ UNCHANGED kept

\* A document found neither in memory nor on disk is missing.  Any other leaves
\* memory; that its file is not there, or cannot be removed, is an error.
DeleteDocument(p) ==
    /\ Enter(p, "delete")
    /\ LET n == Mine(p).name
           d == req[p].doc
       IN \/ Mine(p).closed /\ Spoil(p, "failed")
          \/ ~Mine(p).closed /\ d \notin Found(p) /\ Spoil(p, "missing")
          \/ /\ ~Mine(p).closed /\ d \in Found(p)
             /\ \/ d \in stored[n] /\ Store(p, Mine(p).docs \ {d}, stored[n] \ {d}, "ok")
                \/ /\ d \notin stored[n] \/ "remove" \in Faults
                   /\ Store(p, Mine(p).docs \ {d}, stored[n], "failed")
             /\ kept' = [kept EXCEPT ![n] = @ \ {d}]

ReadLock(p) ==
    /\ pc[p] = "rlock"
    /\ RLock(p, held[p])
    /\ Goto(p, "read")
    /\ UNCHANGED <<server, registry, object, disk, held>>

\* Mutant: the call asks again for the read lock it holds.
ReadAgain(p, op, a) ==
    /\ pc[p] = "read" /\ req[p].op = op
    /\ Readable(held[p])
    /\ RUnlock(p, held[p])
    /\ Reply(p, a, object, registry)
    /\ UNCHANGED <<server, disk>>

\* A call that only reads, and the answer a.
Read(p, op, a) ==
    /\ pc[p] = "read" /\ req[p].op = op
    /\ RUnlock(p, held[p])
    /\ Reply(p, a, object, registry)
    /\ UNCHANGED <<server, disk>>

\* A call that only reads, after which the handler makes the next.
ReadOn(p, op, next, items) ==
    /\ pc[p] = "read" /\ req[p].op = op
    /\ RUnlock(p, held[p])
    /\ req' = [req EXCEPT ![p].op = next]
    /\ pc' = [pc EXCEPT ![p] = "rlock"]
    /\ ans' = [ans EXCEPT ![p].items = items]
    /\ UNCHANGED <<server, registry, object, disk, held, todo>>

\* Any error of Get, that of a closed collection too and of a file that cannot
\* be read, is answered by 404.
GetFrom(p, found) ==
    Read(p, "get", Answer(IF req[p].doc \in found THEN "ok" ELSE "missing", {}, 0))

GetDocument(p) ==
    \/ GetFrom(p, Found(p))
    \/ "read" \in Faults /\ GetFrom(p, Served(p))

Query(p) ==
    Read(p, "query", IF Mine(p).closed THEN Answer("failed", {}, 0) ELSE Answer("ok", Mine(p).docs, 0))

\* info asks for the schema twice, then for the statistics, each under a read
\* lock of its own.  No request changes a schema.
Info(p) == ReadOn(p, "info", "describe", ans[p].items)
Describe(p) == ReadOn(p, "describe", "stats", ans[p].items)

\* The statistics of a closed collection are left at zero, without an error.
Stats(p) ==
    /\ req[p].name # None
    /\ Read(p, "stats", Answer("ok", {}, Cardinality(Served(p))))

\* So is the total of a listing: handleListDocuments drops the error of Count.
Count(p) == Read(p, "count", Answer("ok", ans[p].items, Cardinality(Served(p))))

\* Mutant: the page is answered with the error of ListDocs dropped.
ListDocsUnchecked(p) == ReadOn(p, "listdocs", "count", Mine(p).docs)

\* ListDocs, then Count for the total, each under a read lock of its own; only
\* the error of the first is answered.
ListDocs(p) ==
    \/ Read(p, "listdocs", Answer("failed", {}, 0)) /\ Mine(p).closed
    \/ ReadOn(p, "listdocs", "count", Mine(p).docs) /\ ~Mine(p).closed

-----------------------------------------------------------------------------
(* Requests on the registry.                                               *)

Registered == {n \in Names : registry[n] # None}

\* The health check counts the collections.
Health(p) ==
    /\ pc[p] = "health" /\ Readable(Mgr)
    /\ Reply(p, Answer("ok", {}, Cardinality(Registered)), object, registry)
    /\ UNCHANGED <<server, disk, locks>>

\* List holds m.mu for reading while it asks each collection for its info.
ListLock(p) ==
    /\ pc[p] = "mrlock"
    /\ RLock(p, Mgr)
    /\ pc' = [pc EXCEPT ![p] = "each"]
    /\ todo' = [todo EXCEPT ![p] = {registry[n] : n \in Registered}]
    /\ UNCHANGED <<server, registry, object, disk, req, held, ans>>

\* A request for info without a name is List's.
ListNext(p, h) ==
    /\ pc[p] = "each" /\ h \in todo[p]
    /\ held' = [held EXCEPT ![p] = h]
    /\ req' = [req EXCEPT ![p].op = "info"]
    /\ pc' = [pc EXCEPT ![p] = "rlock"]
    /\ UNCHANGED <<server, registry, object, disk, todo, ans, locks>>

\* The statistics, the last of a collection's info, go into the answer.
ListStat(p) ==
    /\ pc[p] = "read" /\ req[p].op = "stats" /\ req[p].name = None
    /\ RUnlock(p, held[p])
    /\ pc' = [pc EXCEPT ![p] = "each"]
    /\ req' = [req EXCEPT ![p].op = "list"]
    /\ held' = [held EXCEPT ![p] = None]
    /\ todo' = [todo EXCEPT ![p] = @ \ {held[p]}]
    /\ ans' = [ans EXCEPT ![p].items = @ \union {<<Mine(p).name, Cardinality(Served(p))>>}]
    /\ UNCHANGED <<server, registry, object, disk>>

ListDone(p) ==
    /\ pc[p] = "each" /\ todo[p] = {}
    /\ RUnlock(p, Mgr)
    /\ Reply(p, Answer("ok", ans[p].items, 0), object, registry)
    /\ UNCHANGED <<server, disk>>

RegistryLock(p) ==
    /\ pc[p] = "mlock"
    /\ Announce(p, Mgr)
    /\ Goto(p, "menter")
    /\ UNCHANGED <<server, registry, object, disk, held>>

\* Mutant: no "collection already exists".
CreateUnchecked(p, h) ==
    /\ pc[p] = "menter" /\ req[p].op = "create" /\ Locked(p, Mgr)
    /\ object[h] = None /\ Fresh({h})
    /\ made' = made \union {req[p].name}
    /\ registry' = [registry EXCEPT ![req[p].name] = h]
    /\ object' = [object EXCEPT ![h] = [name |-> req[p].name, closed |-> FALSE, docs |-> {}]]
    /\ held' = [held EXCEPT ![p] = h]
    /\ pc' = [pc EXCEPT ![p] = "rlock"]
    /\ req' = [req EXCEPT ![p].op = "info"]
    /\ Unlock({Mgr})
    /\ UNCHANGED <<server, stored, kept, todo, ans>>

\* Create under m.mu, then info on the new collection without it.
\* CreateAndOpen writes collection.json and does not look at the documents.
Create(p, h) ==
    /\ pc[p] = "menter" /\ req[p].op = "create" /\ Locked(p, Mgr)
    /\ registry[req[p].name] = None /\ object[h] = None /\ Fresh({h})
    /\ made' = made \union {req[p].name}
    /\ registry' = [registry EXCEPT ![req[p].name] = h]
    /\ object' = [object EXCEPT ![h] = [name |-> req[p].name, closed |-> FALSE, docs |-> {}]]
    /\ held' = [held EXCEPT ![p] = h]
    /\ pc' = [pc EXCEPT ![p] = "rlock"]
    /\ req' = [req EXCEPT ![p].op = "info"]
    /\ Unlock({Mgr})
    /\ UNCHANGED <<server, stored, kept, todo, ans>>

\* CreateAndOpen fails, making the directory or writing collection.json, which
\* it truncates first.
CreateFails(p) ==
    /\ "create" \in Faults
    /\ pc[p] = "menter" /\ req[p].op = "create" /\ Locked(p, Mgr)
    /\ registry[req[p].name] = None
    /\ made' \in {made, made \ {req[p].name}}
    /\ Unlock({Mgr})
    /\ Reply(p, Answer("failed", {}, 0), object, registry)
    /\ UNCHANGED <<server, stored, kept>>

\* "collection already exists", "collection not found".
Refuse(p) ==
    /\ pc[p] = "menter" /\ Locked(p, Mgr)
    /\ (req[p].op = "drop") <=> (registry[req[p].name] = None)
    /\ Unlock({Mgr})
    /\ Reply(p, Answer(IF req[p].op = "drop" THEN "missing" ELSE "exists", {}, 0), object, registry)
    /\ UNCHANGED <<server, disk>>

\* Drop finds the collection and, still under m.mu, asks for its lock.
Drop(p) ==
    /\ pc[p] = "menter" /\ req[p].op = "drop" /\ Locked(p, Mgr)
    /\ registry[req[p].name] # None
    /\ held' = [held EXCEPT ![p] = registry[req[p].name]]
    /\ Goto(p, "dlock")
    /\ UNCHANGED <<server, registry, object, disk, locks>>

DropLock(p) ==
    /\ pc[p] = "dlock"
    /\ Announce(p, held[p])
    /\ Goto(p, "destroy")
    /\ UNCHANGED <<server, registry, object, disk, held>>

\* Mutant: Drop forgets the collection and lets m.mu go before the directory is
\* removed.
DestroyUnlocked(p) ==
    /\ pc[p] = "destroy" /\ Locked(p, held[p])
    /\ object' = [object EXCEPT ![held[p]].closed = TRUE]
    /\ registry' = [registry EXCEPT ![Mine(p).name] = None]
    /\ kept' = [kept EXCEPT ![Mine(p).name] = {}]
    /\ Goto(p, "purge")
    /\ Unlock({Mgr})
    /\ UNCHANGED <<server, made, stored, held>>

Destroy(p) ==
    /\ pc[p] = "destroy" /\ Locked(p, held[p])
    /\ object' = [object EXCEPT ![held[p]].closed = TRUE]
    /\ kept' = [kept EXCEPT ![Mine(p).name] = {}]
    /\ Goto(p, "purge")
    /\ UNCHANGED <<server, registry, made, stored, held, locks>>

\* os.RemoveAll: collection.json and the documents, in either order.
Purge(p) ==
    /\ pc[p] = "purge"
    /\ LET n == Mine(p).name IN
         \/ /\ n \in made
            /\ made' = made \ {n} /\ UNCHANGED stored
         \/ /\ stored[n] # {}
            /\ stored' = [stored EXCEPT ![n] = {}] /\ UNCHANGED made
    /\ UNCHANGED <<server, registry, object, kept, progress, locks>>

\* Mutant: no delete(m.colls, name).
DroppedKeepsEntry(p) ==
    /\ pc[p] = "purge"
    /\ Mine(p).name \notin made /\ stored[Mine(p).name] = {}
    /\ Reply(p, Answer("ok", {}, 0), object, registry)
    /\ Unlock({held[p], Mgr})
    /\ UNCHANGED <<server, disk>>

\* Destroy has returned: Drop forgets the collection if it succeeded.
Dropped(p) ==
    /\ pc[p] = "purge"
    /\ LET n == Mine(p).name
           gone == n \notin made /\ stored[n] = {}
       IN \/ /\ gone
             /\ Reply(p, Answer("ok", {}, 0), object, [registry EXCEPT ![n] = None])
          \/ /\ ~gone /\ "removeAll" \in Faults
             /\ Reply(p, Answer("failed", {}, 0), object, registry)
    /\ Unlock({held[p], Mgr})
    /\ UNCHANGED <<server, disk>>

-----------------------------------------------------------------------------
(* The life of the process.                                                *)

\* The collections of the names in N are opened, each serving what `loaded`
\* says of it.
Opened(N, loaded) ==
    \E opened \in [N -> Handles] :
        /\ \A m, n \in N : opened[m] = opened[n] => m = n
        /\ Fresh({opened[n] : n \in N})
        /\ registry' = [n \in Names |-> IF n \in N THEN opened[n] ELSE None]
        /\ object' = [h \in Handles |->
              IF \E n \in N : opened[n] = h
              THEN LET n == CHOOSE n \in N : opened[n] = h
                   IN [name |-> n, closed |-> FALSE, docs |-> loaded[n]]
              ELSE None]

\* Mutant: the collections are opened without their documents.
StartEmpty ==
    /\ server = "down"
    /\ server' = "serving"
    /\ Opened(made, [n \in Names |-> {}])
    /\ UNCHANGED <<disk, progress, locks>>

\* OpenExisting: a handle for every directory with a collection.json, but for
\* those that cannot be read, which it skips, as loadDocs does the documents.
Start ==
    /\ server = "down"
    /\ server' = "serving"
    /\ \E skipped \in SUBSET made, loaded \in [Names -> SUBSET Docs] :
         /\ skipped # {} => "open" \in Faults
         /\ \A n \in Names : loaded[n] \subseteq stored[n]
         /\ loaded # stored => "read" \in Faults
         /\ Opened(made \ skipped, loaded)
    /\ UNCHANGED <<disk, progress, locks>>

\* SIGINT or SIGTERM: http.Shutdown takes no new request.
Signal ==
    /\ server = "serving"
    /\ server' = "draining"
    /\ UNCHANGED <<registry, object, disk, progress, locks>>

\* Mutant: Close leaves the closed collections in m.colls.
GoneButRegistered ==
    /\ server' = "down"
    /\ object' = [h \in Handles |-> None]
    /\ pc' = Idle /\ req' = [p \in Procs |-> NoRequest]
    /\ held' = [p \in Procs |-> None] /\ todo' = [p \in Procs |-> {}]
    /\ ans' = [p \in Procs |-> IF pc[p] = "idle" THEN ans[p] ELSE NoAnswer]
    /\ readers' = [l \in Locks |-> {}] /\ owner' = [l \in Locks |-> None]
    /\ UNCHANGED <<registry, disk>>

\* Nothing of the process survives.
Gone ==
    /\ server' = "down"
    /\ registry' = [n \in Names |-> None]
    /\ object' = [h \in Handles |-> None]
    /\ pc' = Idle /\ req' = [p \in Procs |-> NoRequest]
    /\ held' = [p \in Procs |-> None] /\ todo' = [p \in Procs |-> {}]
    /\ ans' = [p \in Procs |-> IF pc[p] = "idle" THEN ans[p] ELSE NoAnswer]
    /\ readers' = [l \in Locks |-> {}] /\ owner' = [l \in Locks |-> None]
    /\ UNCHANGED disk

\* Every handler has returned: mgr.Close, and main returns.
Shutdown == server = "draining" /\ pc = Idle /\ Gone

\* http.Shutdown times out and main returns with handlers under way, or the
\* process is killed.
Kill == "kill" \in Faults /\ server # "down" /\ Gone

-----------------------------------------------------------------------------
\* The steps at which p waits for others to leave it a lock.
Acquire(p) ==
    \/ Resolve(p) \/ Health(p) \/ WriteLock(p) \/ ReadLock(p) \/ ListLock(p)
    \/ RegistryLock(p) \/ DropLock(p)

\* The other steps of a request.
Advance(p) ==
    \/ UpsertDocument(p) \/ DeleteDocument(p)
    \/ GetDocument(p) \/ Query(p) \/ Count(p) \/ ListDocs(p)
    \/ Info(p) \/ Describe(p) \/ Stats(p)
    \/ (\E h \in Handles : ListNext(p, h)) \/ ListStat(p) \/ ListDone(p)
    \/ (\E h \in Handles : Create(p, h)) \/ CreateFails(p) \/ Refuse(p)
    \/ Drop(p) \/ Destroy(p) \/ Purge(p) \/ Dropped(p)

Receive(p) ==
    \/ Request(p, "list", None, None) \/ Request(p, "health", None, None)
    \/ \E n \in Names :
         \/ \E op \in {"query", "listdocs", "info", "create", "drop"} : Request(p, op, n, None)
         \/ \E op \in DocOps \union {"get"}, d \in Docs : Request(p, op, n, d)

Next ==
    \/ \E p \in Procs : Receive(p) \/ Acquire(p) \/ Advance(p)
    \/ Start \/ Signal \/ Shutdown \/ Kill

Spec == Init /\ [][Next]_vars

\* Goroutines are scheduled; sync.Mutex hands over to the longest waiter once
\* it starves and sync.RWMutex lets the waiting readers in when a writer
\* leaves, so one that keeps asking for a lock gets it.
Fairness ==
    /\ \A p \in Procs : WF_vars(Advance(p)) /\ SF_vars(Acquire(p))
    /\ WF_vars(Shutdown)

FairSpec == Spec /\ Fairness

-----------------------------------------------------------------------------
(* Properties.                                                             *)

\* No two open handles share a directory: they would each serve and persist
\* their own version of it.  Create's check and registration under one hold
\* of m.mu and Destroy before the name is free again stand behind it.
OneLiveHandle ==
    \A g, h \in Handles :
        object[g] # None /\ object[h] # None /\ object[g].name = object[h].name
        /\ ~object[g].closed /\ ~object[h].closed => g = h

\* An open collection serves what its directory holds: no request that found
\* an earlier collection of that name before it was dropped writes into the
\* directory of the later one, and a new one starts empty in both.
LiveMirrorsDisk ==
    \A h \in Handles :
        object[h] # None /\ ~object[h].closed =>
            object[h].name \in made /\ object[h].docs = stored[object[h].name]

\* A document whose upsert was answered with success, and that nobody has asked to
\* delete or to drop since, is in its directory, whatever fails and whenever the
\* process is killed: no drop of an earlier collection of that name removes it,
\* no write that failed is answered with success, and no start loses it.
AnsweredIsStored == \A n \in Names : kept[n] \subseteq stored[n]

\* While the service runs, the directory of a name nobody has created, or
\* whose DELETE was answered with 204, is empty: a request still under way on
\* the dropped collection does not bring it back.
DropErases ==
    server = "serving" /\ Readable(Mgr) =>
        \A n \in Names : registry[n] = None => n \notin made /\ stored[n] = {}

\* Whatever Get and List hand out "returns an open collection" (manager.go:119,
\* 143): outside m.mu's critical sections no registered handle is closed.
RegisteredIsOpen ==
    Readable(Mgr) => \A n \in Names : registry[n] # None => ~object[registry[n]].closed

\* The collections a client can find: those registered and not being dropped
\* or, while the service is down, those a restart opens.
Collections ==
    [n \in Names |->
        IF server = "down" THEN IF n \in made THEN stored[n] ELSE None
        ELSE IF registry[n] = None \/ object[registry[n]].closed THEN None
        ELSE object[registry[n]].docs]

\* A drop has happened once the collection is closed, the rest is for the
\* others to find it gone.  The calls that make info are one request, or part of
\* a listing.
Asked ==
    [p \in Procs |->
        IF pc[p] = "purge" THEN [req[p] EXCEPT !.op = "dropped"]
        ELSE IF req[p].op \in {"info", "describe", "stats"}
        THEN [req[p] EXCEPT !.op = IF req[p].name = None THEN "list" ELSE "info"]
        ELSE req[p]]
Late == {p \in Procs : held[p] # None /\ object[held[p]].closed /\ pc[p] # "purge"}

Promised == INSTANCE Service WITH colls <- Collections, req <- Asked, late <- Late

\* Without faults, the service behaves as if every request acted at one moment, or
\* at the few that Service names, on a set of collections that outlives restarts.
\* The lookup without a lock, the wait for it, the two levels of locks and the two
\* copies of each collection, in memory and on disk, show in the answers only where
\* Service says so.
ImplementsService == Promised!Spec

\* Every request is answered: no cycle of m.mu and the collections' locks, and
\* no writer queued between two read locks of one goroutine.
RequestsReturn == \A p \in Procs : pc[p] # "idle" ~> pc[p] = "idle"

\* A graceful shutdown ends.
ShutdownEnds == server = "draining" ~> server = "down"

=============================================================================
