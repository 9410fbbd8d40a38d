---------------------------- MODULE ManagerProofs ----------------------------
(* Theorems about the service: the lock discipline, one live handle per     *)
(* directory, nothing lost that was answered with success, for any number   *)
(* of requests and whatever fails.                                          *)
EXTENDS Manager, TLAPS, FiniteSetTheorems

-----------------------------------------------------------------------------
\* It lists the collections: it has m.mu for reading, and a request for info on
\* one of them has no name.
Listing(p) == pc[p] = "each" \/ (pc[p] \in {"rlock", "read"} /\ req[p].name = None)

\* A goroutine holds, or has announced itself on, exactly the locks its place
\* in the code says; a writer past a lock has it to itself.
LockInv ==
    /\ \A p \in Procs : owner[Mgr] = p <=> pc[p] \in {"menter", "dlock", "destroy", "purge"}
    /\ \A p \in Procs : p \in readers[Mgr] <=> Listing(p)
    /\ \A h \in Handles : \A p \in Procs :
         /\ owner[h] = p <=> pc[p] \in {"enter", "destroy", "purge"} /\ held[p] = h
         /\ p \in readers[h] <=> pc[p] = "read" /\ held[p] = h
    /\ \A p \in Procs :
         /\ pc[p] \in {"dlock", "destroy", "purge"} => readers[Mgr] = {}
         /\ pc[p] = "purge" => readers[held[p]] = {}

\* A request is at a place its handler has.
Places ==
    /\ server = "down" => \A p \in Procs : pc[p] = "idle"
    /\ \A p \in Procs :
         /\ pc[p] = "idle" => req[p] = NoRequest
         /\ pc[p] = "resolve" => req[p].op \in DocOps \union ReadOps /\ req[p].name \in Names
         /\ pc[p] \in {"lock", "enter"} => req[p].op \in DocOps /\ req[p].name \in Names
         /\ pc[p] \in {"rlock", "read"} =>
               /\ req[p].op \in ReadOps
               /\ req[p].op \in {"info", "describe", "stats"} \/ req[p].name \in Names
         /\ pc[p] \in {"resolve", "lock", "enter", "rlock", "read"} =>
               (req[p].op \in DocOps \union {"get"} => req[p].doc \in Docs)
         /\ pc[p] = "health" => req[p].op = "health"
         /\ pc[p] \in {"mrlock", "each"} => req[p].op = "list" /\ req[p].name = None
         /\ pc[p] \in {"mlock", "menter"} => req[p].op \in {"create", "drop"} /\ req[p].name \in Names
         /\ pc[p] \in {"dlock", "destroy", "purge"} => req[p].op = "drop" /\ req[p].name \in Names

\* It has a handle where it has looked one up, of the name it asked for.  While
\* the directory is removed, nobody expects anything in it.
Holding ==
    \A p \in Procs :
        /\ held[p] # None <=> pc[p] \in {"lock", "enter", "rlock", "read", "dlock", "destroy", "purge"}
        /\ held[p] # None /\ req[p].name # None => object[held[p]].name = req[p].name
        /\ pc[p] \in {"dlock", "destroy", "purge"} => registry[req[p].name] = held[p]
        /\ pc[p] = "purge" => object[held[p]].closed /\ kept[req[p].name] = {}
        /\ todo[p] # {} => Listing(p)
        /\ pc[p] \in {"rlock", "read"} /\ req[p].name = None => held[p] \in todo[p]
        /\ \A h \in todo[p] : \E n \in Names : registry[n] = h

\* The registry names collections by their names and knows every open one.
RegistryInv ==
    /\ \A n \in Names : registry[n] # None => object[registry[n]].name = n
    /\ \A h \in Handles : object[h] # None /\ ~object[h].closed => registry[object[h].name] = h
    /\ server = "down" => \A n \in Names : registry[n] = None

IndInv == TypeOK /\ LockInv /\ Places /\ Holding /\ RegistryInv /\ AnsweredIsStored

-----------------------------------------------------------------------------
\* Answers are typed.
LEMMA AnswerTyped ==
    ASSUME NEW status \in {"none", "ok", "missing", "failed", "exists"},
           NEW items \in Items \union SUBSET Docs, NEW total \in Nat
    PROVE  Answer(status, items, total) \in Answers
<1>1. items \in Items
  BY DEF Items
<1> QED  BY <1>1 DEF Answer, Answers

LEMMA RetypedItems ==
    ASSUME NEW f \in [Procs -> Answers], NEW p \in Procs, NEW items \in Items
    PROVE  [f EXCEPT ![p].items = items] \in [Procs -> Answers]
<1>1. f[p] \in Answers
  OBVIOUS
<1>2. [f[p] EXCEPT !.items = items] \in Answers
  BY <1>1 DEF Answers
<1> QED  BY <1>2

LEMMA Countable == \A S \in (SUBSET Docs) \union (SUBSET Names) : Cardinality(S) \in Nat
BY FiniteAssumption, FS_CardinalityType, FS_Subset

\* A goroutine that ends its request and lets go of its locks leaves the locks
\* in order.
LEMMA LetGo ==
    ASSUME TypeOK, LockInv, Holding, NEW p \in Procs,
           pc' = [pc EXCEPT ![p] = "idle"], held' = [held EXCEPT ![p] = None],
           req' = [req EXCEPT ![p] = NoRequest],
           readers' = [l \in Locks |-> readers[l] \ {p}],
           owner' = [l \in Locks |-> IF owner[l] = p THEN None ELSE owner[l]]
    PROVE  LockInv'
BY HandlesAssumption, NoneAssumption DEF LockInv, Listing, TypeOK, LocksTypeOK, Locks, Holding

\* A step that only answers and lets go of locks it has keeps the invariant.
LEMMA AnswerStep ==
    ASSUME IndInv, NEW p \in Procs, pc[p] # "idle", NEW a \in Answers,
           Reply(p, a, object, registry),
           UNCHANGED <<server, stored, kept>>, made' \in SUBSET made,
           readers' = [l \in Locks |-> readers[l] \ {p}],
           owner' = [l \in Locks |-> IF owner[l] = p THEN None ELSE owner[l]]
    PROVE  IndInv'
<1> USE HandlesAssumption, NoneAssumption DEF IndInv, Listing, Reply, Reachable
<1>1. TypeOK'
  BY DEF TypeOK, Object, LocksTypeOK, Locks, NoRequest
<1>2. LockInv'
  BY LetGo
<1>3. Places'
  BY DEF Places, TypeOK, NoRequest, DocOps, ReadOps
<1>4. Holding'
  BY DEF Holding, Places, TypeOK, LockInv, RegistryInv, LocksTypeOK, Locks, NoRequest
<1>5. RegistryInv'
  BY DEF RegistryInv, TypeOK, Holding, Places, LockInv, LocksTypeOK, Locks
<1>6. AnsweredIsStored'
  BY DEF AnsweredIsStored
<1> QED  BY <1>1, <1>2, <1>3, <1>4, <1>5, <1>6

LEMMA RequestStep ==
    ASSUME IndInv, NEW p \in Procs, NEW op \in Ops \ {"count", "describe", "stats"}, NEW n \in Names \union {None}, NEW d \in Docs \union {None},
           op \notin {"list", "health"} => n \in Names, op = "list" => n = None,
           op \in DocOps \union {"get"} => d \in Docs,
           Request(p, op, n, d) PROVE IndInv'
<1> USE HandlesAssumption, NoneAssumption DEF IndInv, Listing, disk, locks, progress
<1>0. NoAnswer \in Answers
  BY AnswerTyped DEF NoAnswer
<1>1. TypeOK'
  BY <1>0 DEF Request, Ops, DocOps, ReadOps, TypeOK, Object, LocksTypeOK
<1>2. LockInv'
  BY DEF Request, Ops, DocOps, ReadOps, LockInv, TypeOK, LocksTypeOK, Locks, Holding,
     Places
<1>3. Places'
  BY DEF Request, Ops, DocOps, ReadOps, Places, TypeOK, NoRequest
<1>4. Holding'
  BY DEF Request, Ops, DocOps, ReadOps, Holding, Places, TypeOK, LockInv, RegistryInv,
     LocksTypeOK, Locks, NoRequest
<1>5. RegistryInv'
  BY DEF Request, Ops, DocOps, ReadOps, RegistryInv, TypeOK, Holding, Places, LockInv,
     LocksTypeOK, Locks
<1>6. AnsweredIsStored'
  BY DEF Request, AnsweredIsStored
<1> QED  BY <1>1, <1>2, <1>3, <1>4, <1>5, <1>6

LEMMA ResolveStep ==
    ASSUME IndInv, NEW p \in Procs, Resolve(p) PROVE IndInv'
<1> USE HandlesAssumption, NoneAssumption DEF IndInv, Listing, disk, locks
<1>0. pc[p] = "resolve" /\ req[p].name \in Names /\ req[p].op \in DocOps \union ReadOps
      /\ registry[req[p].name] \in Handles \union {None} /\ owner[Mgr] = None
  BY DEF Resolve, Readable, Places, TypeOK
<1>1. CASE registry[req[p].name] = None
  <2>1. PICK a \in Answers : Reply(p, a, object, registry)
    BY <1>1, AnswerTyped DEF Resolve
  <2>2. UNCHANGED <<server, made, stored, kept, readers, owner>>
    BY <1>1 DEF Resolve
  <2>3. readers = [l \in Locks |-> readers[l] \ {p}]
        /\ owner = [l \in Locks |-> IF owner[l] = p THEN None ELSE owner[l]]
    BY <1>0 DEF LockInv, LocksTypeOK, TypeOK, Locks
  <2> QED  BY <1>0, <2>1, <2>2, <2>3, AnswerStep
<1>2. CASE registry[req[p].name] # None
  <2>1. pc' = [pc EXCEPT ![p] = IF req[p].op \in DocOps THEN "lock" ELSE "rlock"]
    BY <1>2 DEF Resolve, Goto
  <2>2. held' = [held EXCEPT ![p] = registry[req[p].name]]
        /\ UNCHANGED <<server, registry, object, made, stored, kept, req, todo, ans, readers, owner>>
    BY <1>2 DEF Resolve, Goto
  <2>3. TypeOK'
    BY <1>0, <1>2, <2>1, <2>2 DEF TypeOK, LocksTypeOK
  <2>4. LockInv'
    BY <1>0, <2>1, <2>2 DEF LockInv, TypeOK, Holding
  <2>5. Places'
    BY <1>0, <2>1, <2>2 DEF Places, TypeOK, DocOps, ReadOps
  <2>6. Holding'
    BY <1>0, <1>2, <2>1, <2>2 DEF Holding, RegistryInv, TypeOK
  <2>7. RegistryInv' /\ AnsweredIsStored'
    BY <2>2 DEF RegistryInv, AnsweredIsStored
  <2> QED  BY <2>3, <2>4, <2>5, <2>6, <2>7
<1> QED  BY <1>1, <1>2

LEMMA HealthStep ==
    ASSUME IndInv, NEW p \in Procs, Health(p) PROVE IndInv'
<1> USE HandlesAssumption, NoneAssumption DEF IndInv, Listing, disk, locks
<1>1. Answer("ok", {}, Cardinality(Registered)) \in Answers
  BY AnswerTyped, Countable DEF Registered
<1>2. pc[p] = "health" /\ UNCHANGED <<server, made, stored, kept, readers, owner>>
      /\ Reply(p, Answer("ok", {}, Cardinality(Registered)), object, registry)
  BY DEF Health
<1>3. readers = [l \in Locks |-> readers[l] \ {p}]
      /\ owner = [l \in Locks |-> IF owner[l] = p THEN None ELSE owner[l]]
  BY <1>2 DEF LockInv, LocksTypeOK, TypeOK, Locks
<1> QED  BY <1>1, <1>2, <1>3, AnswerStep

LEMMA WriteLockStep ==
    ASSUME IndInv, NEW p \in Procs, WriteLock(p) PROVE IndInv'
<1> USE HandlesAssumption, NoneAssumption DEF IndInv, Listing, disk, locks, progress
<1>1. TypeOK'
  BY DEF WriteLock, Announce, Goto, TypeOK, Object, LocksTypeOK, Locks, Places, Holding,
     RegistryInv, Answer, Answers, NoAnswer, NoRequest, DocOps, ReadOps, Ops
<1>2. LockInv'
  BY DEF WriteLock, Announce, Goto, LockInv, TypeOK, LocksTypeOK, Locks, Holding, Places
<1>3. Places'
  BY DEF WriteLock, Announce, Goto, Places, TypeOK, NoRequest, DocOps, ReadOps
<1>4. Holding'
  BY DEF WriteLock, Announce, Goto, Holding, Places, TypeOK, LockInv, RegistryInv,
     LocksTypeOK, Locks, NoRequest
<1>5. RegistryInv'
  BY DEF WriteLock, Announce, Goto, RegistryInv, TypeOK, Holding, Places, LockInv,
     LocksTypeOK, Locks
<1>6. AnsweredIsStored'
  BY DEF WriteLock, Announce, Goto, AnsweredIsStored
<1> QED  BY <1>1, <1>2, <1>3, <1>4, <1>5, <1>6

LEMMA EnterStep ==
    ASSUME IndInv, NEW p \in Procs, NEW op \in DocOps, Enter(p, op)
    PROVE  /\ pc[p] = "enter" /\ held[p] \in Handles /\ object[held[p]] \in Object
           /\ req[p].name \in Names /\ req[p].doc \in Docs /\ req[p].name = Mine(p).name
           /\ server' = server /\ made' = made
           /\ readers' = [l \in Locks |-> readers[l] \ {p}]
           /\ owner' = [l \in Locks |-> IF owner[l] = p THEN None ELSE owner[l]]
<1> USE HandlesAssumption, NoneAssumption DEF IndInv, Listing
<1>1. /\ pc[p] = "enter" /\ held[p] \in Handles /\ object[held[p]] \in Object
      /\ req[p].name \in Names /\ req[p].doc \in Docs /\ req[p].name = Mine(p).name
      /\ owner[held[p]] = p /\ readers[held[p]] = {}
      /\ owner' = [l \in Locks |-> IF l \in {held[p]} THEN None ELSE owner[l]]
      /\ readers' = readers /\ server' = server /\ made' = made
  BY DEF Enter, Locked, Unlock, Holding, Places, TypeOK, Mine
<1>2. readers' = [l \in Locks |-> readers[l] \ {p}]
      /\ owner' = [l \in Locks |-> IF owner[l] = p THEN None ELSE owner[l]]
  BY <1>1 DEF LockInv, LocksTypeOK, TypeOK, Locks
<1> QED  BY <1>1, <1>2

LEMMA SpoilStep ==
    ASSUME IndInv, NEW p \in Procs, NEW op \in DocOps, NEW status \in {"failed", "missing"},
           Enter(p, op), Spoil(p, status)
    PROVE  IndInv'
<1>1. PICK a \in Answers : Reply(p, a, object, registry)
  BY AnswerTyped DEF Spoil
<1> QED  BY <1>1, EnterStep, AnswerStep DEF Spoil

\* A call on an open collection: its name is registered for it, so no drop of
\* that name is under way.
LEMMA StoreStep ==
    ASSUME IndInv, NEW p \in Procs, NEW op \in DocOps, Enter(p, op), ~Mine(p).closed,
           NEW docs \in SUBSET Docs, NEW there \in SUBSET Docs, NEW keep \in SUBSET there,
           NEW status \in {"ok", "failed"}, Store(p, docs, there, status),
           kept' = [kept EXCEPT ![Mine(p).name] = keep]
    PROVE  IndInv'
<1> USE HandlesAssumption, NoneAssumption DEF IndInv, Listing, disk, locks
<1> DEFINE h0 == held[p]
           n0 == object[h0].name
           obj == [object EXCEPT ![h0].docs = docs]
<1>1. /\ pc[p] = "enter" /\ h0 \in Handles /\ object[h0] \in Object /\ n0 \in Names
      /\ server' = server /\ made' = made /\ ~object[h0].closed
  BY EnterStep DEF Object, Mine
<1>2. readers' = [l \in Locks |-> readers[l] \ {p}]
      /\ owner' = [l \in Locks |-> IF owner[l] = p THEN None ELSE owner[l]]
  BY EnterStep
<1>3. PICK a \in Answers : Reply(p, a, obj, registry)
  BY AnswerTyped DEF Store
<1>4. stored' = [stored EXCEPT ![n0] = there] /\ kept' = [kept EXCEPT ![n0] = keep]
  BY DEF Store, Mine
<1>5. /\ obj \in [Handles -> Object \union {None}]
      /\ \A h \in Handles \ {h0} : obj[h] = object[h]
      /\ obj[h0] # None /\ obj[h0].name = n0 /\ ~obj[h0].closed
  BY <1>1 DEF TypeOK, Object
<1>6. \A q \in Procs : pc[q] = "purge" => req[q].name # n0
  BY <1>1 DEF RegistryInv, Holding
<1> HIDE DEF obj
<1>7. TypeOK'
  <2>1. stored' \in [Names -> SUBSET Docs] /\ kept' \in [Names -> SUBSET Docs]
    <3>1. stored \in [Names -> SUBSET Docs] /\ kept \in [Names -> SUBSET Docs]
      BY DEF TypeOK
    <3>2. keep \in SUBSET Docs
      OBVIOUS
    <3> QED  BY <1>1, <1>4, <3>1, <3>2
  <2> QED  BY <1>1, <1>2, <1>3, <1>5, <2>1 DEF TypeOK, Object, LocksTypeOK, Locks, NoRequest, Reply, Reachable
<1>8. LockInv'
  <2>1. pc' = [pc EXCEPT ![p] = "idle"] /\ held' = [held EXCEPT ![p] = None]
        /\ req' = [req EXCEPT ![p] = NoRequest]
    BY <1>3 DEF Reply
  <2> QED  BY <1>2, <2>1, LetGo
<1>9. Places'
  BY <1>1, <1>3 DEF Places, TypeOK, NoRequest, DocOps, ReadOps, Reply
<1>10. Holding'
  BY <1>1, <1>3, <1>4, <1>5, <1>6 DEF Holding, Places, TypeOK, LockInv, NoRequest, Reply, Reachable
<1>11. RegistryInv'
  <2>1. \A h \in Handles : object'[h] = obj[h] \/ object'[h] = None
    BY <1>3 DEF Reply, Reachable
  <2>2. \A n \in Names : registry[n] # None => object'[registry[n]] = obj[registry[n]]
    BY <1>3 DEF Reply, Reachable, TypeOK
  <2>3. registry' = registry
    BY <1>3 DEF Reply
  <2>4. server' = "down" => \A n \in Names : registry'[n] = None
    BY <1>1, <2>3 DEF RegistryInv
  <2>5. \A n \in Names : registry'[n] # None => object'[registry'[n]].name = n
    BY <1>5, <2>2, <2>3 DEF RegistryInv, TypeOK
  <2>6. ASSUME NEW h \in Handles, object'[h] # None, ~object'[h].closed
        PROVE  registry'[object'[h].name] = h
    <3>1. object[h] # None /\ ~object[h].closed /\ object'[h].name = object[h].name
      BY <1>1, <1>5, <2>1, <2>6
    <3> QED  BY <2>3, <3>1 DEF RegistryInv
  <2> QED  BY <2>4, <2>5, <2>6 DEF RegistryInv
<1>12. AnsweredIsStored'
  BY <1>1, <1>4 DEF AnsweredIsStored, TypeOK
<1> QED  BY <1>7, <1>8, <1>9, <1>10, <1>11, <1>12

LEMMA ReadLockStep ==
    ASSUME IndInv, NEW p \in Procs, ReadLock(p) PROVE IndInv'
<1> USE HandlesAssumption, NoneAssumption DEF IndInv, Listing, disk, locks, progress
<1>1. TypeOK'
  BY DEF ReadLock, RLock, Readable, Goto, TypeOK, Object, LocksTypeOK, Locks, Places,
     Holding, RegistryInv, Answer, Answers, NoAnswer, NoRequest, DocOps, ReadOps, Ops
<1>2. LockInv'
  BY DEF ReadLock, RLock, Readable, Goto, LockInv, TypeOK, LocksTypeOK, Locks, Holding,
     Places
<1>3. Places'
  BY DEF ReadLock, RLock, Readable, Goto, Places, TypeOK, NoRequest, DocOps, ReadOps
<1>4. Holding'
  BY DEF ReadLock, RLock, Readable, Goto, Holding, Places, TypeOK, LockInv, RegistryInv,
     LocksTypeOK, Locks, NoRequest
<1>5. RegistryInv'
  BY DEF ReadLock, RLock, Readable, Goto, RegistryInv, TypeOK, Holding, Places, LockInv,
     LocksTypeOK, Locks
<1>6. AnsweredIsStored'
  BY DEF ReadLock, RLock, Goto, AnsweredIsStored
<1> QED  BY <1>1, <1>2, <1>3, <1>4, <1>5, <1>6

LEMMA ReadStep ==
    ASSUME IndInv, NEW p \in Procs, NEW op, NEW a \in Answers, req[p].name # None, Read(p, op, a)
    PROVE  IndInv'
<1> USE HandlesAssumption, NoneAssumption DEF IndInv, Listing, disk, locks, progress
<1>1. TypeOK'
  BY DEF Read, RUnlock, Reply, Reachable, TypeOK, Object, LocksTypeOK, Locks, Places,
     Holding, RegistryInv, Answer, Answers, NoAnswer, NoRequest, DocOps, ReadOps, Ops
<1>2. LockInv'
  BY DEF Read, RUnlock, Reply, Reachable, LockInv, TypeOK, LocksTypeOK, Locks, Holding,
     Places
<1>3. Places'
  BY DEF Read, RUnlock, Reply, Reachable, Places, TypeOK, NoRequest, DocOps, ReadOps
<1>4. Holding'
  BY DEF Read, RUnlock, Reply, Reachable, Holding, Places, TypeOK, LockInv, RegistryInv,
     LocksTypeOK, Locks, NoRequest
<1>5. RegistryInv'
  BY DEF Read, RUnlock, Reply, Reachable, RegistryInv, TypeOK, Holding, Places, LockInv,
     LocksTypeOK, Locks
<1>6. AnsweredIsStored'
  BY DEF Read, RUnlock, Reply, Reachable, AnsweredIsStored
<1> QED  BY <1>1, <1>2, <1>3, <1>4, <1>5, <1>6

LEMMA ReadOnStep ==
    ASSUME IndInv, NEW p \in Procs, NEW op, NEW next \in {"count", "describe", "stats"},
           NEW items \in Items,
           next = "count" => op = "listdocs", ReadOn(p, op, next, items)
    PROVE  IndInv'
<1> USE HandlesAssumption, NoneAssumption DEF IndInv, Listing, disk, locks
<1>1. /\ pc[p] = "read" /\ req[p].op = op
      /\ readers' = [readers EXCEPT ![held[p]] = @ \ {p}] /\ owner' = owner
      /\ req' = [req EXCEPT ![p].op = next] /\ pc' = [pc EXCEPT ![p] = "rlock"]
      /\ ans' = [ans EXCEPT ![p].items = items]
      /\ UNCHANGED <<server, registry, object, made, stored, kept, held, todo>>
  BY DEF ReadOn, RUnlock
<1>2. ans' \in [Procs -> Answers]
  <2>1. ans \in [Procs -> Answers]
    BY DEF TypeOK
  <2> QED  BY <1>1, <2>1, RetypedItems
<1>3. req'[p] = [op |-> next, name |-> req[p].name, doc |-> req[p].doc]
      /\ req' \in [Procs -> [op : Ops \union {"none"}, name : Names \union {None}, doc : Docs \union {None}]]
      /\ \A q \in Procs \ {p} : req'[q] = req[q]
  BY <1>1 DEF TypeOK, Ops, ReadOps
<1>4. TypeOK'
  BY <1>1, <1>2, <1>3 DEF TypeOK, LocksTypeOK, Locks
<1>5. LockInv'
  BY <1>1, <1>3 DEF LockInv, TypeOK, LocksTypeOK, Locks, Holding
<1>6. Places'
  BY <1>1, <1>3 DEF Places, TypeOK, DocOps, ReadOps
<1>7. Holding'
  BY <1>1, <1>3 DEF Holding, TypeOK
<1>8. RegistryInv' /\ AnsweredIsStored'
  BY <1>1 DEF RegistryInv, AnsweredIsStored
<1> QED  BY <1>4, <1>5, <1>6, <1>7, <1>8

LEMMA ListLockStep ==
    ASSUME IndInv, NEW p \in Procs, ListLock(p) PROVE IndInv'
<1> USE HandlesAssumption, NoneAssumption DEF IndInv, Listing, disk, locks, progress
<1>1. TypeOK'
  BY DEF ListLock, RLock, Readable, Registered, TypeOK, Object, LocksTypeOK, Locks,
     Places, Holding, RegistryInv, Answer, Answers, NoAnswer, NoRequest, DocOps,
     ReadOps, Ops
<1>2. LockInv'
  BY DEF ListLock, RLock, Readable, Registered, LockInv, TypeOK, LocksTypeOK, Locks,
     Holding, Places
<1>3. Places'
  BY DEF ListLock, RLock, Readable, Registered, Places, TypeOK, NoRequest, DocOps,
     ReadOps
<1>4. Holding'
  BY DEF ListLock, RLock, Readable, Registered, Holding, Places, TypeOK, LockInv,
     RegistryInv, LocksTypeOK, Locks, NoRequest
<1>5. RegistryInv'
  BY DEF ListLock, RLock, Readable, Registered, RegistryInv, TypeOK, Holding, Places,
     LockInv, LocksTypeOK, Locks
<1>6. AnsweredIsStored'
  BY DEF ListLock, RLock, AnsweredIsStored
<1> QED  BY <1>1, <1>2, <1>3, <1>4, <1>5, <1>6

LEMMA ListNextStep ==
    ASSUME IndInv, NEW p \in Procs, NEW h \in Handles, ListNext(p, h) PROVE IndInv'
<1> USE HandlesAssumption, NoneAssumption DEF IndInv, Listing, disk, locks
<1>1. /\ pc[p] = "each" /\ h \in todo[p] /\ h # None /\ object[h] # None
      /\ held' = [held EXCEPT ![p] = h] /\ pc' = [pc EXCEPT ![p] = "rlock"]
      /\ req' = [req EXCEPT ![p].op = "info"]
      /\ UNCHANGED <<server, registry, object, made, stored, kept, todo, ans, readers, owner>>
  BY DEF ListNext, Holding, TypeOK
<1>2. req'[p] = [op |-> "info", name |-> None, doc |-> req[p].doc]
      /\ req' \in [Procs -> [op : Ops \union {"none"}, name : Names \union {None}, doc : Docs \union {None}]]
      /\ \A q \in Procs \ {p} : req'[q] = req[q]
  BY <1>1 DEF TypeOK, Places, Ops, ReadOps
<1>3. TypeOK'
  BY <1>1, <1>2 DEF TypeOK, LocksTypeOK
<1>4. LockInv'
  BY <1>1, <1>2 DEF LockInv, TypeOK, Holding
<1>5. Places'
  BY <1>1, <1>2 DEF Places, TypeOK, DocOps, ReadOps
<1>6. Holding'
  <2>1. \A q \in Procs \ {p} : held'[q] = held[q] /\ pc'[q] = pc[q] /\ req'[q] = req[q]
    BY <1>1, <1>2 DEF TypeOK
  <2>2. held'[p] = h /\ pc'[p] = "rlock" /\ req'[p].name = None
    BY <1>1, <1>2 DEF TypeOK
  <2>3. \A q \in Procs : \A g \in todo'[q] : \E n \in Names : registry'[n] = g
    BY <1>1 DEF Holding
  <2>4. \A q \in Procs : todo'[q] # {} => Listing(q)'
    BY <1>1, <2>1, <2>2 DEF Holding
  <2> QED  BY <1>1, <2>1, <2>2, <2>3, <2>4 DEF Holding
<1>7. RegistryInv' /\ AnsweredIsStored'
  BY <1>1 DEF RegistryInv, AnsweredIsStored
<1> QED  BY <1>3, <1>4, <1>5, <1>6, <1>7

LEMMA ListStatStep ==
    ASSUME IndInv, NEW p \in Procs, ListStat(p) PROVE IndInv'
<1> USE HandlesAssumption, NoneAssumption DEF IndInv, Listing, disk, locks
<1> DEFINE item == <<Mine(p).name, Cardinality(Served(p))>>
<1>1. /\ pc[p] = "read" /\ req[p].name = None
      /\ readers' = [readers EXCEPT ![held[p]] = @ \ {p}] /\ owner' = owner
      /\ pc' = [pc EXCEPT ![p] = "each"] /\ req' = [req EXCEPT ![p].op = "list"]
      /\ held' = [held EXCEPT ![p] = None] /\ todo' = [todo EXCEPT ![p] = @ \ {held[p]}]
      /\ ans' = [ans EXCEPT ![p].items = @ \union {item}]
      /\ UNCHANGED <<server, registry, object, made, stored, kept>>
  BY DEF ListStat, RUnlock
<1>2. item \in Names \X Nat
  <2>1. object[held[p]] \in Object
    BY <1>1 DEF TypeOK, Holding
  <2> QED  BY <2>1, Countable DEF Mine, Served, Object
<1> HIDE DEF item
<1>3. ans' \in [Procs -> Answers]
  <2>1. ans \in [Procs -> Answers]
    BY DEF TypeOK
  <2>2. ans[p].items \union {item} \in Items
    BY <1>2, <2>1 DEF Answers, Items
  <2> QED  BY <1>1, <2>1, <2>2, RetypedItems
<1>4. req'[p] = [op |-> "list", name |-> None, doc |-> req[p].doc]
      /\ req' \in [Procs -> [op : Ops \union {"none"}, name : Names \union {None}, doc : Docs \union {None}]]
      /\ \A q \in Procs \ {p} : req'[q] = req[q]
  BY <1>1 DEF TypeOK, Ops
<1>5. TypeOK'
  <2>1. todo' \in [Procs -> SUBSET Handles]
    BY <1>1 DEF TypeOK
  <2>2. LocksTypeOK'
    BY <1>1 DEF TypeOK, LocksTypeOK
  <2> QED  BY <1>1, <1>3, <1>4, <2>1, <2>2 DEF TypeOK
<1>6. LockInv'
  BY <1>1, <1>4 DEF LockInv, TypeOK, LocksTypeOK, Locks, Holding
<1>7. Places'
  BY <1>1, <1>4 DEF Places, TypeOK
<1>8. Holding'
  BY <1>1, <1>4 DEF Holding, TypeOK
<1>9. RegistryInv' /\ AnsweredIsStored'
  BY <1>1 DEF RegistryInv, AnsweredIsStored
<1> QED  BY <1>5, <1>6, <1>7, <1>8, <1>9

LEMMA ListDoneStep ==
    ASSUME IndInv, NEW p \in Procs, ListDone(p) PROVE IndInv'
<1> USE HandlesAssumption, NoneAssumption DEF IndInv, Listing, disk, locks, progress
<1>1. TypeOK'
  BY DEF ListDone, RUnlock, Reply, Reachable, Registered, TypeOK, Object, LocksTypeOK,
     Locks, Places, Holding, RegistryInv, Answer, Answers, NoAnswer, NoRequest,
     DocOps, ReadOps, Ops
<1>2. LockInv'
  BY DEF ListDone, RUnlock, Reply, Reachable, Registered, LockInv, TypeOK, LocksTypeOK,
     Locks, Holding, Places
<1>3. Places'
  BY DEF ListDone, RUnlock, Reply, Reachable, Registered, Places, TypeOK, NoRequest,
     DocOps, ReadOps
<1>4. Holding'
  BY DEF ListDone, RUnlock, Reply, Reachable, Registered, Holding, Places, TypeOK,
     LockInv, RegistryInv, LocksTypeOK, Locks, NoRequest
<1>5. RegistryInv'
  BY DEF ListDone, RUnlock, Reply, Reachable, Registered, RegistryInv, TypeOK, Holding,
     Places, LockInv, LocksTypeOK, Locks
<1>6. AnsweredIsStored'
  BY DEF ListDone, RUnlock, Reply, Reachable, AnsweredIsStored
<1> QED  BY <1>1, <1>2, <1>3, <1>4, <1>5, <1>6

LEMMA RegistryLockStep ==
    ASSUME IndInv, NEW p \in Procs, RegistryLock(p) PROVE IndInv'
<1> USE HandlesAssumption, NoneAssumption DEF IndInv, Listing, disk, locks, progress
<1>1. TypeOK'
  BY DEF RegistryLock, Announce, Goto, TypeOK, Object, LocksTypeOK, Locks, Places,
     Holding, RegistryInv, Answer, Answers, NoAnswer, NoRequest, DocOps, ReadOps, Ops
<1>2. LockInv'
  BY DEF RegistryLock, Announce, Goto, LockInv, TypeOK, LocksTypeOK, Locks, Holding,
     Places
<1>3. Places'
  BY DEF RegistryLock, Announce, Goto, Places, TypeOK, NoRequest, DocOps, ReadOps
<1>4. Holding'
  BY DEF RegistryLock, Announce, Goto, Holding, Places, TypeOK, LockInv, RegistryInv,
     LocksTypeOK, Locks, NoRequest
<1>5. RegistryInv'
  BY DEF RegistryLock, Announce, Goto, RegistryInv, TypeOK, Holding, Places, LockInv,
     LocksTypeOK, Locks
<1>6. AnsweredIsStored'
  BY DEF RegistryLock, Announce, Goto, AnsweredIsStored
<1> QED  BY <1>1, <1>2, <1>3, <1>4, <1>5, <1>6

LEMMA CreateStep ==
    ASSUME IndInv, NEW p \in Procs, NEW h \in Handles, Create(p, h) PROVE IndInv'
<1> USE HandlesAssumption, NoneAssumption DEF IndInv, Listing, disk, locks
<1> DEFINE n == req[p].name
           new == [name |-> n, closed |-> FALSE, docs |-> {}]
<1>1. /\ pc[p] = "menter" /\ owner[Mgr] = p /\ readers[Mgr] = {}
      /\ n \in Names /\ registry[n] = None /\ object[h] = None /\ held[p] = None
      /\ made' = made \union {n} /\ registry' = [registry EXCEPT ![n] = h]
      /\ object' = [object EXCEPT ![h] = new] /\ held' = [held EXCEPT ![p] = h]
      /\ pc' = [pc EXCEPT ![p] = "rlock"] /\ req' = [req EXCEPT ![p].op = "info"]
      /\ owner' = [l \in Locks |-> IF l \in {Mgr} THEN None ELSE owner[l]]
      /\ UNCHANGED <<server, stored, kept, todo, ans, readers>>
  BY DEF Create, Locked, Unlock, Holding, Places
<1>2. new \in Object /\ new # None /\ new.name = n /\ ~new.closed /\ new.docs = {}
  <2>1. new \in Object
    BY <1>1 DEF Object
  <2> QED  BY <2>1
<1> HIDE DEF new
<1>3. /\ req' \in [Procs -> [op : Ops \union {"none"}, name : Names \union {None}, doc : Docs \union {None}]]
      /\ req'[p].op = "info" /\ req'[p].name = n
      /\ \A q \in Procs \ {p} : req'[q] = req[q]
  BY <1>1 DEF TypeOK, Ops, ReadOps
<1>4. TypeOK'
  BY <1>1, <1>2, <1>3 DEF TypeOK, LocksTypeOK, Locks
<1>5. LockInv'
  BY <1>1 DEF LockInv, TypeOK, LocksTypeOK, Locks, Holding
<1>6. Places'
  BY <1>1, <1>3 DEF Places, TypeOK, DocOps, ReadOps
<1>7. \A q \in Procs : held[q] # h
  BY <1>1 DEF TypeOK
<1>8. Holding'
  BY <1>1, <1>2, <1>3, <1>7 DEF Holding, LockInv, Places, TypeOK
<1>9. RegistryInv'
  BY <1>1, <1>2 DEF RegistryInv, Places, TypeOK
<1>10. AnsweredIsStored'
  BY <1>1 DEF AnsweredIsStored
<1> QED  BY <1>4, <1>5, <1>6, <1>8, <1>9, <1>10

LEMMA RegistryLetGo ==
    ASSUME IndInv, NEW p \in Procs, pc[p] = "menter", Unlock({Mgr})
    PROVE  /\ readers' = [l \in Locks |-> readers[l] \ {p}]
           /\ owner' = [l \in Locks |-> IF owner[l] = p THEN None ELSE owner[l]]
BY HandlesAssumption, NoneAssumption
   DEF IndInv, Listing, Unlock, LockInv, LocksTypeOK, TypeOK, Locks

LEMMA CreateFailsStep ==
    ASSUME IndInv, NEW p \in Procs, CreateFails(p) PROVE IndInv'
<1>1. Answer("failed", {}, 0) \in Answers
  BY AnswerTyped
<1>2. pc[p] = "menter" /\ made' \in SUBSET made /\ UNCHANGED <<server, stored, kept>>
      /\ Reply(p, Answer("failed", {}, 0), object, registry)
  BY DEF CreateFails
<1>3. readers' = [l \in Locks |-> readers[l] \ {p}]
      /\ owner' = [l \in Locks |-> IF owner[l] = p THEN None ELSE owner[l]]
  BY RegistryLetGo DEF CreateFails
<1> QED  BY <1>1, <1>2, <1>3, AnswerStep

LEMMA RefuseStep ==
    ASSUME IndInv, NEW p \in Procs, Refuse(p) PROVE IndInv'
<1>1. PICK a \in Answers : Reply(p, a, object, registry)
  BY AnswerTyped DEF Refuse
<1>2. pc[p] = "menter" /\ UNCHANGED <<server, made, stored, kept>>
  BY DEF Refuse, disk
<1>3. readers' = [l \in Locks |-> readers[l] \ {p}]
      /\ owner' = [l \in Locks |-> IF owner[l] = p THEN None ELSE owner[l]]
  BY RegistryLetGo DEF Refuse
<1> QED  BY <1>1, <1>2, <1>3, AnswerStep

LEMMA DropStep ==
    ASSUME IndInv, NEW p \in Procs, Drop(p) PROVE IndInv'
<1> USE HandlesAssumption, NoneAssumption DEF IndInv, Listing, disk, locks, progress
<1>1. TypeOK'
  BY DEF Drop, Locked, Goto, TypeOK, Object, LocksTypeOK, Locks, Places, Holding,
     RegistryInv, Answer, Answers, NoAnswer, NoRequest, DocOps, ReadOps, Ops
<1>2. LockInv'
  BY DEF Drop, Locked, Goto, LockInv, TypeOK, LocksTypeOK, Locks, Holding, Places
<1>3. Places'
  BY DEF Drop, Locked, Goto, Places, TypeOK, NoRequest, DocOps, ReadOps
<1>4. Holding'
  BY DEF Drop, Locked, Goto, Holding, Places, TypeOK, LockInv, RegistryInv, LocksTypeOK,
     Locks, NoRequest
<1>5. RegistryInv'
  BY DEF Drop, Locked, Goto, RegistryInv, TypeOK, Holding, Places, LockInv, LocksTypeOK,
     Locks
<1>6. AnsweredIsStored'
  BY DEF Drop, Locked, Goto, AnsweredIsStored
<1> QED  BY <1>1, <1>2, <1>3, <1>4, <1>5, <1>6

LEMMA DropLockStep ==
    ASSUME IndInv, NEW p \in Procs, DropLock(p) PROVE IndInv'
<1> USE HandlesAssumption, NoneAssumption DEF IndInv, Listing, disk, locks, progress
<1>1. TypeOK'
  BY DEF DropLock, Announce, Goto, TypeOK, Object, LocksTypeOK, Locks, Places, Holding,
     RegistryInv, Answer, Answers, NoAnswer, NoRequest, DocOps, ReadOps, Ops
<1>2. LockInv'
  BY DEF DropLock, Announce, Goto, LockInv, TypeOK, LocksTypeOK, Locks, Holding, Places
<1>3. Places'
  BY DEF DropLock, Announce, Goto, Places, TypeOK, NoRequest, DocOps, ReadOps
<1>4. Holding'
  BY DEF DropLock, Announce, Goto, Holding, Places, TypeOK, LockInv, RegistryInv,
     LocksTypeOK, Locks, NoRequest
<1>5. RegistryInv'
  BY DEF DropLock, Announce, Goto, RegistryInv, TypeOK, Holding, Places, LockInv,
     LocksTypeOK, Locks
<1>6. AnsweredIsStored'
  BY DEF DropLock, Announce, Goto, AnsweredIsStored
<1> QED  BY <1>1, <1>2, <1>3, <1>4, <1>5, <1>6

LEMMA DestroyStep ==
    ASSUME IndInv, NEW p \in Procs, Destroy(p) PROVE IndInv'
<1> USE HandlesAssumption, NoneAssumption DEF IndInv, Listing, disk, locks
<1>0. pc[p] = "destroy" /\ owner[held[p]] = p /\ readers[held[p]] = {}
  BY DEF Destroy, Locked
<1>1. /\ held[p] \in Handles /\ object[held[p]] \in Object /\ req[p].name \in Names
      /\ req[p].name = object[held[p]].name
      /\ pc[p] = "destroy" /\ pc' = [pc EXCEPT ![p] = "purge"]
      /\ kept' = [kept EXCEPT ![req[p].name] = {}]
      /\ UNCHANGED <<server, registry, made, stored, req, held, todo, ans, readers, owner>>
  <2>1. /\ held[p] \in Handles /\ object[held[p]] \in Object /\ req[p].name \in Names
        /\ req[p].name = object[held[p]].name
    BY <1>0 DEF Holding, Places, TypeOK
  <2> QED  BY <1>0, <2>1 DEF Destroy, Goto, Mine
<1>2. object' = [object EXCEPT ![held[p]].closed = TRUE]
  BY DEF Destroy
<1>3. /\ object' \in [Handles -> Object \union {None}]
      /\ \A h \in Handles \ {held[p]} : object'[h] = object[h]
      /\ object'[held[p]] # None /\ object'[held[p]].closed
      /\ object'[held[p]].name = object[held[p]].name
  BY <1>1, <1>2 DEF TypeOK, Object
<1>4. TypeOK'
  BY <1>1, <1>3 DEF TypeOK, LocksTypeOK
<1>5. LockInv'
  BY <1>0, <1>1 DEF LockInv, TypeOK, LocksTypeOK
<1>6. Places'
  BY <1>1 DEF Places, TypeOK
<1>7. Holding'
  BY <1>1, <1>3 DEF Holding, TypeOK
<1>8. RegistryInv'
  <2>1. \A h \in Handles : object'[h] # None => object[h] # None /\ object'[h].name = object[h].name
    BY <1>1, <1>3, NoneAssumption
  <2>2. \A h \in Handles : object'[h] # None /\ ~object'[h].closed => ~object[h].closed
    BY <1>3
  <2>3. \A n \in Names : registry[n] # None => object'[registry[n]].name = n
    BY <1>1, <1>3 DEF RegistryInv, TypeOK
  <2> QED  BY <1>1, <2>1, <2>2, <2>3 DEF RegistryInv
<1>9. AnsweredIsStored'
  BY <1>1 DEF AnsweredIsStored, TypeOK
<1> QED  BY <1>4, <1>5, <1>6, <1>7, <1>8, <1>9

LEMMA PurgeStep ==
    ASSUME IndInv, NEW p \in Procs, Purge(p) PROVE IndInv'
<1> USE HandlesAssumption, NoneAssumption DEF IndInv, Listing, disk, locks, progress
<1> DEFINE n == Mine(p).name
<1>1. /\ pc[p] = "purge" /\ n = req[p].name /\ n \in Names /\ held[p] \in Handles
      /\ registry[n] = held[p] /\ object[held[p]].closed
      /\ kept[n] = {}
      /\ UNCHANGED <<server, registry, object, kept, pc, req, held, todo, ans, readers, owner>>
  BY DEF Purge, Mine, Places, Holding, TypeOK
<1>2. \/ made' = made \ {n} /\ stored' = stored
      \/ stored' = [stored EXCEPT ![n] = {}] /\ made' = made
  BY DEF Purge
<1> HIDE DEF n
<1>3. TypeOK'
  BY <1>1, <1>2 DEF TypeOK, LocksTypeOK
<1>4. LockInv' /\ Places' /\ Holding' /\ RegistryInv'
  BY <1>1 DEF LockInv, Places, Holding, RegistryInv
<1>5. AnsweredIsStored'
  BY <1>1, <1>2 DEF AnsweredIsStored, TypeOK
<1> QED  BY <1>3, <1>4, <1>5

LEMMA DroppedStep ==
    ASSUME IndInv, NEW p \in Procs, Dropped(p) PROVE IndInv'
<1> USE HandlesAssumption, NoneAssumption DEF IndInv, Listing, disk, locks
<1> DEFINE n == Mine(p).name
<1>1. /\ pc[p] = "purge" /\ held[p] \in Handles /\ object[held[p]] \in Object
      /\ owner' = [l \in Locks |-> IF l \in {held[p], Mgr} THEN None ELSE owner[l]]
      /\ readers' = readers /\ UNCHANGED <<server, made, stored, kept>>
      /\ n = req[p].name /\ n \in Names /\ registry[n] = held[p] /\ object[held[p]].closed
  BY DEF Dropped, Mine, Unlock, Holding, Places, TypeOK
<1>2. readers' = [l \in Locks |-> readers[l] \ {p}]
      /\ owner' = [l \in Locks |-> IF owner[l] = p THEN None ELSE owner[l]]
  BY <1>1 DEF LockInv, LocksTypeOK, TypeOK, Locks
<1>3. ASSUME Reply(p, Answer("failed", {}, 0), object, registry)
      PROVE  IndInv'
  <2>1. PICK a \in Answers : Reply(p, a, object, registry)
    BY <1>3, AnswerTyped
  <2> QED  BY <1>1, <1>2, <2>1, AnswerStep
<1>4. ASSUME Reply(p, Answer("ok", {}, 0), object, [registry EXCEPT ![n] = None])
      PROVE  IndInv'
  <2> DEFINE reg == [registry EXCEPT ![n] = None]
  <2>1. PICK a \in Answers : Reply(p, a, object, reg)
    BY <1>4, AnswerTyped
  <2>2. reg \in [Names -> Handles \union {None}] /\ reg[n] = None /\ \A m \in Names \ {n} : reg[m] = registry[m]
    BY <1>1 DEF TypeOK
  <2> HIDE DEF reg
  <2>3. \A q \in Procs \ {p} : pc[q] \notin {"dlock", "destroy", "purge"} /\ ~Listing(q)
    BY <1>1 DEF LockInv
  <2>4. TypeOK'
    <3>1. object' \in [Handles -> Object \union {None}] /\ registry' = reg
      BY <2>1 DEF TypeOK, Reply, Reachable
    <3>2. /\ \A m \in Names : registry'[m] # None => object'[registry'[m]] # None
          /\ \A q \in Procs : held'[q] # None => object'[held'[q]] # None
      BY <2>1, <2>2 DEF TypeOK, Reply, Reachable
    <3>3. readers' \in [Locks -> SUBSET Procs] /\ owner' \in [Locks -> Procs \union {None}]
      BY <1>2 DEF TypeOK, LocksTypeOK, Locks
    <3> QED  BY <1>1, <2>1, <2>2, <3>1, <3>2, <3>3 DEF TypeOK, LocksTypeOK, NoRequest, Reply
  <2>5. LockInv'
    BY <1>1, <1>2, <2>1 DEF LockInv, TypeOK, LocksTypeOK, Locks, Holding, Places, Reply
  <2>6. Places'
    BY <1>1, <2>1 DEF Places, TypeOK, NoRequest, DocOps, ReadOps, Reply
  <2>7. Holding'
    BY <1>1, <2>1, <2>2, <2>3 DEF Holding, Places, TypeOK, LockInv, NoRequest, Reply, Reachable
  <2>8. RegistryInv'
    <3>1. registry' = reg /\ \A h \in Handles : object'[h] = object[h] \/ object'[h] = None
      BY <2>1 DEF Reply, Reachable
    <3>2. \A m \in Names : reg[m] # None => object'[reg[m]] = object[reg[m]]
      BY <2>1, <2>2 DEF Reply, Reachable
    <3>3. \A m \in Names : registry'[m] # None => object'[registry'[m]].name = m
      BY <2>2, <3>1, <3>2 DEF RegistryInv
    <3>4. ASSUME NEW h \in Handles, object'[h] # None, ~object'[h].closed
          PROVE  registry'[object'[h].name] = h
      <4>1. object'[h] = object[h] /\ object[h] \in Object /\ registry[object[h].name] = h
        BY <3>1, <3>4 DEF RegistryInv, TypeOK
      <4>2. object[h].name \in Names /\ object[h].name # n
        BY <1>1, <3>4, <4>1 DEF Object
      <4> QED  BY <2>2, <3>1, <4>1, <4>2
    <3> QED  BY <1>1, <2>2, <3>1, <3>3, <3>4 DEF RegistryInv
  <2>9. AnsweredIsStored'
    BY <1>1 DEF AnsweredIsStored
  <2> QED  BY <2>4, <2>5, <2>6, <2>7, <2>8, <2>9
<1> QED  BY <1>3, <1>4 DEF Dropped

LEMMA StartStep ==
    ASSUME IndInv, Start PROVE IndInv'
<1> USE HandlesAssumption, NoneAssumption DEF IndInv, Listing, disk, locks, progress
<1>1. PICK skipped \in SUBSET made : \E loaded \in [Names -> SUBSET Docs] : Opened(made \ skipped, loaded)
  BY DEF Start
<1>0. PICK loaded \in [Names -> SUBSET Docs] : Opened(made \ skipped, loaded)
  BY <1>1
<1> DEFINE N == made \ skipped
           fresh(n) == [name |-> n, closed |-> FALSE, docs |-> loaded[n]]
<1>2. PICK opened \in [N -> Handles] :
        /\ \A m, n \in N : opened[m] = opened[n] => m = n
        /\ registry' = [n \in Names |-> IF n \in N THEN opened[n] ELSE None]
        /\ object' = [h \in Handles |->
              IF \E n \in N : opened[n] = h
              THEN LET n == CHOOSE n \in N : opened[n] = h
                   IN [name |-> n, closed |-> FALSE, docs |-> loaded[n]]
              ELSE None]
  BY <1>0 DEF Opened
<1>3. /\ server = "down" /\ server' = "serving" /\ N \in SUBSET Names
      /\ UNCHANGED <<made, stored, kept, pc, req, held, todo, ans, readers, owner>>
  BY DEF Start, TypeOK
<1>4. \A p \in Procs : pc[p] = "idle" /\ held[p] = None /\ todo[p] = {}
  BY <1>3 DEF Places, Holding
<1>5. \A n \in N : object'[opened[n]] = fresh(n)
  BY <1>2
<1>6. \A h \in Handles : object'[h] # None => \E n \in N : opened[n] = h /\ object'[h] = fresh(n)
  BY <1>2
<1>7. \A n \in N : fresh(n) \in Object /\ fresh(n).name = n
  BY <1>3 DEF TypeOK, Object
<1> HIDE DEF N, fresh
<1>8. object' \in [Handles -> Object \union {None}]
  <2>1. \A h \in Handles : object'[h] \in Object \union {None}
    BY <1>6, <1>7
  <2> QED  BY <1>2, <2>1
<1>9. TypeOK'
  <2>1. registry' \in [Names -> Handles \union {None}]
    BY <1>2
  <2>2. \A n \in Names : registry'[n] # None => object'[registry'[n]] # None
    <3>1. \A n \in Names : registry'[n] # None => n \in N /\ registry'[n] = opened[n]
      BY <1>2
    <3> QED  BY <1>5, <1>7, <3>1
  <2> QED  BY <1>3, <1>4, <1>8, <2>1, <2>2 DEF TypeOK, LocksTypeOK
<1>10. LockInv' /\ Places' /\ Holding'
  BY <1>3, <1>4 DEF LockInv, Places, Holding
<1>11. RegistryInv' /\ AnsweredIsStored'
  <2>1. \A n \in Names : registry'[n] # None => n \in N /\ registry'[n] = opened[n]
    BY <1>2
  <2>2. \A n \in N : registry'[n] = opened[n]
    BY <1>2, <1>3
  <2>3. RegistryInv'
    <3>1. \A n \in Names : registry'[n] # None => object'[registry'[n]].name = n
      BY <1>5, <1>7, <2>1
    <3>2. \A h \in Handles : object'[h] # None => registry'[object'[h].name] = h
      BY <1>6, <1>7, <2>2
    <3> QED  BY <1>3, <3>1, <3>2 DEF RegistryInv
  <2>4. AnsweredIsStored'
    BY <1>3 DEF AnsweredIsStored
  <2> QED  BY <2>3, <2>4
<1> QED  BY <1>9, <1>10, <1>11

LEMMA GoneStep ==
    ASSUME IndInv, Gone PROVE IndInv'
<1> USE HandlesAssumption, NoneAssumption DEF IndInv, Listing, Gone, disk, Idle
<1>1. ans' \in [Procs -> Answers]
  BY AnswerTyped DEF TypeOK, NoAnswer
<1>2. TypeOK'
  BY <1>1 DEF TypeOK, LocksTypeOK, NoRequest
<1>3. LockInv' /\ Places' /\ Holding'
  BY DEF LockInv, Places, Holding, Locks, NoRequest
<1>4. RegistryInv' /\ AnsweredIsStored'
  BY DEF RegistryInv, AnsweredIsStored
<1> QED  BY <1>2, <1>3, <1>4

LEMMA Initially ==
    Init => IndInv
<1> SUFFICES ASSUME Init PROVE IndInv
  OBVIOUS
<1> USE HandlesAssumption, NoneAssumption DEF IndInv, Listing, Init, AtRest, Idle, LocksFree
<1>1. NoAnswer \in Answers
  BY AnswerTyped DEF NoAnswer
<1>2. TypeOK
  BY <1>1 DEF TypeOK, LocksTypeOK, NoRequest
<1>3. LockInv /\ Places /\ Holding
  BY DEF LockInv, Places, Holding, Locks, NoRequest
<1>4. RegistryInv /\ AnsweredIsStored
  BY DEF RegistryInv, AnsweredIsStored
<1> QED  BY <1>2, <1>3, <1>4

LEMMA Idly ==
    ASSUME IndInv, UNCHANGED <<registry, object, made, stored, kept, pc, req, held, todo, ans, readers, owner>>,
           server' = server \/ server' = "draining"
    PROVE  IndInv'
BY DEF IndInv, Listing, TypeOK, Object, LocksTypeOK, LockInv, Places, Holding, RegistryInv, AnsweredIsStored

-----------------------------------------------------------------------------
LEMMA ReceiveStep ==
    ASSUME IndInv, NEW p \in Procs, Receive(p) PROVE IndInv'
<1> USE DEF DocOps, ReadOps, Ops
<1>1. CASE Request(p, "list", None, None) \/ Request(p, "health", None, None)
  BY <1>1, RequestStep
<1>2. ASSUME NEW n \in Names, NEW op \in {"query", "listdocs", "info", "create", "drop"},
             Request(p, op, n, None)
      PROVE  IndInv'
  BY <1>2, RequestStep
<1>3. ASSUME NEW n \in Names, NEW op \in DocOps \union {"get"}, NEW d \in Docs, Request(p, op, n, d)
      PROVE  IndInv'
  BY <1>3, RequestStep
<1> QED  BY <1>1, <1>2, <1>3 DEF Receive

LEMMA AcquireStep ==
    ASSUME IndInv, NEW p \in Procs, Acquire(p) PROVE IndInv'
BY ResolveStep, HealthStep, WriteLockStep, ReadLockStep, ListLockStep, RegistryLockStep,
   DropLockStep DEF Acquire

LEMMA ReadsStep ==
    ASSUME IndInv, NEW p \in Procs,
           \/ GetDocument(p) \/ Query(p) \/ Count(p) \/ ListDocs(p)
           \/ Info(p) \/ Describe(p) \/ Stats(p)
    PROVE  IndInv'
<1> USE DEF DocOps, ReadOps
<1>1. pc[p] = "read"
  BY DEF GetDocument, GetFrom, Query, Count, ListDocs, Info, Describe, Stats, Read, ReadOn
<1>2. object[held[p]] \in Object /\ ans[p] \in Answers
  BY <1>1 DEF IndInv, TypeOK, Holding
<1>3. Mine(p).docs \in SUBSET Docs /\ Served(p) \in SUBSET Docs
  BY <1>2 DEF Mine, Served, Object
<1>4. /\ Cardinality(Served(p)) \in Nat
      /\ ans[p].items \in Items /\ Mine(p).docs \in Items
  BY <1>2, <1>3, Countable DEF Answers, Items
<1>5. req[p].op \in {"get", "query", "count", "listdocs"} => req[p].name # None
  BY <1>1, NoneAssumption DEF IndInv, Places
<1>6. CASE GetDocument(p)
  <2>1. PICK a \in Answers : Read(p, "get", a)
    BY <1>6, AnswerTyped DEF GetDocument, GetFrom
  <2>2. req[p].op = "get"
    BY <2>1 DEF Read
  <2> QED  BY <1>5, <2>1, <2>2, ReadStep
<1>7. CASE Query(p)
  <2>1. PICK a \in Answers : Read(p, "query", a)
    BY <1>4, <1>7, AnswerTyped DEF Query
  <2>2. req[p].op = "query"
    BY <2>1 DEF Read
  <2> QED  BY <1>5, <2>1, <2>2, ReadStep
<1>8. CASE Count(p)
  <2>1. PICK a \in Answers : Read(p, "count", a)
    BY <1>4, <1>8, AnswerTyped DEF Count
  <2>2. req[p].op = "count"
    BY <2>1 DEF Read
  <2> QED  BY <1>5, <2>1, <2>2, ReadStep
<1>9. CASE ListDocs(p)
  <2>1. CASE Read(p, "listdocs", Answer("failed", {}, 0))
    <3>1. PICK a \in Answers : Read(p, "listdocs", a)
      BY <2>1, AnswerTyped
    <3>2. req[p].op = "listdocs"
      BY <3>1 DEF Read
    <3> QED  BY <1>5, <3>1, <3>2, ReadStep
  <2>2. CASE ReadOn(p, "listdocs", "count", Mine(p).docs)
    BY <1>4, <2>2, ReadOnStep
  <2> QED  BY <1>9, <2>1, <2>2 DEF ListDocs
<1>10. CASE Info(p)
  BY <1>4, <1>10, ReadOnStep DEF Info
<1>11. CASE Describe(p)
  BY <1>4, <1>11, ReadOnStep DEF Describe
<1>12. CASE Stats(p)
  <2>1. PICK a \in Answers : Read(p, "stats", a)
    BY <1>4, <1>12, AnswerTyped DEF Stats
  <2> QED  BY <1>12, <2>1, ReadStep DEF Stats
<1> QED  BY <1>6, <1>7, <1>8, <1>9, <1>10, <1>11, <1>12

LEMMA WritesStep ==
    ASSUME IndInv, NEW p \in Procs, UpsertDocument(p) \/ DeleteDocument(p)
    PROVE  IndInv'
<1> USE DEF DocOps
<1> DEFINE n == Mine(p).name
           d == req[p].doc
<1>1. Enter(p, "upsert") \/ Enter(p, "delete")
  BY DEF UpsertDocument, DeleteDocument
<1>2. /\ d \in Docs /\ n \in Names /\ Mine(p).docs \in SUBSET Docs
      /\ stored[n] \in SUBSET Docs /\ kept[n] \in SUBSET stored[n]
      /\ kept = [kept EXCEPT ![n] = kept[n]]
  <2>1. d \in Docs /\ n \in Names /\ Mine(p).docs \in SUBSET Docs
    BY <1>1, EnterStep DEF Mine, Object
  <2> QED  BY <2>1 DEF IndInv, TypeOK, AnsweredIsStored
<1> HIDE DEF n, d
<1>3. CASE UpsertDocument(p)
  <2>1. CASE Mine(p).closed
    BY <1>3, <2>1, SpoilStep DEF UpsertDocument
  <2>2. CASE ~Mine(p).closed
    <3>1. Enter(p, "upsert")
      BY <1>3 DEF UpsertDocument
    <3>2. CASE /\ Store(p, Mine(p).docs \union {d}, stored[n] \union {d}, "ok")
               /\ kept' = [kept EXCEPT ![n] = kept[n] \union {d}]
      BY <1>2, <2>2, <3>1, <3>2, StoreStep DEF n
    <3>3. CASE /\ Store(p, Mine(p).docs \union {d}, stored[n], "failed")
               /\ kept' = [kept EXCEPT ![n] = kept[n]]
      BY <1>2, <2>2, <3>1, <3>3, StoreStep DEF n
    <3> QED  BY <1>2, <1>3, <2>2, <3>2, <3>3 DEF UpsertDocument, n, d
  <2> QED  BY <2>1, <2>2
<1>4. CASE DeleteDocument(p)
  <2>1. Enter(p, "delete")
    BY <1>4 DEF DeleteDocument
  <2>2. CASE Spoil(p, "failed") \/ Spoil(p, "missing")
    BY <2>1, <2>2, SpoilStep
  <2>3. CASE /\ ~Mine(p).closed
             /\ Store(p, Mine(p).docs \ {d}, stored[n] \ {d}, "ok")
             /\ kept' = [kept EXCEPT ![n] = kept[n] \ {d}]
    BY <1>2, <2>1, <2>3, StoreStep DEF n
  <2>4. CASE /\ ~Mine(p).closed
             /\ Store(p, Mine(p).docs \ {d}, stored[n], "failed")
             /\ kept' = [kept EXCEPT ![n] = kept[n] \ {d}]
    BY <1>2, <2>1, <2>4, StoreStep DEF n
  <2> QED  BY <1>4, <2>2, <2>3, <2>4 DEF DeleteDocument, n, d
<1> QED  BY <1>3, <1>4

LEMMA AdvanceStep ==
    ASSUME IndInv, NEW p \in Procs, Advance(p) PROVE IndInv'
BY WritesStep, ReadsStep, ListNextStep, ListStatStep, ListDoneStep, CreateStep, CreateFailsStep,
   RefuseStep, DropStep, DestroyStep, PurgeStep, DroppedStep DEF Advance

LEMMA Stepwise ==
    IndInv /\ [Next]_vars => IndInv'
<1> SUFFICES ASSUME IndInv, [Next]_vars PROVE IndInv'
  OBVIOUS
<1>1. CASE Next
  BY <1>1, ReceiveStep, AcquireStep, AdvanceStep, StartStep, GoneStep, Idly
     DEF Next, Signal, Shutdown, Kill, disk, locks, progress
<1>2. CASE UNCHANGED vars
  BY <1>2, Idly DEF vars
<1> QED  BY <1>1, <1>2

LEMMA Always ==
    Spec => []IndInv
BY Initially, Stepwise, PTL DEF Spec

\* Every variable of the service keeps its type (the handlers' places, the
\* registry m.colls, the locks).
THEOREM TypeCorrect ==
    Spec => []TypeOK
<1>1. IndInv => TypeOK
  BY DEF IndInv
<1> QED  BY <1>1, Always, PTL

\* However many requests create, drop and use collections, whatever fails and
\* whenever the process dies, no directory has two open handles.
THEOREM LiveHandlesDistinct ==
    Spec => []OneLiveHandle
<1>1. IndInv => OneLiveHandle
  BY DEF IndInv, RegistryInv, OneLiveHandle
<1> QED  BY <1>1, Always, PTL

\* A document whose upsert was answered with success is in its directory until
\* it is deleted or its collection dropped, whatever fails (a write, a removal, a
\* read, a start) and whenever the process dies.
THEOREM NothingLost ==
    Spec => []AnsweredIsStored
<1>1. IndInv => AnsweredIsStored
  BY DEF IndInv
<1> QED  BY <1>1, Always, PTL

=============================================================================
