# TLA+ for zvec-go

Specifications of the pure-Go vector database client (`collection.go`,
`zvec.go`, `schema.go`), of the HTTP service built on it (`server/`,
`cmd/zvec-httpd`) and of the binding to the C++ core (`cgo/`), the TLC
configurations that check them on small instances, and TLAPS proofs of what
matters most for every instance. `PROJECT.json` maps every definition to the lines it models.

## 1. The system

| Component | State | Operations | What is hard | What makes it correct |
|---|---|---|---|---|
| **Collection** (`collection.go`, `zvec.go`) | `c.docs`, `c.schema`, `c.closed` in memory; `collection.json` and `docs/<id>.json` on disk; the lock `c.mu` | Insert, InsertBatch, Update, Upsert, UpsertBatch, Delete, Flush, AddColumn, DropColumn, AlterColumn, Close, Destroy, CreateAndOpen, Open; reads Get, Fetch, ListDocs, ListIDs, Count, Stats, Search, Query | memory is changed before the disk, and several files are changed by one call: a system call fails or the process dies in between; a failed call is repeated | a restart finds what the replies promised; the reads that look in memory and those that look on disk agree; dropped data stays dropped, renamed data is never lost |
| **Similarity search and paging** (`collection.go`, `VectorQuery` in `schema.go`) | none | Search, Query, similarity, ListDocs' offset and limit | map order, ties, non-comparable scores, vectors of another length | the answer is a top k, pages partition the listing |
| **CollectionManager and handlers** (`server/manager.go`, `handlers.go`) | `m.colls`, `m.mu`; per request the collection it has looked up | OpenExisting, Create, Get, Drop, List, Count, Close, and one handler per route | a request uses a collection after it let `m.mu` go; two levels of locks; a drop that fails half way | one live handle per directory; stale handles write nothing; what was answered with success stays; nobody waits for ever |
| **Server lifecycle** (`server/server.go`, `main.go`) | serving, draining, down | New, Start, Shutdown; the signal and its time-out | handlers under way when the time-out strikes | shutdown ends; nothing answered with success is lost by a restart |
| **Authentication** (`server/auth.go`, `requireWritable`) | the table of users | NewAuthenticator, Authenticate, requireAuth, isReadonly | names trimmed in the table and not in requests, duplicates, hashed and plain passwords; every writing handler asks for itself | served are exactly the users of the file; a readonly one changes nothing |
| **Configuration** (`server/config.go`) | none | LoadConfig, defaults, the time-outs as durations | zero and negative values, seconds that overflow | a service runs with what its file says |
| **Library initialisation** (`zvec.go`) | `once`, `globalZvec` | Init, GetInstance | concurrent calls, a failure inside `once.Do`, a read without a lock | whoever Init returned to gets the one instance |
| **Schema, options, enumerations** (`schema.go`, `types.go`) | plain data | builders, Validate | duplicate names | names are distinct |
| **CGO binding** (`cgo/collection_cgo.go`) | one native address per Schema, Document, Query, Collection; their finalizers | constructors, field and document setters, writes, Query, Free, Close, Destroy | error paths with temporaries, addresses that come back, finalizers that run in the middle of a call | every native object is destroyed once, and not under a call |
| **Web console** (`server/web.go`, `web/index.html`) | browser state | a client of the HTTP routes | - | - |

How they interact: `main` builds a `Server`, which owns a `CollectionManager`
and serves one goroutine per request. A handler looks its collection up under
`m.mu` (`getCollection`), lets `m.mu` go, and calls the `Collection`, which
takes its own `c.mu`. Create and Drop hold `m.mu` for the whole call, Drop (by
way of `Destroy`) and List (by way of `info`, three times for each collection)
take `c.mu` inside it. Collections share nothing but
the data directory. `New` calls the library's `Init`, which a program that embeds
the service may call as well. The binding shares no code or state with the rest.

CreateIndex, DropIndex, Optimize and DeleteByFilter check that the collection
is open and change nothing; they have no action.

## 2. The modules

| Module | Models | Its correspondence |
|---|---|---|
| `Collection` | one collection: the handle, memory, the directory, and every operation as a sequence of steps | one action per change of memory and per system call that changes the disk |
| `WriteBehind` | what a collection promises about its directory, with no operations in it | `Collection!Store` is the refinement mapping |
| `Manager` | the HTTP service: requests and their answers, the registry, the two levels of locks, start, drain, stop, kill | one action per critical section or per wait for a lock |
| `Service` | what the service promises its clients: requests that act at one moment, or at a few it names, on named sets of documents | `Manager!Promised` is the refinement mapping |
| `RWMutex` | `sync.RWMutex` as callers see it, with the announced writer that stops new readers (external) | |
| `Search` | similarity, the sort and the cut, the clamping of pages | one operator per function of the source |
| `Reads` | Search, Query and ListDocs among writers | one action per call |
| `Startup` | Init, GetInstance, LoadConfig and New, and whom the service that results lets in | one action per step another goroutine can get between; a request is an operator |
| `Cgo` | who owns each object of the C library | one action per method, then how a call goes on |
| `CollectionProofs`, `ColumnProofs` | theorems about `Collection` | one lemma per action |
| `ManagerProofs`, `ServiceProofs` | theorems about `Manager` | one lemma per action |
| `SearchProofs` | the operators of `Search`: folds, the order of scores, the sort, the norms, pages | lemmas for inputs of any length |
| `ReadsProofs` | theorems about `Reads` | one lemma per action |
| `StartupProofs`, `CgoProofs` | theorems about `Startup` and `Cgo` | one lemma per action |
| `MCCollection`, `MCManager`, `MCReads`, `MCStartup`, `MCCgo` | workloads, vectors, files and symmetries of the runs | |

### Collection

Every operation of a handle holds `c.mu` for writing, so operations never
interleave; between any two of their steps a system call may fail (`Faults`)
and the process may die (`Crash`). The steps of an operation follow the source:
`PutNext` is `c.docs[doc.ID] = doc`; `CreateTemp`, `WriteTemp`, `RenameTemp`
are `writeFileAtomic`; `FailWrite` is any of its error returns. `Open` may pass
over files it cannot read, as `loadDocs` does without an error; one that cannot
read `collection.json`, or list the directory, is refused and changes nothing. `pc` names the
loop the operation is in and `cur` the file whose write is in progress. Insert,
Update and Upsert are the one-document case of the batch loop; the document
they refuse (nil, or an ID `ValidateDocID` rejects) is `BadId`.

Three variables are not in the code. `unread` are the documents whose files Open
passed over, until they are written again: the listings lack them and Get finds
them. `promise` records, per file, the contents
the replies given so far allow a restart to find: one content after a success,
more while an operation is under way and after it failed. `owed` is what the
operation in progress will vouch for if it succeeds. The rules for the replies
are: a mutation that returns nil vouches for each file it changed; a batch that
returns `(count, err)` vouches for the documents it counted, unless the rest of
the batch holds the same ID again; Flush vouches for every document; any other
error vouches for nothing new. (So a counted document that a later one with its ID
has overwritten in memory is vouched for by nobody: the count says how many, not
which.)

`schema` is the bag of scalar field names, so that two fields of one name can
be told from one. Types of columns, vectors and metadata are left out: no
operation decides anything by them. A file is absent, torn (does not parse) or
holds a document or schema. Only `os.WriteFile` in `CreateAndOpen` can leave a
torn file, and `FailCreate` and `Crash` do.

### Manager

What a collection does inside a call is `Collection`'s subject; in `Manager` a
call on a collection is one step under its lock, on the set of documents it
serves and the set its directory holds, which a failing call leaves different: an
upsert whose file cannot be written is answered 500 and stays in memory, a delete
whose file cannot be removed is answered 500 and leaves memory, and a start serves
only those documents it could read. An upsert request has one document.
Goroutines interleave between the lookup, the wait for each lock and each critical
section. `object[h]` is the `Collection` struct a handle refers to; a handle
nothing refers to any more is reused, and `Rank` is the order in which an instance
gives them out, which no code can see. `ans[p]` is the answer p's client got: a
status and the documents, names or numbers in it. `kept` is not in the code: per
name, the documents whose upsert was answered with success and that no delete or
drop has been carried out on since.

`info` takes the collection's read lock three times: `Info`, `Describe`, `Stats`.
List, holding `m.mu`, makes these calls for one collection after another, and each
count goes into its answer as it is taken (`ListStat`). A listing of documents
gathers its page in one critical section and its total in another, Create answers
with statistics it asks for after it has let `m.mu` go, and the handlers drop the
errors of Count and Stats. os.RemoveAll takes two steps, in either order, and may
fail after any; CreateAndOpen may fail with or without having truncated an earlier
`collection.json`; OpenExisting skips what cannot be opened. Request bodies are
valid and users may write (`Startup` has those who may not).

### Service

No locks, handles or directories: `colls` maps a name to the documents of its
collection, or to nothing, and outlives restarts. Each request acts at one
moment, with four exceptions the code makes observable and `Service` spells out:

- a listing of the collections counts the documents of one after another (`Tell`)
  and has all their names at the last moment (`List`), so its counts may never have
  been true together;
- a listing of documents takes page and total at two moments;
- Create answers with what the new collection holds a moment later;
- a request whose collection is dropped while it waits (`late`) is answered as too
  late even if the name has been given away again.

`Manager!Collections`, `Asked` and `Late` are the mapping: a collection is gone from
the moment Destroy closes it, since nobody can tell that its directory is not
empty yet. The refinement is one of runs without faults: a write that fails leaves
a document that clients see and that the next start does not.

### Search and Reads

A score is compared and nothing else, so it is a fraction whose denominator may
be zero: `1/0` and `-1/0` are the infinities, `0/0` is NaN.
Cross-multiplication compares as floating point does, except that two infinities
need a case of their own (`Higher`). Products overflow at
`Overflow` (they are float32 in the code), sums and squared distances do not
(float64); rounding is left out. The cosine is represented by its signed square,
which orders the same way. `Inserted` is what `sort.SliceStable` does with up to
20 elements; it merges blocks of more, but where no score is NaN any sort ends in
a ranking (`IsRanking`), and that is all the proofs use of it. `Reads` ranges over the documents in any order, as Go ranges over a
map. Its `scan` is a client that lists a collection in pages: it asks for what
follows the documents it has, until it gets none.

### Startup

`once` is `sync.Once`: the first goroutine sets `globalZvec` and makes the log
directory, the others wait, and a failure inside still counts as done. Another's
write to `globalZvec` may or may not be seen by a GetInstance of a goroutine
Init has not returned to: the read has no lock, so both outcomes are possible.
`New` is Init, then the manager, then the authenticator, any of which may refuse.
A file either parses or not and may be followed by more data; the decoder's
`More` takes a closing bracket or brace for the end, so such a file loads (the
comment at `config.go:101-104` says trailing data is rejected). `Status` is what
a request is answered by `requireAuth`, and by `requireWritable`, which create,
drop, upsert and delete ask first thing. `Acceptable` and `Entry` are
NewAuthenticator. `BasicAuth` is what the service gets of the credentials sent: the
library cuts username, colon and password at the first colon, so of a username
with a colon (`Whole` is one without) it gets what is `Before` it, and the `Rest`
as part of the password. `Duration` is the product of seconds and `time.Second`,
which wraps around at `Half`, 2^63.

### Cgo

A Go struct owns one native address; `armed` are those with a finalizer, `roots`
those the program's variables refer to. A call goes on in steps: it makes its
temporaries, reads the addresses of its arguments, is in C, and ends, destroying
its temporaries. From the moment the addresses are read nothing in the method
refers to the structs any more (there is no `runtime.KeepAlive`), so the garbage
collector may finalize those the program does not refer to. Free, Close and
Destroy use their struct after the call and keep it. Options that cannot be made
are left out without an error, as in `collectionOptions`. What C does inside an
object is external; that `lastError` passes a nil pointer to
`zvec_get_last_error`, so that the detail its comment promises (102-103) is never
there, and that a result block of zero documents is not freed (698) are outside
the model.

## 3. What the runs check

| Run | Instance | Properties | What it shows |
|---|---|---|---|
| `documents` | 2 IDs, 1 field, 2 values, 5 batches (repeated ID, refusal half way), all document operations, every fault, crash | `DurableAcks`, `ReadsAgree`, `ImplementsWriteBehind` | replies are honoured by any restart and by both kinds of reads, but for what Open could not read; disk holds only whole files that came from memory |
| `columns` | 2 IDs, 2 scalar names and a vector name, all column operations, reads and writes may fail, crash | `TypeOK`, `DurableAcks`, `SchemaNamesDistinct`, `DropScrubsDisk`, `RenameMovesDisk`, `RenameKeepsValue`, `ImplementsWriteBehind` | names stay distinct through failed and repeated calls; a success reaches every document that memory and disk agree on; a rename loses no value at any of its steps |
| `manager` | 2 requests of every kind, 2 names, 4 handles, 1 document, restarts, no fault | `LiveMirrorsDisk`, `DropErases`, `RegisteredIsOpen`, `ImplementsService` | a request that looked a collection up before it was dropped cannot touch its successor; answers are those `Service` allows, counts of several collections in one answer included |
| `manager_faults` | 2 requests of every kind, 1 name, 3 handles, 1 document, every fault, kill, fair | `TypeOK`, `OneLiveHandle`, `AnsweredIsStored`, `RequestsReturn`, `ShutdownEnds` | never two live handles on a directory; what was answered with success stays; no deadlock among `m.mu` and the collections' locks, whatever fails |
| `reads` | 3 documents, 4 vectors of two lengths, 3 queries, 3 metrics, k of 0 and 2, pages of 1 and 2, upserts and deletes | `AnswersAreBest`, `NothingCloserThanItself`, `PagesCover` | a search returns the best k whatever order the map is walked in; a listing in pages passes over nothing unless documents are deleted meanwhile |
| `startup` | 2 goroutines, 97 files: every list of up to two of 8 users, every time-out (one of them overflows), tail and failure to parse | `TypeOK`, `InitThenInstance`, `ConfigSticks`, `CallsReturn`, `OnlyUsersServed`, `UsersCanLogIn`, `RunsAsConfigured` | one instance, for everybody Init returned to; a service that starts serves the users of its file, each with the rights it has there, and nobody else |
| `cgo` | 4 structs, 4 addresses, all methods, failures, finalizers at any time | `TypeOK`, `DestroyedOnce`, `NothingLeaks`, `KeptIsSafe` | no native object is destroyed twice or lost; a program that keeps its arguments is safe |
| `column_retry`, `recreate`, `zombie`, `reads_overflow`, `cgo_finalizer` | small instances that show them | one each | the findings of section 6 |

### Bounds

Each document has its own file and its own entry in the map, and a loop's only
memory is which documents are left: two documents give every order of two
writes, a failure between them and a document the loop has passed or not yet
reached. Two values tell an old content from a new one, two scalar names the
old from the new name of a rename; a vector name is there for the second
duplicate check. A batch of three with a repeated ID is the shortest in which a
later element undoes what an earlier one was counted for. In `Manager` names
interact only through `m.mu` and in the answers of List and the health check, so
`manager` has two of them, and the runs about one collection's directory and locks
have one; two requests are a stale one and another that drops and then creates
anew, and a writer queued between two readers is a request against a Drop (more
requests than two are the theorems' business). The number of handles is what
`HandlesAssumption` asks, so Create never fails for want of one. Symmetry is over
goroutines, handles and names, in runs without liveness; where there is liveness
handles are given out in the order of `Rank`, which leaves fewer states to look at
and loses no behaviour but their names. No counter is
unbounded. In `Reads` three documents are a tie, a better and a worse one, and
three pages of one; `Overflow` is out of reach in `reads` and within it in
`reads_overflow`, where the vectors have one component. In `Startup` the eight users are one name
in two spellings with two passwords and two rights, a second who only reads, and
four that are refused or cannot log in, the names with a colon among them (one
begins with it, one is cut to the first name); lists of two of them are every
duplicate. A second of 10 and a `Half` of 128 make 20 seconds overflow into a
negative time-out.
Two goroutines are one inside `once.Do` and one that waits. In `Cgo` a call has a
collection, a query and a result, and one more struct for the document or the
schema; as many addresses let each be reused. The workload constants (`Ops`, `Faults`, `Batches`, `Schemas`) bound
what the client does, never what the code does.

### Fairness

`Collection` claims nothing that needs fairness: one goroutine runs through one
operation. `Manager` (`FairSpec`, in `manager_faults`): `WF` on the steps of a request that holds what it needs, and
`SF` on the steps that wait for a lock, since a lock that is free again and
again is obtained: `sync.Mutex` goes into starvation mode and hands itself over
to a waiter of more than 1 ms, and a writer of `sync.RWMutex` that leaves lets
in the readers that waited. `WF` on Shutdown is main's goroutine. Requests,
signals and kills are not fair. `Startup`: `WF` on the steps of a call that has
begun; a goroutine that waits for `once.Do` is woken when it is over and nobody
takes that away again. `Cgo` claims nothing that needs fairness: finalizers need
never run.

## 4. What is proved

Every theorem holds for all values of the constants that satisfy the named
assumptions of its module; those say that markers such as `None` are not data,
that workloads are well formed, that documents and names are finitely many and
that there are handles enough. `ServiceProofs` assumes `Faults = {}` besides.

**Collection** (`CollectionProofs`, `ColumnProofs`). `Inductive`:
`IndInv == TypeOK /\ Control /\ Written /\ Held /\ DurableAcks /\ Emptying`.
`DurableAcks` alone is not inductive: Flush and every later column operation
write out whatever memory holds, and if memory held something no reply allows,
that write would break it. So `Held` says that memory, too, holds only what the
replies allow. A success then narrows `promise` to what memory holds, which is
right only if the file holds the same: `Written` says so of every document in
`owed` that is neither ahead of the loop (`batch`, `scan`) nor being written
(`cur`). `Control` ties the locals to the operation they belong to (no temp file
without a target, the schema written last, and so on) and `Emptying` covers the
two operations under which no handle is open. From it: `TypeCorrect`,
`RestartFindsAcked` (`DurableAcks`), `ReadersAgree` (`Held` and `DurableAcks` put
memory's content and the disk's in one `promise`, and a settled promise has one
member; `Held` leaves out the `unread`, of which memory has nothing and of whose
files `DurableAcks` still speaks), `NamesStayDistinct` (with `NamesInv`: the new name of a rename is still
free when it is used, since `c.mu` is held), and `Refinement`
(`ImplementsWriteBehind`; each action is at most one step of the store).
`DropScrubs`, `RenameMoves` and `RenameKeeps` are the action properties of the
column operations; they rest on `Passed`: what the loop has passed no longer
holds the name in memory.

**Manager under every fault** (`ManagerProofs`). `TypeCorrect`,
`LiveHandlesDistinct` (`OneLiveHandle`), `NothingLost` (`AnsweredIsStored`). The
invariant is the lock discipline: `LockInv` says which locks a goroutine holds at
each place of its handler and that a writer past a lock is alone, `Holding` which
handle it has there, and `RegistryInv` that every open collection is the
registered one of its name. `AnsweredIsStored` needs all of it: a purge takes files
away only where nothing is kept any more, and stays so only because `RegistryInv`
makes the collection being purged, which is closed, the only one there until the
purge is over.

**Manager without faults** (`ServiceProofs`). `MemoryMirrorsDisk`, `DropsErase`,
`RegisteredOpenAlways` and `Linearizable`: `Spec => ImplementsService`. Added to
the invariant are `Clean` (a name without a collection has nothing on disk, so a
new one starts empty in both copies), `Dying` (a closed registered collection is
being purged by somebody who holds `m.mu`), `Asking` (only listings have answered
in part) and `Telling` (what a listing of the collections has counted and what it
still has to are the registered ones, which do not change while it holds `m.mu`). Each request's moment is the critical
section that answers it, a drop's is Destroy; every lookup, wait for a lock,
purge and restart is a stutter of `Service`.

**Search** (`SearchProofs`). `Search` folds over sequences: a dot product, a
squared distance, a sort. The fold of the community modules is a `CHOOSE` of a
function on sets of indices. `FoldExists` shows that there is one, by induction
on how many indices there are (`Induction`, from the well-founded order of the
numbers: a set with zero and with the successor of each member is `Nat`), and
`DotSteps`, `L2Steps` and `RankedSteps` turn each fold into a chain of steps, about
which ordinary induction proves the rest:

- `RankedIsRanking`: what the sort returns is a rearrangement of the results in
  which nothing is higher than what comes before it. `InsertedIs` says where one
  turn puts a result, and `NegativelyTransitive` that without NaN the comparator
  is a strict weak order; with NaN it is not, and the theorem is false
  (`reads_overflow`).
- `NothingCloser`: no vector is more similar to a vector than it is to itself.
  For distances that is a sum of squares; for angles it is `CauchySchwarz`, which
  holds because the squared length of a combination of two vectors
  (`Form`) never gets below zero, one component after the other. Where a product
  overflows the score is NaN or zero, and neither is higher.
- `InOrderIs`, `PageIs`: a document's place in the listing is the number of those
  up to it (`Rank`), and a page is the documents from its offset on.

**Reads** (`ReadsProofs`). `BestAnswers`, `BestAmongSmall` (`AnswersAreBest`),
`ItselfFirst` (`NothingCloserThanItself`) and `PagesAreComplete` (`PagesCover`), from
`IndInv == TypeOK /\ IsFiniteSet(Present) /\ Found /\ Underway /\ PagesCover`.
`Found` keeps of an answer that it is the top k of the documents as they are.
`PagesCover` speaks of a listing that has ended; what it needs on the way is
`Underway`: unless something was deleted, a document yet to be shown is ranked
behind the offset (`Ahead`: an added document can only move it back, never in
front), and unless something was added either, what was shown are the first
documents in order (`Behind`). `BestAnswers` has one hypothesis, `Comparable`: no
two vectors that meet make a NaN. `BestAmongSmall` replaces it by what a program
can see: no component's square overflows float32, that is, no component
reaches 2^64. `ItselfFirst` needs neither.

**Startup** (`StartupProofs`). `TypeCorrect`, `InitBeforeUse`, `ConfiguredOnce`,
`NobodyElseServed`, `NobodyLockedOut`, `SettingsHold`. `OnceInv` says that there is
an instance exactly from the moment somebody is inside `once.Do`, `ServiceInv`
that a running service is what New makes of a file whose users it accepted; the
rest is that in such a list a trimmed name finds its one user (`EntryIsUser`), and
that a number of seconds that fits a `time.Duration` is not wrapped around.
`NobodyLockedOut` is about names without a colon, `SettingsHold` about time-outs
that do not overflow.

**Cgo** (`CgoProofs`). `TypeCorrect`, `NeverTwice`, `NothingLost`, `KeepersAreSafe`. `Ownership`:
every live address belongs to one struct with a finalizer or to the call that is
making it, and every address a struct has is live; `Calling`: what a call has in
C's hands is its own or its arguments'.

Only model-checked: liveness (`RequestsReturn`, `ShutdownEnds`, `CallsReturn`), which is out of the prover's reach. Every invariant, action
property and refinement of a passing run has a theorem. Those of `ServiceProofs`
are about runs without faults, as the run `manager` is; of the others only
`BestAnswers` has a hypothesis that is not an assumption of its module.

## 5. Not modelled, and why

- Power failure: neither Flush nor `writeFileAtomic` calls fsync. The model
  lets the process die, not the operating system. So what the comment at
  `collection.go:598-599` says of Flush ("Ensures durability of recent
  inserts/updates") is checked against the death of the process only.
- Two handles on one path in one program (`Open` called twice): nothing in the
  client prevents it; within the service `OneLiveHandle` shows it cannot happen.
- The sharing of `*Document` and `*CollectionSchema` pointers: a caller keeps
  what it has inserted and gets what the collection holds, and both read and
  write them without the lock.
- The options of CreateAndOpen and Open (`schema.go:248-286`): they are stored and
  restored, and no operation acts on them.
- What happens to the collections of a `New` that fails on its users
  (`server.go:54-56` returns without closing them): the process then ends, or the
  program has an open manager it cannot reach, which writes nothing.
- Goroutines that share objects of the binding: `Cgo` has one goroutine calling it,
  with the garbage collector beside it. The binding has no locks and says nothing
  of concurrent use.
- Invalid schemas given to `zvec.CreateAndOpen`, which does not check them (the
  service's Create does): the schemas of `Collection`'s clients are valid ones.
- Upsert requests of several documents in `Manager`; how a batch fails half way is
  in `Collection`.
- A temp file a crash leaves behind: no code reads it (`loadDocs` skips names
  that do not end in `.json`).
- Rounding and underflow of the scores, output fields and re-rankers, JSON and HTTP syntax, logging, flags, the web
  console, what the C library behind `cgo/` does with its objects.

## 6. Findings

- `column_retry`: after an Upsert that failed to write, the document in memory no
  longer has the column and its file still does. DropColumn skips documents
  without the column in memory, succeeds, and the value is back after a
  restart, which the comment at `collection.go:750-751` excludes. AlterColumn
  skips in the same way, those its own failed first attempt has moved included,
  against `collection.go:787-789`.
- `recreate`: CreateAndOpen over an earlier collection's directory opens a
  collection whose Get finds the earlier documents and whose listings do not;
  `zvec.go:124` says it creates a new collection.
- `zombie`: Destroy closes the collection before it removes the directory; when
  that fails Drop leaves the closed collection registered, while
  `manager.go:119` promises that Get returns an open one.
- `reads_overflow`: `cosineSimilarity` multiplies in float32. A large vector
  scores NaN, which nothing outranks and which outranks nothing; the insertion
  sort stops at it, so better documents stay behind it and the cut may drop
  them, against `collection.go:547-548` and `collection.go:1026`.
- `cgo_finalizer`: a method of the binding reads the native address and calls C;
  if that was the last use of the struct its finalizer may destroy the object
  under the call, while `collection_cgo.go:304-305` says a document may be left to
  its finalizer.

Seen on the way, part of the models and no run of their own:

- `loadDocs` passes over a file it cannot read, without an error, and Open
  succeeds: listings, counts and searches then lack an acknowledged document that
  Get finds, while `collection.go:436-437` says they "reflect persisted data".
  `ReadsAgree` says by which documents they differ (`unread`).
- In the service, a write that fails (`collection.go:885`) is answered 500 and leaves
  the document in memory: the collection serves it until the next start, which
  does not find it. So nothing is claimed of what is served; `AnsweredIsStored` is
  about what was answered with success.
- A username that holds a colon, wherever it is, starts a service and can never
  log in, so a file with such users only starts one nobody can use, which
  `config.go:61-63` means to exclude.
- A time-out of more than 2^63 nanoseconds overflows (`config.go:120-133`), some
  of them into negative ones that strike at once.
- The tail of a configuration file (section 2, Startup).

## 7. Plan

Done: all modules of section 2. What would come next:

1. A page cache between the directory and the platter: what a power failure
   leaves, which files Flush would have to sync.
2. Two handles of one program on one path, as a second instance of
   `Collection`'s memory over one directory.
3. The pointers a handler encodes outside the lock, with the fields of a
   document as shared state.
4. `Manager` over `Collection` in place of one step per call: requests that fail
   half way through a batch, as seen by other requests.
5. `Search`'s sort for more than 20 results as the code of `sort.SliceStable` has
   it, with ties in the order they came in.
