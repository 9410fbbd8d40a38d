----------------------------- MODULE Collection -----------------------------
(***************************************************************************)
(* One collection of the pure-Go client (collection.go, zvec.go): the      *)
(* handle a process holds on it, the in-memory document map and schema,    *)
(* and the directory <path>/collection.json + <path>/docs/<id>.json.       *)
(*                                                                         *)
(* Every operation runs under the write lock c.mu, so operations of one    *)
(* handle never interleave with each other; what does happen in the middle *)
(* of one is a failing system call or the death of the process.  An        *)
(* operation is therefore a sequence of actions, one per change of memory  *)
(* and one per system call that changes the disk.                          *)
(***************************************************************************)
EXTENDS Naturals, Sequences, FiniteSets

CONSTANTS
    Ids,          \* document IDs accepted by ValidateDocID
    BadId,        \* stands for every ID that ValidateDocID rejects, and nil documents
    Names,        \* field names
    VectorNames,  \* the names of the schema's vector fields, which no DDL changes
    Vals,         \* values of scalar fields
    None,         \* absence: no document, no file, no value for a field
    Torn,         \* a file whose JSON does not parse
    Meta,         \* the file collection.json
    NoName,       \* the empty string as a column name
    Ops,          \* the operations the client issues
    Faults,       \* the system calls that may fail
    Batches,      \* the batches the client submits
    Schemas       \* the schemas the client creates collections with

-----------------------------------------------------------------------------
Targets == Ids \union {Meta}

Doc == [Names -> Vals \union {None}]

Item == [id : Ids \union {BadId}, doc : Doc]

\* CollectionSchema.Fields as the bag of the scalar field names it declares.
Schema == [Names -> Nat]

\* What CollectionSchema.Validate asks of the names: no name twice.
DistinctNames(s) ==
    \A n \in Names : s[n] <= (IF n \in VectorNames THEN 0 ELSE 1)

OpNames == {"Insert", "InsertBatch", "Update", "Upsert", "UpsertBatch", "Delete",
            "Flush", "AddColumn", "DropColumn", "AlterColumn", "Close",
            "Destroy", "CreateAndOpen", "Recreate", "Crash"}

FaultNames == {"write", "remove", "removeAll", "create", "read"}

ASSUME ValuesAssumption ==
    /\ BadId \notin Ids /\ Meta \notin Ids /\ NoName \notin Names
    /\ None \notin Vals \union Ids \union {Meta} /\ Torn # None
    /\ \A x \in {None, Torn} : x \notin Doc /\ x \notin Schema

ASSUME WorkloadAssumption ==
    /\ VectorNames \subseteq Names /\ Ops \subseteq OpNames /\ Faults \subseteq FaultNames
    /\ Batches \subseteq Seq(Item)
    /\ Schemas \subseteq Schema /\ \A s \in Schemas : DistinctNames(s)

-----------------------------------------------------------------------------
VARIABLES
    handle,   \* "none": not opened by this process; "open"; "closed": c.closed
    docs,     \* c.docs
    schema,   \* c.schema
    unread,   \* the documents whose files Open could not read, and memory lacks since
    files,    \* the directory: what each file holds
    pc,       \* the operation in progress, "idle" when c.mu is free
    batch,    \* the documents the batch loop has still to write
    scan,     \* the documents the range over c.docs has still to visit
    arg,      \* the column names given to the DDL operation in progress
    cur,      \* the path of the file-system call in progress
    tmp,      \* the temp file of writeFileAtomic: "none", "torn", "full"
    owed,     \* the documents a success of the operation in progress vouches for
    promise   \* per file, the contents the replies so far allow a restart to find

memory == <<handle, docs, schema, unread>>
locals == <<batch, scan, arg, cur, tmp, owed>>
vars == <<handle, docs, schema, unread, files, pc, batch, scan, arg, cur, tmp, owed, promise>>

IdsOf(b) == {b[i].id : i \in DOMAIN b}

NoDocs == [id \in Ids |-> None]
NoColumn == [col |-> NoName, new |-> NoName]

\* What the process holds in memory for a file.
Body(t) == IF t = Meta THEN schema ELSE docs[t]

\* What reading a file back yields: loadDocs and readDocument treat a file that
\* does not parse as no document, and Open refuses such a collection.json.
Recovered(t) == IF files[t] = Torn THEN None ELSE files[t]

\* Every reply about t so far left one possible content.
Settled(t) == \E c \in promise[t] : promise[t] = {c}

TypeOK ==
    /\ handle \in {"none", "open", "closed"}
    /\ docs \in [Ids -> Doc \union {None}]
    /\ schema \in Schema
    /\ unread \in SUBSET Ids
    /\ files \in [Targets -> Doc \union Schema \union {None, Torn}]
    /\ \A id \in Ids : files[id] \in Doc \union {None, Torn}
    /\ files[Meta] \in Schema \union {None, Torn}
    /\ pc \in {"idle", "put", "remove", "flush", "add", "drop", "alter", "purge", "create"}
    /\ batch \in Seq(Item)
    /\ scan \in SUBSET Ids
    /\ arg \in [col : Names \union {NoName}, new : Names \union {NoName}]
    /\ cur \in Targets \union {None}
    /\ tmp \in {"none", "torn", "full"}
    /\ owed \in SUBSET Ids
    /\ promise \in [Targets -> SUBSET (Doc \union Schema \union {None})]

Init ==
    /\ handle = "none"
    /\ docs = NoDocs
    /\ schema = [n \in Names |-> 0]
    /\ unread = {}
    /\ files = [t \in Targets |-> None]
    /\ pc = "idle"
    /\ batch = <<>> /\ scan = {} /\ arg = NoColumn
    /\ cur = None /\ tmp = "none" /\ owed = {}
    /\ promise = [t \in Targets |-> {None}]

-----------------------------------------------------------------------------
(* How operations start and return.                                        *)

\* The guard every operation begins with: it has the lock and c.closed is false.
Enter(op) == op \in Ops /\ pc = "idle" /\ handle = "open"

\* The operation is under way and no file-system call is in progress.
Running(op) == pc = op /\ cur = None

\* Memory now holds c for t: until the operation replies, either may be found.
Widen(t, c) == [promise EXCEPT ![t] = @ \union {c}]

\* The operation returns; `acks` are the files its reply vouches for.
Return(acks) ==
    /\ pc' = "idle"
    /\ batch' = <<>> /\ scan' = {} /\ arg' = NoColumn
    /\ cur' = None /\ tmp' = "none" /\ owed' = {}
    /\ promise' = [t \in Targets |-> IF t \in acks THEN {Body(t)} ELSE promise[t]]

-----------------------------------------------------------------------------
(* writeFileAtomic: a temp file beside the target, renamed over it.        *)

\* Mutant: os.WriteFile on the target itself.
WriteInPlace ==
    /\ cur # None /\ pc # "remove" /\ tmp = "none"
    /\ tmp' = "torn"
    /\ files' = [files EXCEPT ![cur] = Torn]
    /\ UNCHANGED <<memory, pc, batch, scan, arg, cur, owed, promise>>

CreateTemp ==
    /\ cur # None /\ pc # "remove" /\ tmp = "none"
    /\ tmp' = "torn"
    /\ UNCHANGED <<memory, files, pc, batch, scan, arg, cur, owed, promise>>

WriteTemp ==
    /\ tmp = "torn"
    /\ tmp' = "full"
    /\ UNCHANGED <<memory, files, pc, batch, scan, arg, cur, owed, promise>>

\* The rename publishes the file.  Only the schema is written last by its
\* operation, so only its rename makes the operation return.
RenameTemp ==
    /\ tmp = "full"
    /\ files' = [files EXCEPT ![cur] = Body(cur)]
    /\ \/ /\ cur = Meta
          /\ Return(owed \union {Meta})
       \/ /\ cur # Meta
          /\ batch' = IF pc = "put" THEN Tail(batch) ELSE batch
          /\ cur' = None /\ tmp' = "none"
          /\ UNCHANGED <<pc, scan, arg, owed, promise>>
    /\ UNCHANGED memory

\* Marshalling, creating, writing or renaming fails: the deferred Remove drops
\* the temp file and the operation returns the error.  The batch operations
\* return the number of documents already written with it; the others vouch
\* for nothing.
FailWrite ==
    /\ "write" \in Faults
    /\ cur # None /\ pc # "remove"
    /\ Return(IF pc = "put" THEN owed \ IdsOf(batch) ELSE {})
    /\ UNCHANGED <<memory, files>>

-----------------------------------------------------------------------------
(* Documents.                                                              *)

\* The loop of InsertBatch and UpsertBatch; Insert, Update and Upsert are its
\* one-document case (a document they refuse never enters the loop).
StartPut(op, b) ==
    /\ Enter(op)
    /\ pc' = "put" /\ batch' = b
    /\ owed' = IdsOf(b) \intersect Ids
    /\ UNCHANGED <<memory, files, scan, arg, cur, tmp, promise>>

Insert == \E b \in Batches : Len(b) = 1 /\ StartPut("Insert", b)
InsertBatch == \E b \in Batches : StartPut("InsertBatch", b)
Update == \E b \in Batches : Len(b) = 1 /\ StartPut("Update", b)
Upsert == \E b \in Batches : Len(b) = 1 /\ StartPut("Upsert", b)
UpsertBatch == \E b \in Batches : StartPut("UpsertBatch", b)

\* c.docs[doc.ID] = doc, before the document is written to disk.
PutNext ==
    /\ Running("put") /\ batch # <<>>
    /\ Head(batch).id \in Ids
    /\ docs' = [docs EXCEPT ![Head(batch).id] = Head(batch).doc]
    /\ unread' = unread \ {Head(batch).id}
    /\ cur' = Head(batch).id
    /\ promise' = Widen(cur', Head(batch).doc)
    /\ UNCHANGED <<handle, schema, files, pc, batch, scan, arg, tmp, owed>>

\* The loop ends, or meets a document it refuses.
PutDone ==
    /\ Running("put") /\ (batch # <<>> => Head(batch).id = BadId)
    /\ Return(owed \ IdsOf(batch))
    /\ UNCHANGED <<memory, files>>

\* Delete forgets the document before it removes the file; an ID that is
\* neither in memory nor on disk is refused.
Delete(id) ==
    /\ Enter("Delete")
    /\ docs[id] # None \/ files[id] # None
    /\ docs' = [docs EXCEPT ![id] = None]
    /\ unread' = unread \ {id}
    /\ pc' = "remove" /\ cur' = id
    /\ promise' = Widen(id, None)
    /\ UNCHANGED <<handle, schema, files, batch, scan, arg, tmp, owed>>

\* Mutant: the error of os.Remove is dropped.
RemoveFileIgnoringErrors ==
    /\ pc = "remove"
    /\ \/ files' = [files EXCEPT ![cur] = None]
       \/ "remove" \in Faults /\ UNCHANGED files
    /\ Return({cur})
    /\ UNCHANGED memory

\* os.Remove: a missing file is an error, and any other error leaves the file.
RemoveFile ==
    /\ pc = "remove"
    /\ \/ /\ files[cur] # None
          /\ files' = [files EXCEPT ![cur] = None]
          /\ Return({cur})
       \/ /\ files[cur] = None \/ "remove" \in Faults
          /\ UNCHANGED files
          /\ Return({})
    /\ UNCHANGED memory

Flush ==
    /\ Enter("Flush")
    /\ pc' = "flush"
    /\ scan' = {id \in Ids : docs[id] # None} /\ owed' = scan'
    /\ UNCHANGED <<memory, files, batch, arg, cur, tmp, promise>>

\* Map iteration visits the documents in no particular order.
FlushNext(id) ==
    /\ Running("flush") /\ id \in scan
    /\ cur' = id /\ scan' = scan \ {id}
    /\ UNCHANGED <<memory, files, pc, batch, arg, tmp, owed, promise>>

FlushDone ==
    /\ Running("flush") /\ scan = {}
    /\ Return(owed)
    /\ UNCHANGED <<memory, files>>

-----------------------------------------------------------------------------
(* Columns.                                                                *)

\* A name the duplicate checks of AddColumn and AlterColumn accept.
FreshName(n) == n \in Names /\ schema[n] = 0 /\ n \notin VectorNames

Holding(n) == {id \in Ids : docs[id] # None /\ docs[id][n] # None}

AddColumn(n) ==
    /\ Enter("AddColumn")
    /\ FreshName(n)
    /\ schema' = [schema EXCEPT ![n] = @ + 1]
    /\ pc' = "add" /\ cur' = Meta
    /\ promise' = Widen(Meta, schema')
    /\ UNCHANGED <<handle, docs, unread, files, batch, scan, arg, tmp, owed>>

\* Mutant: no "field not found".
DropUnknownColumn(n) ==
    /\ Enter("DropColumn")
    /\ schema' = [schema EXCEPT ![n] = @ - 1]
    /\ pc' = "drop" /\ arg' = [col |-> n, new |-> NoName]
    /\ scan' = Holding(n) /\ owed' = Holding(n)
    /\ promise' = Widen(Meta, schema')
    /\ UNCHANGED <<handle, docs, unread, files, batch, cur, tmp>>

\* The column leaves the schema in memory first.
DropColumn(n) ==
    /\ Enter("DropColumn")
    /\ schema[n] > 0
    /\ schema' = [schema EXCEPT ![n] = @ - 1]
    /\ pc' = "drop" /\ arg' = [col |-> n, new |-> NoName]
    /\ scan' = Holding(n) /\ owed' = Holding(n)
    /\ promise' = Widen(Meta, schema')
    /\ UNCHANGED <<handle, docs, unread, files, batch, cur, tmp>>

\* Mutant: the scrubbed document is not written back.
DropInMemory(id) ==
    /\ Running("drop") /\ id \in scan
    /\ docs' = [docs EXCEPT ![id] = [docs[id] EXCEPT ![arg.col] = None]]
    /\ scan' = scan \ {id}
    /\ promise' = Widen(id, docs'[id])
    /\ UNCHANGED <<handle, schema, unread, files, pc, batch, arg, cur, tmp, owed>>

DropNext(id) ==
    /\ Running("drop") /\ id \in scan
    /\ docs' = [docs EXCEPT ![id] = [docs[id] EXCEPT ![arg.col] = None]]
    /\ cur' = id /\ scan' = scan \ {id}
    /\ promise' = Widen(id, docs'[id])
    /\ UNCHANGED <<handle, schema, unread, files, pc, batch, arg, tmp, owed>>

DropSchema ==
    /\ Running("drop") /\ scan = {}
    /\ cur' = Meta
    /\ UNCHANGED <<memory, files, pc, batch, scan, arg, tmp, owed, promise>>

\* Mutant: no "field already exists".
AlterOntoColumn(n, new) ==
    /\ Enter("AlterColumn")
    /\ schema[n] > 0
    /\ pc' = "alter" /\ arg' = [col |-> n, new |-> new]
    /\ scan' = (IF new = NoName THEN {} ELSE Holding(n)) /\ owed' = scan'
    /\ UNCHANGED <<memory, files, batch, cur, tmp, promise>>

\* An empty new name changes the declared type only, which the model leaves out.
AlterColumn(n, new) ==
    /\ Enter("AlterColumn")
    /\ new \in {n, NoName} \/ FreshName(new)
    /\ schema[n] > 0
    /\ pc' = "alter" /\ arg' = [col |-> n, new |-> new]
    /\ scan' = (IF new = NoName THEN {} ELSE Holding(n)) /\ owed' = scan'
    /\ UNCHANGED <<memory, files, batch, cur, tmp, promise>>

\* Mutants: the value is copied and not removed; it is removed and not copied.
Copied(d) == [d EXCEPT ![arg.new] = d[arg.col]]
Removed(d) == [d EXCEPT ![arg.col] = None]

Moved(d) == [d EXCEPT ![arg.col] = None, ![arg.new] = d[arg.col]]

AlterNext(id) ==
    /\ Running("alter") /\ id \in scan
    /\ docs' = [docs EXCEPT ![id] = Moved(docs[id])]
    /\ cur' = id /\ scan' = scan \ {id}
    /\ promise' = Widen(id, docs'[id])
    /\ UNCHANGED <<handle, schema, unread, files, pc, batch, arg, tmp, owed>>

\* The schema is renamed in memory once every document has been rewritten.
AlterSchema ==
    /\ Running("alter") /\ scan = {}
    /\ schema' = IF arg.new = NoName THEN schema
                 ELSE [schema EXCEPT ![arg.col] = @ - 1, ![arg.new] = @ + 1]
    /\ cur' = Meta
    /\ promise' = Widen(Meta, schema')
    /\ UNCHANGED <<handle, docs, unread, files, pc, batch, scan, arg, tmp, owed>>

-----------------------------------------------------------------------------
(* The life of the handle and of the directory.                            *)

\* CreateAndOpen neither looks at what the directory holds nor at the options
\* ("Recreate" stands for the clients that do not look either): os.WriteFile
\* truncates collection.json, then fills it.
CreateAndOpen(s) ==
    /\ "CreateAndOpen" \in Ops /\ pc = "idle" /\ handle # "open"
    /\ "Recreate" \in Ops \/ \A t \in Targets : Recovered(t) = None
    /\ handle' = "none" /\ docs' = NoDocs /\ schema' = s /\ unread' = {}
    /\ files' = [files EXCEPT ![Meta] = Torn]
    /\ pc' = "create"
    /\ promise' = [promise EXCEPT ![Meta] = @ \union {s, None}]
    /\ UNCHANGED locals

CreateDone ==
    /\ pc = "create"
    /\ handle' = "open"
    /\ files' = [files EXCEPT ![Meta] = schema]
    /\ pc' = "idle"
    /\ promise' = [t \in Targets |-> IF t = Meta THEN {schema} ELSE promise[t] \union {None}]
    /\ UNCHANGED <<docs, schema, unread, locals>>

FailCreate ==
    /\ "create" \in Faults /\ pc = "create"
    /\ pc' = "idle"
    /\ UNCHANGED <<memory, files, locals, promise>>

\* Mutant: Open does not load the documents.
OpenEmpty ==
    /\ pc = "idle" /\ handle # "open"
    /\ Recovered(Meta) # None
    /\ handle' = "open"
    /\ docs' = NoDocs /\ unread' = {}
    /\ schema' = files[Meta]
    /\ promise' = [t \in Targets |-> {Recovered(t)}]
    /\ UNCHANGED <<files, pc, locals>>

\* loadDocs: every document that parses, each under the ID it was written
\* with; a file that cannot be read is passed over without an error.
Loaded(skipped) == [id \in Ids |-> IF id \in skipped THEN None ELSE Recovered(id)]

\* Open reads collection.json and loads the documents; what the directory holds
\* is what the collection is from then on.  (An Open that cannot read
\* collection.json, or list the directory, is refused and changes nothing.)
Open ==
    /\ pc = "idle" /\ handle # "open"
    /\ Recovered(Meta) # None
    /\ handle' = "open"
    /\ unread' \in SUBSET {id \in Ids : Recovered(id) # None}
    /\ unread' # {} => "read" \in Faults
    /\ docs' = Loaded(unread')
    /\ schema' = files[Meta]
    /\ promise' = [t \in Targets |-> {Recovered(t)}]
    /\ UNCHANGED <<files, pc, locals>>

Close ==
    /\ Enter("Close")
    /\ handle' = "closed"
    /\ UNCHANGED <<docs, schema, unread, files, pc, locals, promise>>

\* Destroy also accepts a closed handle.  os.RemoveAll unlinks the files one
\* at a time, in the order the directory lists them.
Destroy ==
    /\ "Destroy" \in Ops /\ pc = "idle" /\ handle # "none"
    /\ handle' = "closed" /\ pc' = "purge"
    /\ promise' = [t \in Targets |-> promise[t] \union {None}]
    /\ UNCHANGED <<docs, schema, unread, files, locals>>

PurgeFile(t) ==
    /\ pc = "purge" /\ files[t] # None
    /\ files' = [files EXCEPT ![t] = None]
    /\ UNCHANGED <<memory, pc, locals, promise>>

PurgeDone ==
    /\ pc = "purge"
    /\ \/ /\ \A t \in Targets : files[t] = None
          /\ promise' = [t \in Targets |-> {None}]
       \/ /\ "removeAll" \in Faults /\ \E t \in Targets : files[t] # None
          /\ UNCHANGED promise
    /\ pc' = "idle"
    /\ UNCHANGED <<memory, files, locals>>

\* The process dies; its memory and the call in progress are gone.  (A temp
\* file may stay behind; no later call reads one, loadDocs skips its name.)
Crash ==
    /\ "Crash" \in Ops /\ (handle # "none" \/ pc # "idle")
    /\ handle' = "none" /\ docs' = NoDocs /\ schema' = [n \in Names |-> 0] /\ unread' = {}
    /\ pc' = "idle"
    /\ batch' = <<>> /\ scan' = {} /\ arg' = NoColumn
    /\ cur' = None /\ tmp' = "none" /\ owed' = {}
    /\ UNCHANGED <<files, promise>>

-----------------------------------------------------------------------------
\* The steps that carry an operation already begun to its return.
Progress ==
    \/ CreateTemp \/ WriteTemp \/ RenameTemp \/ FailWrite
    \/ PutNext \/ PutDone \/ RemoveFile
    \/ (\E id \in Ids : FlushNext(id) \/ DropNext(id) \/ AlterNext(id))
    \/ FlushDone \/ DropSchema \/ AlterSchema
    \/ CreateDone \/ FailCreate
    \/ (\E t \in Targets : PurgeFile(t)) \/ PurgeDone

Begin ==
    \/ Insert \/ InsertBatch \/ Update \/ Upsert \/ UpsertBatch
    \/ (\E id \in Ids : Delete(id))
    \/ Flush
    \/ (\E n \in Names : AddColumn(n) \/ DropColumn(n))
    \/ (\E n \in Names, new \in Names \union {NoName} : AlterColumn(n, new))
    \/ (\E s \in Schemas : CreateAndOpen(s))
    \/ Open \/ Close \/ Destroy

Next == Begin \/ Progress \/ Crash

Spec == Init /\ [][Next]_vars

-----------------------------------------------------------------------------
(* What the read operations answer; they run under the read lock, hence    *)
(* only between operations.                                                *)

\* Get and Fetch: the map first, then the file.
Get(id) == IF docs[id] # None THEN docs[id] ELSE Recovered(id)

\* ListDocs, Count, Search and Query: the map only.
Listed == {id \in Ids : docs[id] # None}

-----------------------------------------------------------------------------
(* Properties.                                                             *)

\* What a restart would read back is always something the replies allow: the
\* content of the last operation that returned success on that file or, while
\* an operation is under way or after one that failed, of one of those since.
\* The write order of every mutation, the temp file and rename of
\* writeFileAtomic and the load of Open stand behind it, whatever fails and
\* wherever the process dies.
DurableAcks == \A t \in Targets : Recovered(t) \in promise[t]

\* Get/Fetch and ListDocs/Count/Query, which look in different places, agree
\* with each other and with what a restart would load, on every document whose
\* last operation returned success; but for those whose files Open could not
\* read, which the listings lack and Get finds, until they are written again.
ReadsAgree ==
    handle = "open" /\ pc = "idle" =>
        \A id \in Ids : Settled(id) =>
            /\ Get(id) = Recovered(id)
            /\ id \in Listed <=> Get(id) # None /\ id \notin unread

\* AddColumn and AlterColumn never give a schema, in memory or on disk, two
\* fields of one name, the rule of CollectionSchema.Validate, also when an
\* earlier attempt failed or the process died in the middle of one.
SchemaNamesDistinct ==
    /\ DistinctNames(schema)
    /\ Recovered(Meta) # None => DistinctNames(files[Meta])

\* DropColumn, or AlterColumn with a new name, returns success.
DropSucceeds == RenameTemp /\ pc = "drop" /\ cur = Meta
RenameSucceeds == RenameTemp /\ pc = "alter" /\ cur = Meta /\ arg.new \notin {arg.col, NoName}

\* No file of a document in S holds a value under the operation's (old) name.
Scrubbed(S) == \A id \in S : Recovered(id)' # None => Recovered(id)'[arg.col] = None

\* The documents the operation rewrites, and those memory and disk agree on.
InStep == owed \union {id \in Ids \ unread : Settled(id)}

\* When DropColumn, or AlterColumn after a rename, returns success, no file
\* holds a value under the (old) name: "from every existing document, so the
\* column (and its data) cannot resurface on restart" (collection.go:750-751,
\* and 787-789 for the rename).
ColumnLeavesDisk == [][DropSucceeds \/ RenameSucceeds => Scrubbed(Ids)]_vars

\* What is left of it when writes may fail: a success reached every
\* document but those an earlier failure left different in memory and on disk
\* and the operation did not rewrite.  The loops, which look at memory only,
\* and the schema written last stand behind it.
DropScrubsDisk == [][DropSucceeds => Scrubbed(InStep)]_vars
RenameMovesDisk == [][RenameSucceeds => Scrubbed(InStep)]_vars

\* The file of id keeps, under the old name or the new one, the value that it
\* holds under the old name and that only the rename has touched in memory.
KeepsValue(id) ==
    LET d == Recovered(id) IN
    d # None /\ d[arg.col] # None /\ promise[id] \subseteq {d, Moved(d)}
    => Recovered(id)' # None /\ d[arg.col] \in {Recovered(id)'[arg.col], Recovered(id)'[arg.new]}

\* A value a document holds on disk under the old name survives every step of
\* a rename, the failed write and the crash in the middle of it included, under
\* the old name or the new one: at no moment would a restart find neither.
\* (Of a document that memory holds another version of, the rename writes that
\* version.)
RenameKeepsValue == [][pc = "alter" /\ arg.new # NoName => \A id \in Ids : KeepsValue(id)]_vars

\* CreateAndOpen "creates a new collection" (zvec.go:124): a collection it has
\* just created holds no documents.
CreateOpensEmpty ==
    [][CreateDone => \A id \in Ids : Get(id)' = None]_vars

\* The directory is a store written one whole file at a time.
Store == INSTANCE WriteBehind WITH
    Keys <- Targets,
    Root <- Meta,
    up <- handle = "open",
    view <- [t \in Targets |-> IF handle = "open" THEN Body(t) ELSE None],
    disk <- [t \in Targets |-> Recovered(t)]

\* Memory reaches the disk one whole file at a time, and only through an open
\* handle: the collection implements the write-behind store, which no partial
\* write, no write after Close or Destroy and no half-made load would.
ImplementsWriteBehind == Store!Spec

=============================================================================
