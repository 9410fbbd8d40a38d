---------------------------- MODULE ColumnProofs ----------------------------
(* Theorems about the columns of a Collection: what a successful DropColumn *)
(* or AlterColumn has done to every file, whatever failed before it, and    *)
(* that no step of a rename loses a value.                                  *)
EXTENDS CollectionProofs

-----------------------------------------------------------------------------
\* The operation takes a column away from every document that holds it.
Removing == pc = "drop" \/ (pc = "alter" /\ arg.new \notin {arg.col, NoName})

\* Memory holds the column in no document the loop has passed, or skipped.
Passed == Removing => \A id \in Ids \ scan : docs[id] # None => docs[id][arg.col] = None

\* A column operation begins with the documents that hold the column ahead of
\* it, and its loop takes the column away from each it passes; other actions
\* end the operation or leave memory and the loop alone.
LEMMA PassedStep ==
    ASSUME TypeOK, Control, Passed, Next PROVE Passed'
<1> USE ValuesAssumption
<1>1. ASSUME NEW n \in Names, DropColumn(n)
      PROVE  Passed'
  <2>1. docs' = docs /\ scan' = Holding(n) /\ arg'.col = n
    BY <1>1 DEF DropColumn
  <2> QED  BY <2>1 DEF Passed, Holding
<1>2. ASSUME NEW n \in Names, NEW new \in Names \union {NoName}, AlterColumn(n, new)
      PROVE  Passed'
  <2>1. docs' = docs /\ arg' = [col |-> n, new |-> new] /\ pc' = "alter"
        /\ (new # NoName => scan' = Holding(n))
    BY <1>2 DEF AlterColumn, memory
  <2> QED  BY <2>1 DEF Passed, Removing, Holding
<1>3. ASSUME NEW id \in Ids, DropNext(id)
      PROVE  Passed'
  <2>1. arg' = arg /\ scan' = scan \ {id} /\ docs[id] \in Doc /\ arg.col \in Names
    BY <1>3 DEF DropNext, Running, Control, TypeOK
  <2>2. docs'[id][arg.col] = None /\ \A i \in Ids \ {id} : docs'[i] = docs[i]
    BY <1>3, <2>1 DEF DropNext, TypeOK, Doc
  <2>3. Removing
    BY <1>3 DEF DropNext, Running, Removing
  <2> QED  BY <2>1, <2>2, <2>3 DEF Passed
<1>4. ASSUME NEW id \in Ids, AlterNext(id)
      PROVE  Passed'
  <2>1. /\ pc = "alter" /\ UNCHANGED <<pc, arg>> /\ scan' = scan \ {id}
        /\ docs[id] \in Doc /\ arg.col \in Names
    BY <1>4 DEF AlterNext, Running, Control, TypeOK
  <2>2. \A i \in Ids \ {id} : docs'[i] = docs[i]
    BY <1>4 DEF AlterNext, TypeOK
  <2>3. docs'[id] = Moved(docs[id])
    BY <1>4 DEF AlterNext, TypeOK
  <2>4. arg.new # arg.col => Moved(docs[id])[arg.col] = None
    BY <2>1 DEF Moved, Doc
  <2> QED  BY <2>1, <2>2, <2>3, <2>4 DEF Passed, Removing
<1>5. CASE RenameTemp
  BY <1>5 DEF RenameTemp, Return, Passed, Removing, memory
<1>6. ASSUME CreateTemp \/ WriteTemp \/ DropSchema \/ AlterSchema
      PROVE  Passed'
  BY <1>6 DEF CreateTemp, WriteTemp, DropSchema, AlterSchema, Passed, Removing, memory
<1>7. ASSUME \/ FailWrite \/ PutDone \/ RemoveFile \/ FlushDone \/ CreateDone \/ FailCreate
             \/ (\E t \in Targets : PurgeFile(t)) \/ PurgeDone \/ Crash
             \/ (\E id \in Ids : FlushNext(id) \/ Delete(id)) \/ PutNext \/ Flush
             \/ (\E n \in Names : AddColumn(n)) \/ (\E s \in Schemas : CreateAndOpen(s))
             \/ Open \/ Close \/ Destroy
             \/ (\E op \in Ops, b \in Batches : StartPut(op, b))
      PROVE  ~Removing'
  BY <1>7 DEF FailWrite, PutDone, RemoveFile, FlushDone, CreateDone, FailCreate, PurgeFile,
     PurgeDone, Crash, FlushNext, Delete, PutNext, Flush, AddColumn, CreateAndOpen, Open,
     Close, Destroy, StartPut, Running, Enter, Return, Removing
<1>8. ASSUME Insert \/ InsertBatch \/ Update \/ Upsert \/ UpsertBatch
      PROVE  ~Removing'
  BY <1>8 DEF Insert, InsertBatch, Update, Upsert, UpsertBatch, StartPut, Removing
<1> QED
  BY <1>1, <1>2, <1>3, <1>4, <1>5, <1>6, <1>7, <1>8 DEF Next, Begin, Progress, Passed

\* At every moment of a column operation memory is scrubbed behind its loop.
THEOREM LoopScrubsMemory == Spec => []Passed
<1>1. Init => Passed
  BY DEF Init, Passed, Removing
<1>2. IndInv /\ Passed /\ [Next]_vars => Passed'
  <2>1. Passed /\ UNCHANGED vars => Passed'
    BY DEF vars, Passed, Removing
  <2> QED  BY <2>1, PassedStep DEF IndInv
<1> QED  BY <1>1, <1>2, Inductive, PTL DEF Spec

-----------------------------------------------------------------------------
(* What a success has done on disk.                                        *)

\* When a column operation has renamed collection.json into place, no file of a
\* document it rewrote, or that memory and disk agreed on, holds the column.
LEMMA SuccessScrubs ==
    ASSUME IndInv, Passed, Removing, RenameTemp, cur = Meta
    PROVE  Scrubbed(InStep)
<1> USE ValuesAssumption DEF IndInv, Targets
<1>1. handle = "open" /\ batch = <<>> /\ scan = {}
  BY DEF Removing, Control, OpPcs
<1>2. files' = [files EXCEPT ![Meta] = schema]
  BY DEF RenameTemp, Body
<1>3. SUFFICES ASSUME NEW id \in InStep, Recovered(id)' # None
               PROVE  Recovered(id)'[arg.col] = None
  BY DEF Scrubbed
<1>4. id \in Ids
  BY DEF InStep, TypeOK
<1>5. Recovered(id)' = Recovered(id)
  BY <1>2, <1>4 DEF Recovered, TypeOK
<1>6. Recovered(id) = docs[id]
  <2>1. CASE id \in owed
    BY <1>1, <1>3, <1>4, <1>5, <2>1 DEF Written, IdsOf, Recovered
  <2>2. CASE id \notin unread /\ Settled(id)
    BY <1>1, <1>4, <2>2 DEF Held, DurableAcks, Settled, Body
  <2> QED  BY <2>1, <2>2 DEF InStep
<1> QED  BY <1>1, <1>3, <1>4, <1>5, <1>6 DEF Passed

\* A DropColumn that returns success has scrubbed every file but those an
\* earlier failure left out of step with memory and it did not rewrite.
THEOREM DropScrubs == Spec => DropScrubsDisk
<1>1. IndInv /\ Passed /\ DropSucceeds => Scrubbed(InStep)
  BY SuccessScrubs DEF DropSucceeds, Removing
<1> QED  BY <1>1, Inductive, LoopScrubsMemory, PTL DEF DropScrubsDisk

\* The same of an AlterColumn that renames, and the old name.
THEOREM RenameMoves == Spec => RenameMovesDisk
<1>1. IndInv /\ Passed /\ RenameSucceeds => Scrubbed(InStep)
  BY SuccessScrubs DEF RenameSucceeds, Removing
<1> QED  BY <1>1, Inductive, LoopScrubsMemory, PTL DEF RenameMovesDisk

-----------------------------------------------------------------------------
(* A rename loses no value.                                                *)

\* The only step of a rename that changes a document's file is the rename of
\* its temp file, and it writes what memory holds: d or d renamed.
LEMMA RenameStepKeeps ==
    ASSUME IndInv, Next, pc = "alter", arg.new # NoName, NEW id \in Ids
    PROVE  KeepsValue(id)
<1> USE ValuesAssumption DEF IndInv, Targets
<1>1. files' = files \/ (RenameTemp /\ cur \in Targets /\ files' = [files EXCEPT ![cur] = Body(cur)])
  BY DEF Next, Begin, Progress, Insert, InsertBatch, Update, Upsert, UpsertBatch, StartPut, Enter,
     Delete, Flush, AddColumn, DropColumn, AlterColumn, CreateAndOpen, Open, Close, Destroy,
     CreateTemp, WriteTemp, RenameTemp, FailWrite, PutNext, PutDone, RemoveFile, FlushNext, DropNext,
     AlterNext, FlushDone, DropSchema, AlterSchema, CreateDone, FailCreate, PurgeFile, PurgeDone,
     Crash, Running, TypeOK, Control
<1>2. CASE files'[id] = files[id]
  BY <1>2 DEF KeepsValue, Recovered
<1>3. CASE RenameTemp /\ cur = id /\ files'[id] = docs[id]
  <2> DEFINE d == Recovered(id)
  <2>1. SUFFICES ASSUME d # None, d[arg.col] # None, promise[id] \subseteq {d, Moved(d)}
                 PROVE  Recovered(id)' # None /\ d[arg.col] \in {Recovered(id)'[arg.col], Recovered(id)'[arg.new]}
    BY DEF KeepsValue
  <2>2. d \in Doc /\ arg.col \in Names /\ arg.new \in Names
    BY <2>1 DEF Recovered, TypeOK, Control
  <2>3. Moved(d) \in [Names -> Vals \union {None}] /\ Moved(d)[arg.new] = d[arg.col]
    BY <2>2 DEF Moved, Doc
  <2>4. docs[id] \in {d, Moved(d)}
    BY <1>3, <2>1 DEF Held, Control, OpPcs, Body
  <2>5. docs[id] # None /\ docs[id] # Torn
    BY <2>2, <2>3, <2>4 DEF Doc
  <2>6. Recovered(id)' = docs[id]
    BY <1>3, <2>5 DEF Recovered
  <2> QED  BY <2>3, <2>4, <2>5, <2>6
<1> QED  BY <1>1, <1>2, <1>3 DEF TypeOK, Body

\* Through every step of a rename, failed and repeated ones included, a
\* restart finds the value under the old name or under the new one.
THEOREM RenameKeeps == Spec => RenameKeepsValue
<1>1. IndInv /\ [Next]_vars =>
        [pc = "alter" /\ arg.new # NoName => \A id \in Ids : KeepsValue(id)]_vars
  BY RenameStepKeeps
<1> QED  BY <1>1, Inductive, PTL DEF Spec, RenameKeepsValue

=============================================================================
