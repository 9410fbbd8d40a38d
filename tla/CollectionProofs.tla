-------------------------- MODULE CollectionProofs --------------------------
(* Theorems about Collection, for every value of its constants.            *)
EXTENDS Collection, SequenceTheorems, TLAPS

-----------------------------------------------------------------------------
(* The inductive invariant.                                                *)

\* The operations of an open handle; the other two pcs work on the directory.
OpPcs == {"put", "remove", "flush", "add", "drop", "alter"}

\* Between operations, and in Create and Destroy, the locals are at rest.
AtRest == batch = <<>> /\ scan = {} /\ owed = {} /\ cur = None /\ tmp = "none"

\* Which values of the locals go with which operation.
Control ==
    /\ pc \in OpPcs => handle = "open"
    /\ pc \notin OpPcs => AtRest
    /\ tmp # "none" => cur # None /\ pc # "remove"
    /\ pc # "put" => batch = <<>>
    /\ pc = "put" => scan = {} /\ cur # Meta
    /\ pc = "put" /\ cur # None => batch # <<>> /\ Head(batch).id = cur
    /\ pc = "remove" => cur \in Ids /\ docs[cur] = None
    /\ cur = Meta => pc \in {"add", "drop", "alter"} /\ scan = {}
    /\ pc \in {"drop", "alter"} => arg.col \in Names
    /\ pc = "alter" /\ cur # Meta => schema[arg.col] > 0
    /\ \A id \in scan : docs[id] # None
    /\ cur \notin unread /\ \A id \in unread : docs[id] = None

\* Every document the operation will vouch for is either still ahead of it, or
\* being written, or the same in memory and on disk.
Written ==
    \A id \in owed :
        id \in IdsOf(batch) \/ id \in scan \/ id = cur \/ files[id] = docs[id]

\* Memory, too, holds only what the replies allow, but for the documents Open
\* could not read, which no operation writes: this is why writing memory out at
\* any later time is harmless.
Held == handle = "open" => \A t \in Targets \ unread : Body(t) \in promise[t]

\* A directory being made or removed may be found empty.
Emptying ==
    /\ pc = "purge" => handle = "closed" /\ \A t \in Targets : None \in promise[t]
    /\ pc = "create" => /\ handle = "none" /\ docs = NoDocs
                        /\ {None, schema} \subseteq promise[Meta]

IndInv == TypeOK /\ Control /\ Written /\ Held /\ DurableAcks /\ Emptying

-----------------------------------------------------------------------------
\* What the batch loop has still to write is the head and what the tail holds.
LEMMA IdsOfTail ==
    ASSUME NEW b \in Seq(Item), b # <<>>
    PROVE  IdsOf(b) \subseteq IdsOf(Tail(b)) \union {Head(b).id}
<1> SUFFICES ASSUME NEW i \in DOMAIN b, i # 1
             PROVE  b[i].id \in IdsOf(Tail(b))
  BY DEF IdsOf
<1>1. i - 1 \in DOMAIN Tail(b) /\ Tail(b)[i - 1] = b[i]
  OBVIOUS
<1> QED  BY <1>1 DEF IdsOf

-----------------------------------------------------------------------------
(* Every action preserves the invariant.                                   *)

\* A temp file appears beside the target; no file a reader looks at changes.
LEMMA CreateTempStep ==
    ASSUME IndInv, CreateTemp PROVE IndInv'
<1> USE ValuesAssumption, WorkloadAssumption DEF IndInv, CreateTemp, memory, locals, NoDocs, NoColumn, Targets
<1>1. TypeOK'
  BY DEF TypeOK, Control, AtRest, OpPcs, Body, Item, Schema, Doc, Recovered, IdsOf
<1>2. Control'
  BY DEF TypeOK, Control, AtRest, OpPcs, Item, IdsOf
<1>3. Written'
  BY DEF TypeOK, Control, Written, AtRest, OpPcs, Body, IdsOf
<1>4. Held'
  BY DEF TypeOK, Control, Written, Held, AtRest, OpPcs, Body, Recovered, Emptying
<1>5. DurableAcks'
  BY DEF TypeOK, Control, Written, Held, DurableAcks, AtRest, OpPcs, Body, Recovered, Emptying, IdsOf
<1>6. Emptying'
  BY DEF TypeOK, Control, Emptying, Body, OpPcs
<1> QED  BY <1>1, <1>2, <1>3, <1>4, <1>5, <1>6

\* The temp file is complete; no file a reader looks at changes.
LEMMA WriteTempStep ==
    ASSUME IndInv, WriteTemp PROVE IndInv'
<1> USE ValuesAssumption, WorkloadAssumption DEF IndInv, WriteTemp, memory, locals, NoDocs, NoColumn, Targets
<1>1. TypeOK'
  BY DEF TypeOK, Control, AtRest, OpPcs, Body, Item, Schema, Doc, Recovered, IdsOf
<1>2. Control'
  BY DEF TypeOK, Control, AtRest, OpPcs, Item, IdsOf
<1>3. Written'
  BY DEF TypeOK, Control, Written, AtRest, OpPcs, Body, IdsOf
<1>4. Held'
  BY DEF TypeOK, Control, Written, Held, AtRest, OpPcs, Body, Recovered, Emptying
<1>5. DurableAcks'
  BY DEF TypeOK, Control, Written, Held, DurableAcks, AtRest, OpPcs, Body, Recovered, Emptying, IdsOf
<1>6. Emptying'
  BY DEF TypeOK, Control, Emptying, Body, OpPcs
<1> QED  BY <1>1, <1>2, <1>3, <1>4, <1>5, <1>6

\* The rename publishes what memory holds (Held), and when it is the schema's
\* the operation returns: what it vouches for has been written (Written).
LEMMA RenameTempStep ==
    ASSUME IndInv, RenameTemp PROVE IndInv'
<1> USE ValuesAssumption, WorkloadAssumption DEF IndInv, RenameTemp, Return, memory, locals, NoDocs, NoColumn, Targets
<1>1. TypeOK'
  <2>1. cur \in Targets /\ Body(cur) \in Doc \union Schema \union {None}
    BY DEF TypeOK, Control, Body
  <2>2. /\ cur \in Ids => Body(cur) \in Doc \union {None}
        /\ cur = Meta => Body(cur) \in Schema
    BY DEF TypeOK, Body
  <2>3. batch' \in Seq(Item)
    <3>1. pc = "put" => batch # <<>>
      BY DEF Control
    <3>2. batch # <<>> => Tail(batch) \in Seq(Item)
      BY HeadTailProperties DEF TypeOK
    <3>3. CASE cur = Meta
      BY <3>3 DEF TypeOK
    <3>4. CASE cur # Meta /\ pc = "put"
      <4>1. batch' = Tail(batch)
        BY <3>4
      <4> QED  BY <3>1, <3>2, <3>4, <4>1
    <3>5. CASE cur # Meta /\ pc # "put"
      <4>1. batch' = batch
        BY <3>5
      <4> QED  BY <4>1 DEF TypeOK
    <3> QED  BY <3>3, <3>4, <3>5
  <2>4. /\ files' \in [Targets -> Doc \union Schema \union {None, Torn}]
        /\ \A id \in Ids : files'[id] \in Doc \union {None, Torn}
        /\ files'[Meta] \in Schema \union {None, Torn}
    BY <2>1, <2>2 DEF TypeOK
  <2>5. promise' \in [Targets -> SUBSET (Doc \union Schema \union {None})]
    BY DEF TypeOK, Body
  <2> QED  BY <2>3, <2>4, <2>5 DEF TypeOK
<1>2. Control'
  BY DEF TypeOK, Control, AtRest, OpPcs, Item, IdsOf
<1>3. Written'
  <2>1. CASE cur = Meta
    BY <2>1 DEF Written
  <2>2. CASE cur # Meta
    <3>1. IdsOf(batch) \subseteq IdsOf(batch') \union {cur}
      BY <2>2, IdsOfTail DEF TypeOK, Control
    <3> QED  BY <2>2, <3>1 DEF TypeOK, Control, Written, Body
  <2> QED  BY <2>1, <2>2
<1>4. Held'
  BY DEF TypeOK, Control, Written, Held, AtRest, OpPcs, Body, Recovered, Emptying
<1>5. DurableAcks'
  BY DEF TypeOK, Control, Written, Held, DurableAcks, AtRest, OpPcs, Body, Recovered, Emptying, IdsOf
<1>6. Emptying'
  BY DEF TypeOK, Control, Emptying, Body, OpPcs
<1> QED  BY <1>1, <1>2, <1>3, <1>4, <1>5, <1>6

\* A failing write returns an error and vouches only for what precedes it.
LEMMA FailWriteStep ==
    ASSUME IndInv, FailWrite PROVE IndInv'
<1> USE ValuesAssumption, WorkloadAssumption DEF IndInv, FailWrite, Return, memory, locals, NoDocs, NoColumn, Targets
<1>1. TypeOK'
  BY DEF TypeOK, Control, AtRest, OpPcs, Body, Item, Schema, Doc, Recovered, IdsOf
<1>2. Control'
  BY DEF TypeOK, Control, AtRest, OpPcs, Item, IdsOf
<1>3. Written'
  BY DEF TypeOK, Control, Written, AtRest, OpPcs, Body, IdsOf
<1>4. Held'
  BY DEF TypeOK, Control, Written, Held, AtRest, OpPcs, Body, Recovered, Emptying
<1>5. DurableAcks'
  BY DEF TypeOK, Control, Written, Held, DurableAcks, AtRest, OpPcs, Body, Recovered, Emptying, IdsOf
<1>6. Emptying'
  BY DEF TypeOK, Control, Emptying, Body, OpPcs
<1> QED  BY <1>1, <1>2, <1>3, <1>4, <1>5, <1>6

\* A batch is accepted; every document in it is still ahead.
LEMMA StartPutStep ==
    ASSUME IndInv, NEW op, NEW b \in Batches, StartPut(op, b) PROVE IndInv'
<1> USE ValuesAssumption, WorkloadAssumption DEF IndInv, StartPut, Enter, memory, locals, NoDocs, NoColumn, Targets
<1>1. TypeOK'
  BY DEF TypeOK, Control, AtRest, OpPcs, Body, Item, Schema, Doc, Recovered, IdsOf
<1>2. Control'
  BY DEF TypeOK, Control, AtRest, OpPcs, Item, IdsOf
<1>3. Written'
  BY DEF TypeOK, Control, Written, AtRest, OpPcs, Body, IdsOf
<1>4. Held'
  BY DEF TypeOK, Control, Written, Held, AtRest, OpPcs, Body, Recovered, Emptying
<1>5. DurableAcks'
  BY DEF TypeOK, Control, Written, Held, DurableAcks, AtRest, OpPcs, Body, Recovered, Emptying, IdsOf
<1>6. Emptying'
  BY DEF TypeOK, Control, Emptying, Body, OpPcs
<1> QED  BY <1>1, <1>2, <1>3, <1>4, <1>5, <1>6

\* Memory takes the next document of the batch, and the reply is now open.
LEMMA PutNextStep ==
    ASSUME IndInv, PutNext PROVE IndInv'
<1> USE ValuesAssumption, WorkloadAssumption DEF IndInv, PutNext, Running, Widen, memory, locals, NoDocs, NoColumn, Targets
<1>1. TypeOK'
  <2>1. Head(batch) \in Item
    BY HeadTailProperties DEF TypeOK
  <2>2. Head(batch).doc \in Doc
    BY <2>1 DEF Item
  <2>3. docs' \in [Ids -> Doc \union {None}]
    BY <2>2 DEF TypeOK
  <2>4. promise' \in [Targets -> SUBSET (Doc \union Schema \union {None})]
    BY <2>2 DEF TypeOK
  <2> QED  BY <2>3, <2>4 DEF TypeOK
<1>2. Control'
  BY DEF TypeOK, Control, AtRest, OpPcs, Item, IdsOf
<1>3. Written'
  BY DEF TypeOK, Control, Written, AtRest, OpPcs, Body, IdsOf
<1>4. Held'
  BY DEF TypeOK, Control, Written, Held, AtRest, OpPcs, Body, Recovered, Emptying
<1>5. DurableAcks'
  BY DEF TypeOK, Control, Written, Held, DurableAcks, AtRest, OpPcs, Body, Recovered, Emptying, IdsOf
<1>6. Emptying'
  BY DEF TypeOK, Control, Emptying, Body, OpPcs
<1> QED  BY <1>1, <1>2, <1>3, <1>4, <1>5, <1>6

\* The batch ends, or is refused half way; what precedes has been written.
LEMMA PutDoneStep ==
    ASSUME IndInv, PutDone PROVE IndInv'
<1> USE ValuesAssumption, WorkloadAssumption DEF IndInv, PutDone, Running, Return, memory, locals, NoDocs, NoColumn, Targets
<1>1. TypeOK'
  BY DEF TypeOK, Control, AtRest, OpPcs, Body, Item, Schema, Doc, Recovered, IdsOf
<1>2. Control'
  BY DEF TypeOK, Control, AtRest, OpPcs, Item, IdsOf
<1>3. Written'
  BY DEF TypeOK, Control, Written, AtRest, OpPcs, Body, IdsOf
<1>4. Held'
  BY DEF TypeOK, Control, Written, Held, AtRest, OpPcs, Body, Recovered, Emptying
<1>5. DurableAcks'
  BY DEF TypeOK, Control, Written, Held, DurableAcks, AtRest, OpPcs, Body, Recovered, Emptying, IdsOf
<1>6. Emptying'
  BY DEF TypeOK, Control, Emptying, Body, OpPcs
<1> QED  BY <1>1, <1>2, <1>3, <1>4, <1>5, <1>6

\* Memory forgets the document, and the reply is now open.
LEMMA DeleteStep ==
    ASSUME IndInv, NEW id \in Ids, Delete(id) PROVE IndInv'
<1> USE ValuesAssumption, WorkloadAssumption DEF IndInv, Delete, Enter, Widen, memory, locals, NoDocs, NoColumn, Targets
<1>1. TypeOK'
  BY DEF TypeOK, Control, AtRest, OpPcs, Body, Item, Schema, Doc, Recovered, IdsOf
<1>2. Control'
  BY DEF TypeOK, Control, AtRest, OpPcs, Item, IdsOf
<1>3. Written'
  BY DEF TypeOK, Control, Written, AtRest, OpPcs, Body, IdsOf
<1>4. Held'
  BY DEF TypeOK, Control, Written, Held, AtRest, OpPcs, Body, Recovered, Emptying
<1>5. DurableAcks'
  BY DEF TypeOK, Control, Written, Held, DurableAcks, AtRest, OpPcs, Body, Recovered, Emptying, IdsOf
<1>6. Emptying'
  BY DEF TypeOK, Control, Emptying, Body, OpPcs
<1> QED  BY <1>1, <1>2, <1>3, <1>4, <1>5, <1>6

\* The file is gone and the reply says so, or neither.
LEMMA RemoveFileStep ==
    ASSUME IndInv, RemoveFile PROVE IndInv'
<1> USE ValuesAssumption, WorkloadAssumption DEF IndInv, RemoveFile, Return, memory, locals, NoDocs, NoColumn, Targets
<1>1. TypeOK'
  <2>1. /\ files' \in [Targets -> Doc \union Schema \union {None, Torn}]
        /\ \A id \in Ids : files'[id] \in Doc \union {None, Torn}
        /\ files'[Meta] \in Schema \union {None, Torn}
    BY DEF TypeOK, Control
  <2>2. promise' \in [Targets -> SUBSET (Doc \union Schema \union {None})]
    BY DEF TypeOK, Body
  <2>3. UNCHANGED memory /\ pc' = "idle" /\ AtRest' /\ arg' = NoColumn
    BY DEF AtRest
  <2> QED  BY <2>1, <2>2, <2>3 DEF TypeOK, AtRest
<1>2. Control'
  BY DEF TypeOK, Control, AtRest, OpPcs, Item, IdsOf
<1>3. Written'
  BY DEF TypeOK, Control, Written, AtRest, OpPcs, Body, IdsOf
<1>4. Held'
  BY DEF TypeOK, Control, Written, Held, AtRest, OpPcs, Body, Recovered, Emptying
<1>5. DurableAcks'
  BY DEF TypeOK, Control, Written, Held, DurableAcks, AtRest, OpPcs, Body, Recovered, Emptying, IdsOf
<1>6. Emptying'
  BY DEF TypeOK, Control, Emptying, Body, OpPcs
<1> QED  BY <1>1, <1>2, <1>3, <1>4, <1>5, <1>6

\* Flush owes every document it is about to write.
LEMMA FlushStep ==
    ASSUME IndInv, Flush PROVE IndInv'
<1> USE ValuesAssumption, WorkloadAssumption DEF IndInv, Flush, Enter, memory, locals, NoDocs, NoColumn, Targets
<1>1. TypeOK'
  BY DEF TypeOK, Control, AtRest, OpPcs, Body, Item, Schema, Doc, Recovered, IdsOf
<1>2. Control'
  BY DEF TypeOK, Control, AtRest, OpPcs, Item, IdsOf
<1>3. Written'
  BY DEF TypeOK, Control, Written, AtRest, OpPcs, Body, IdsOf
<1>4. Held'
  BY DEF TypeOK, Control, Written, Held, AtRest, OpPcs, Body, Recovered, Emptying
<1>5. DurableAcks'
  BY DEF TypeOK, Control, Written, Held, DurableAcks, AtRest, OpPcs, Body, Recovered, Emptying, IdsOf
<1>6. Emptying'
  BY DEF TypeOK, Control, Emptying, Body, OpPcs
<1> QED  BY <1>1, <1>2, <1>3, <1>4, <1>5, <1>6

\* Flush moves to one more document.
LEMMA FlushNextStep ==
    ASSUME IndInv, NEW id \in Ids, FlushNext(id) PROVE IndInv'
<1> USE ValuesAssumption, WorkloadAssumption DEF IndInv, FlushNext, Running, memory, locals, NoDocs, NoColumn, Targets
<1>1. TypeOK'
  BY DEF TypeOK, Control, AtRest, OpPcs, Body, Item, Schema, Doc, Recovered, IdsOf
<1>2. Control'
  BY DEF TypeOK, Control, AtRest, OpPcs, Item, IdsOf
<1>3. Written'
  BY DEF TypeOK, Control, Written, AtRest, OpPcs, Body, IdsOf
<1>4. Held'
  BY DEF TypeOK, Control, Written, Held, AtRest, OpPcs, Body, Recovered, Emptying
<1>5. DurableAcks'
  BY DEF TypeOK, Control, Written, Held, DurableAcks, AtRest, OpPcs, Body, Recovered, Emptying, IdsOf
<1>6. Emptying'
  BY DEF TypeOK, Control, Emptying, Body, OpPcs
<1> QED  BY <1>1, <1>2, <1>3, <1>4, <1>5, <1>6

\* Flush has written every document it vouches for.
LEMMA FlushDoneStep ==
    ASSUME IndInv, FlushDone PROVE IndInv'
<1> USE ValuesAssumption, WorkloadAssumption DEF IndInv, FlushDone, Running, Return, memory, locals, NoDocs, NoColumn, Targets
<1>1. TypeOK'
  BY DEF TypeOK, Control, AtRest, OpPcs, Body, Item, Schema, Doc, Recovered, IdsOf
<1>2. Control'
  BY DEF TypeOK, Control, AtRest, OpPcs, Item, IdsOf
<1>3. Written'
  BY DEF TypeOK, Control, Written, AtRest, OpPcs, Body, IdsOf
<1>4. Held'
  BY DEF TypeOK, Control, Written, Held, AtRest, OpPcs, Body, Recovered, Emptying
<1>5. DurableAcks'
  BY DEF TypeOK, Control, Written, Held, DurableAcks, AtRest, OpPcs, Body, Recovered, Emptying, IdsOf
<1>6. Emptying'
  BY DEF TypeOK, Control, Emptying, Body, OpPcs
<1> QED  BY <1>1, <1>2, <1>3, <1>4, <1>5, <1>6

\* The column enters the schema in memory, and the reply is now open.
LEMMA AddColumnStep ==
    ASSUME IndInv, NEW n \in Names, AddColumn(n) PROVE IndInv'
<1> USE ValuesAssumption, WorkloadAssumption DEF IndInv, AddColumn, Enter, FreshName, Widen, memory, locals, NoDocs, NoColumn, Targets
<1>1. TypeOK'
  <2>1. schema' \in Schema
    BY DEF TypeOK, Schema
  <2>2. promise' \in [Targets -> SUBSET (Doc \union Schema \union {None})]
    BY <2>1 DEF TypeOK
  <2> QED  BY <2>1, <2>2 DEF TypeOK
<1>2. Control'
  BY DEF TypeOK, Control, AtRest, OpPcs, Item, IdsOf
<1>3. Written'
  BY DEF TypeOK, Control, Written, AtRest, OpPcs, Body, IdsOf
<1>4. Held'
  BY DEF TypeOK, Control, Written, Held, AtRest, OpPcs, Body, Recovered, Emptying
<1>5. DurableAcks'
  BY DEF TypeOK, Control, Written, Held, DurableAcks, AtRest, OpPcs, Body, Recovered, Emptying, IdsOf
<1>6. Emptying'
  BY DEF TypeOK, Control, Emptying, Body, OpPcs
<1> QED  BY <1>1, <1>2, <1>3, <1>4, <1>5, <1>6

\* The column leaves the schema in memory, and the reply is now open.
LEMMA DropColumnStep ==
    ASSUME IndInv, NEW n \in Names, DropColumn(n) PROVE IndInv'
<1> USE ValuesAssumption, WorkloadAssumption DEF IndInv, DropColumn, Enter, Holding, Widen, memory, locals, NoDocs, NoColumn, Targets
<1>1. TypeOK'
  <2>1. schema' \in Schema
    BY DEF TypeOK, Schema
  <2>2. promise' \in [Targets -> SUBSET (Doc \union Schema \union {None})]
    BY <2>1 DEF TypeOK
  <2> QED  BY <2>1, <2>2 DEF TypeOK
<1>2. Control'
  BY DEF TypeOK, Control, AtRest, OpPcs, Item, IdsOf
<1>3. Written'
  BY DEF TypeOK, Control, Written, AtRest, OpPcs, Body, IdsOf
<1>4. Held'
  BY DEF TypeOK, Control, Written, Held, AtRest, OpPcs, Body, Recovered, Emptying
<1>5. DurableAcks'
  BY DEF TypeOK, Control, Written, Held, DurableAcks, AtRest, OpPcs, Body, Recovered, Emptying, IdsOf
<1>6. Emptying'
  BY DEF TypeOK, Control, Emptying, Body, OpPcs
<1> QED  BY <1>1, <1>2, <1>3, <1>4, <1>5, <1>6

\* A document loses its value in memory and is about to be written.
LEMMA DropNextStep ==
    ASSUME IndInv, NEW id \in Ids, DropNext(id) PROVE IndInv'
<1> USE ValuesAssumption, WorkloadAssumption DEF IndInv, DropNext, Running, Widen, memory, locals, NoDocs, NoColumn, Targets
<1>1. TypeOK'
  <2>1. docs[id] \in Doc
    BY DEF TypeOK, Control
  <2>2. [docs[id] EXCEPT ![arg.col] = None] \in Doc
    BY <2>1 DEF Doc, Control
  <2>3. docs' \in [Ids -> Doc \union {None}]
    BY <2>2 DEF TypeOK
  <2>4. promise' \in [Targets -> SUBSET (Doc \union Schema \union {None})]
    <3>1. docs'[id] \in Doc
      BY <2>2 DEF TypeOK
    <3> QED  BY <3>1 DEF TypeOK
  <2> QED  BY <2>3, <2>4 DEF TypeOK
<1>2. Control'
  BY DEF TypeOK, Control, AtRest, OpPcs, Item, IdsOf
<1>3. Written'
  BY DEF TypeOK, Control, Written, AtRest, OpPcs, Body, IdsOf
<1>4. Held'
  BY DEF TypeOK, Control, Written, Held, AtRest, OpPcs, Body, Recovered, Emptying
<1>5. DurableAcks'
  BY DEF TypeOK, Control, Written, Held, DurableAcks, AtRest, OpPcs, Body, Recovered, Emptying, IdsOf
<1>6. Emptying'
  BY DEF TypeOK, Control, Emptying, Body, OpPcs
<1> QED  BY <1>1, <1>2, <1>3, <1>4, <1>5, <1>6

\* Every document has been scrubbed; the schema is about to be written.
LEMMA DropSchemaStep ==
    ASSUME IndInv, DropSchema PROVE IndInv'
<1> USE ValuesAssumption, WorkloadAssumption DEF IndInv, DropSchema, Running, memory, locals, NoDocs, NoColumn, Targets
<1>1. TypeOK'
  BY DEF TypeOK, Control, AtRest, OpPcs, Body, Item, Schema, Doc, Recovered, IdsOf
<1>2. Control'
  BY DEF TypeOK, Control, AtRest, OpPcs, Item, IdsOf
<1>3. Written'
  BY DEF TypeOK, Control, Written, AtRest, OpPcs, Body, IdsOf
<1>4. Held'
  BY DEF TypeOK, Control, Written, Held, AtRest, OpPcs, Body, Recovered, Emptying
<1>5. DurableAcks'
  BY DEF TypeOK, Control, Written, Held, DurableAcks, AtRest, OpPcs, Body, Recovered, Emptying, IdsOf
<1>6. Emptying'
  BY DEF TypeOK, Control, Emptying, Body, OpPcs
<1> QED  BY <1>1, <1>2, <1>3, <1>4, <1>5, <1>6

\* A rename owes every document that holds the column.
LEMMA AlterColumnStep ==
    ASSUME IndInv, NEW n \in Names, NEW new \in Names \union {NoName}, AlterColumn(n, new) PROVE IndInv'
<1> USE ValuesAssumption, WorkloadAssumption DEF IndInv, AlterColumn, Enter, Holding, FreshName, memory, locals, NoDocs, NoColumn, Targets
<1>1. TypeOK'
  BY DEF TypeOK, Control, AtRest, OpPcs, Body, Item, Schema, Doc, Recovered, IdsOf
<1>2. Control'
  BY DEF TypeOK, Control, AtRest, OpPcs, Item, IdsOf
<1>3. Written'
  BY DEF TypeOK, Control, Written, AtRest, OpPcs, Body, IdsOf
<1>4. Held'
  BY DEF TypeOK, Control, Written, Held, AtRest, OpPcs, Body, Recovered, Emptying
<1>5. DurableAcks'
  BY DEF TypeOK, Control, Written, Held, DurableAcks, AtRest, OpPcs, Body, Recovered, Emptying, IdsOf
<1>6. Emptying'
  BY DEF TypeOK, Control, Emptying, Body, OpPcs
<1> QED  BY <1>1, <1>2, <1>3, <1>4, <1>5, <1>6

\* A document's value moves in memory and is about to be written.
LEMMA AlterNextStep ==
    ASSUME IndInv, NEW id \in Ids, AlterNext(id) PROVE IndInv'
<1> USE ValuesAssumption, WorkloadAssumption DEF IndInv, AlterNext, Running, Widen, Moved, memory, locals, NoDocs, NoColumn, Targets
<1>1. TypeOK'
  <2>1. docs[id] \in Doc
    BY DEF TypeOK, Control
  <2>2. Moved(docs[id]) \in Doc
    BY <2>1 DEF Doc, Control
  <2>3. docs' \in [Ids -> Doc \union {None}]
    BY <2>2 DEF TypeOK
  <2>4. promise' \in [Targets -> SUBSET (Doc \union Schema \union {None})]
    <3>1. docs'[id] \in Doc
      BY <2>2 DEF TypeOK
    <3> QED  BY <3>1 DEF TypeOK
  <2> QED  BY <2>3, <2>4 DEF TypeOK
<1>2. Control'
  BY DEF TypeOK, Control, AtRest, OpPcs, Item, IdsOf
<1>3. Written'
  BY DEF TypeOK, Control, Written, AtRest, OpPcs, Body, IdsOf
<1>4. Held'
  BY DEF TypeOK, Control, Written, Held, AtRest, OpPcs, Body, Recovered, Emptying
<1>5. DurableAcks'
  BY DEF TypeOK, Control, Written, Held, DurableAcks, AtRest, OpPcs, Body, Recovered, Emptying, IdsOf
<1>6. Emptying'
  BY DEF TypeOK, Control, Emptying, Body, OpPcs
<1> QED  BY <1>1, <1>2, <1>3, <1>4, <1>5, <1>6

\* Every document has been moved; the schema is about to be written.
LEMMA AlterSchemaStep ==
    ASSUME IndInv, AlterSchema PROVE IndInv'
<1> USE ValuesAssumption, WorkloadAssumption DEF IndInv, AlterSchema, Running, Widen, memory, locals, NoDocs, NoColumn, Targets
<1>1. TypeOK'
  <2>1. schema[arg.col] - 1 \in Nat
    BY DEF TypeOK, Control, Schema
  <2>2. schema' \in Schema
    BY <2>1 DEF TypeOK, Schema, Control
  <2>3. promise' \in [Targets -> SUBSET (Doc \union Schema \union {None})]
    BY <2>2 DEF TypeOK
  <2> QED  BY <2>2, <2>3 DEF TypeOK
<1>2. Control'
  BY DEF TypeOK, Control, AtRest, OpPcs, Item, IdsOf
<1>3. Written'
  BY DEF TypeOK, Control, Written, AtRest, OpPcs, Body, IdsOf
<1>4. Held'
  BY DEF TypeOK, Control, Written, Held, AtRest, OpPcs, Body, Recovered, Emptying
<1>5. DurableAcks'
  BY DEF TypeOK, Control, Written, Held, DurableAcks, AtRest, OpPcs, Body, Recovered, Emptying, IdsOf
<1>6. Emptying'
  BY DEF TypeOK, Control, Emptying, Body, OpPcs
<1> QED  BY <1>1, <1>2, <1>3, <1>4, <1>5, <1>6

\* The truncated collection.json may be found, and so may the new schema.
LEMMA CreateAndOpenStep ==
    ASSUME IndInv, NEW s \in Schemas, CreateAndOpen(s) PROVE IndInv'
<1> USE ValuesAssumption, WorkloadAssumption DEF IndInv, CreateAndOpen, memory, locals, NoDocs, NoColumn, Targets
<1>1. TypeOK'
  BY DEF TypeOK, Control, AtRest, OpPcs, Body, Item, Schema, Doc, Recovered, IdsOf
<1>2. Control'
  BY DEF TypeOK, Control, AtRest, OpPcs, Item, IdsOf
<1>3. Written'
  BY DEF TypeOK, Control, Written, AtRest, OpPcs, Body, IdsOf
<1>4. Held'
  BY DEF TypeOK, Control, Written, Held, AtRest, OpPcs, Body, Recovered, Emptying
<1>5. DurableAcks'
  BY DEF TypeOK, Control, Written, Held, DurableAcks, AtRest, OpPcs, Body, Recovered, Emptying, IdsOf
<1>6. Emptying'
  BY DEF TypeOK, Control, Emptying, Body, OpPcs
<1> QED  BY <1>1, <1>2, <1>3, <1>4, <1>5, <1>6

\* The new collection holds no document: none may be found, or what lay there.
LEMMA CreateDoneStep ==
    ASSUME IndInv, CreateDone PROVE IndInv'
<1> USE ValuesAssumption, WorkloadAssumption DEF IndInv, CreateDone, memory, locals, NoDocs, NoColumn, Targets
<1>1. TypeOK'
  BY DEF TypeOK, Control, AtRest, OpPcs, Body, Item, Schema, Doc, Recovered, IdsOf
<1>2. Control'
  BY DEF TypeOK, Control, AtRest, OpPcs, Item, IdsOf
<1>3. Written'
  BY DEF TypeOK, Control, Written, AtRest, OpPcs, Body, IdsOf
<1>4. Held'
  BY DEF TypeOK, Control, Written, Held, AtRest, OpPcs, Body, Recovered, Emptying
<1>5. DurableAcks'
  BY DEF TypeOK, Control, Written, Held, DurableAcks, AtRest, OpPcs, Body, Recovered, Emptying, IdsOf
<1>6. Emptying'
  BY DEF TypeOK, Control, Emptying, Body, OpPcs
<1> QED  BY <1>1, <1>2, <1>3, <1>4, <1>5, <1>6

\* A failed creation leaves no handle and an open reply.
LEMMA FailCreateStep ==
    ASSUME IndInv, FailCreate PROVE IndInv'
<1> USE ValuesAssumption, WorkloadAssumption DEF IndInv, FailCreate, memory, locals, NoDocs, NoColumn, Targets
<1>1. TypeOK'
  BY DEF TypeOK, Control, AtRest, OpPcs, Body, Item, Schema, Doc, Recovered, IdsOf
<1>2. Control'
  BY DEF TypeOK, Control, AtRest, OpPcs, Item, IdsOf
<1>3. Written'
  BY DEF TypeOK, Control, Written, AtRest, OpPcs, Body, IdsOf
<1>4. Held'
  BY DEF TypeOK, Control, Written, Held, AtRest, OpPcs, Body, Recovered, Emptying
<1>5. DurableAcks'
  BY DEF TypeOK, Control, Written, Held, DurableAcks, AtRest, OpPcs, Body, Recovered, Emptying, IdsOf
<1>6. Emptying'
  BY DEF TypeOK, Control, Emptying, Body, OpPcs
<1> QED  BY <1>1, <1>2, <1>3, <1>4, <1>5, <1>6

\* What Open loads is what the collection is from then on.
LEMMA OpenStep ==
    ASSUME IndInv, Open PROVE IndInv'
<1> USE ValuesAssumption, WorkloadAssumption DEF IndInv, Open, Loaded, memory, locals, NoDocs, NoColumn, Targets
<1>1. TypeOK'
  BY DEF TypeOK, Control, AtRest, OpPcs, Body, Item, Schema, Doc, Recovered, IdsOf
<1>2. Control'
  BY DEF TypeOK, Control, AtRest, OpPcs, Item, IdsOf
<1>3. Written'
  BY DEF TypeOK, Control, Written, AtRest, OpPcs, Body, IdsOf
<1>4. Held'
  BY DEF TypeOK, Control, Written, Held, AtRest, OpPcs, Body, Recovered, Emptying
<1>5. DurableAcks'
  BY DEF TypeOK, Control, Written, Held, DurableAcks, AtRest, OpPcs, Body, Recovered, Emptying, IdsOf
<1>6. Emptying'
  BY DEF TypeOK, Control, Emptying, Body, OpPcs
<1> QED  BY <1>1, <1>2, <1>3, <1>4, <1>5, <1>6

\* Closing writes nothing.
LEMMA CloseStep ==
    ASSUME IndInv, Close PROVE IndInv'
<1> USE ValuesAssumption, WorkloadAssumption DEF IndInv, Close, Enter, memory, locals, NoDocs, NoColumn, Targets
<1>1. TypeOK'
  BY DEF TypeOK, Control, AtRest, OpPcs, Body, Item, Schema, Doc, Recovered, IdsOf
<1>2. Control'
  BY DEF TypeOK, Control, AtRest, OpPcs, Item, IdsOf
<1>3. Written'
  BY DEF TypeOK, Control, Written, AtRest, OpPcs, Body, IdsOf
<1>4. Held'
  BY DEF TypeOK, Control, Written, Held, AtRest, OpPcs, Body, Recovered, Emptying
<1>5. DurableAcks'
  BY DEF TypeOK, Control, Written, Held, DurableAcks, AtRest, OpPcs, Body, Recovered, Emptying, IdsOf
<1>6. Emptying'
  BY DEF TypeOK, Control, Emptying, Body, OpPcs
<1> QED  BY <1>1, <1>2, <1>3, <1>4, <1>5, <1>6

\* From here on every file may be found gone.
LEMMA DestroyStep ==
    ASSUME IndInv, Destroy PROVE IndInv'
<1> USE ValuesAssumption, WorkloadAssumption DEF IndInv, Destroy, memory, locals, NoDocs, NoColumn, Targets
<1>1. TypeOK'
  BY DEF TypeOK, Control, AtRest, OpPcs, Body, Item, Schema, Doc, Recovered, IdsOf
<1>2. Control'
  BY DEF TypeOK, Control, AtRest, OpPcs, Item, IdsOf
<1>3. Written'
  BY DEF TypeOK, Control, Written, AtRest, OpPcs, Body, IdsOf
<1>4. Held'
  BY DEF TypeOK, Control, Written, Held, AtRest, OpPcs, Body, Recovered, Emptying
<1>5. DurableAcks'
  BY DEF TypeOK, Control, Written, Held, DurableAcks, AtRest, OpPcs, Body, Recovered, Emptying, IdsOf
<1>6. Emptying'
  BY DEF TypeOK, Control, Emptying, Body, OpPcs
<1> QED  BY <1>1, <1>2, <1>3, <1>4, <1>5, <1>6

\* A file is unlinked, as the reply in progress allows.
LEMMA PurgeFileStep ==
    ASSUME IndInv, NEW t \in Targets, PurgeFile(t) PROVE IndInv'
<1> USE ValuesAssumption, WorkloadAssumption DEF IndInv, PurgeFile, memory, locals, NoDocs, NoColumn, Targets
<1>1. TypeOK'
  BY DEF TypeOK, Control, AtRest, OpPcs, Body, Item, Schema, Doc, Recovered, IdsOf
<1>2. Control'
  BY DEF TypeOK, Control, AtRest, OpPcs, Item, IdsOf
<1>3. Written'
  BY DEF TypeOK, Control, Written, AtRest, OpPcs, Body, IdsOf
<1>4. Held'
  BY DEF TypeOK, Control, Written, Held, AtRest, OpPcs, Body, Recovered, Emptying
<1>5. DurableAcks'
  BY DEF TypeOK, Control, Written, Held, DurableAcks, AtRest, OpPcs, Body, Recovered, Emptying, IdsOf
<1>6. Emptying'
  BY DEF TypeOK, Control, Emptying, Body, OpPcs
<1> QED  BY <1>1, <1>2, <1>3, <1>4, <1>5, <1>6

\* An empty directory is vouched for; a remainder stays an open reply.
LEMMA PurgeDoneStep ==
    ASSUME IndInv, PurgeDone PROVE IndInv'
<1> USE ValuesAssumption, WorkloadAssumption DEF IndInv, PurgeDone, memory, locals, NoDocs, NoColumn, Targets
<1>1. TypeOK'
  BY DEF TypeOK, Control, AtRest, OpPcs, Body, Item, Schema, Doc, Recovered, IdsOf
<1>2. Control'
  BY DEF TypeOK, Control, AtRest, OpPcs, Item, IdsOf
<1>3. Written'
  BY DEF TypeOK, Control, Written, AtRest, OpPcs, Body, IdsOf
<1>4. Held'
  BY DEF TypeOK, Control, Written, Held, AtRest, OpPcs, Body, Recovered, Emptying
<1>5. DurableAcks'
  BY DEF TypeOK, Control, Written, Held, DurableAcks, AtRest, OpPcs, Body, Recovered, Emptying, IdsOf
<1>6. Emptying'
  BY DEF TypeOK, Control, Emptying, Body, OpPcs
<1> QED  BY <1>1, <1>2, <1>3, <1>4, <1>5, <1>6

\* Memory is gone and the disk is as it was: nothing is owed any more.
LEMMA CrashStep ==
    ASSUME IndInv, Crash PROVE IndInv'
<1> USE ValuesAssumption, WorkloadAssumption DEF IndInv, Crash, memory, locals, NoDocs, NoColumn, Targets
<1>1. TypeOK'
  BY DEF TypeOK, Control, AtRest, OpPcs, Body, Item, Schema, Doc, Recovered, IdsOf
<1>2. Control'
  BY DEF TypeOK, Control, AtRest, OpPcs, Item, IdsOf
<1>3. Written'
  BY DEF TypeOK, Control, Written, AtRest, OpPcs, Body, IdsOf
<1>4. Held'
  BY DEF TypeOK, Control, Written, Held, AtRest, OpPcs, Body, Recovered, Emptying
<1>5. DurableAcks'
  BY DEF TypeOK, Control, Written, Held, DurableAcks, AtRest, OpPcs, Body, Recovered, Emptying, IdsOf
<1>6. Emptying'
  BY DEF TypeOK, Control, Emptying, Body, OpPcs
<1> QED  BY <1>1, <1>2, <1>3, <1>4, <1>5, <1>6

-----------------------------------------------------------------------------
(* The invariant holds in every reachable state, and what follows from it. *)

\* Before anything is created there is nothing in memory, on disk or promised.
LEMMA InitIndInv == Init => IndInv
<1> SUFFICES ASSUME Init PROVE IndInv
  OBVIOUS
<1> USE ValuesAssumption DEF Init, NoDocs, NoColumn, Targets
<1>1. TypeOK
  BY DEF TypeOK, Schema
<1>2. Control /\ Written /\ Held /\ Emptying
  BY DEF Control, Written, Held, Emptying, OpPcs, AtRest
<1>3. DurableAcks
  BY DEF DurableAcks, Recovered
<1> QED  BY <1>1, <1>2, <1>3 DEF IndInv

\* No step of an operation under way breaks the invariant.
LEMMA ProgressKeepsIndInv == IndInv /\ Progress => IndInv'
  BY CreateTempStep, WriteTempStep, RenameTempStep, FailWriteStep, PutNextStep,
     PutDoneStep, RemoveFileStep, FlushNextStep, DropNextStep, AlterNextStep,
     FlushDoneStep, DropSchemaStep, AlterSchemaStep, CreateDoneStep,
     FailCreateStep, PurgeFileStep, PurgeDoneStep
  DEF Progress

\* No operation breaks it by starting.
LEMMA BeginKeepsIndInv == IndInv /\ Begin => IndInv'
  BY StartPutStep, DeleteStep, FlushStep, AddColumnStep, DropColumnStep,
     AlterColumnStep, CreateAndOpenStep, OpenStep, CloseStep, DestroyStep
  DEF Begin, Insert, InsertBatch, Update, Upsert, UpsertBatch

\* A stuttering step changes none of what the invariant speaks of.
LEMMA StutterKeepsIndInv == IndInv /\ UNCHANGED vars => IndInv'
  BY DEF vars, IndInv, TypeOK, Control, Written, Held, DurableAcks, Emptying,
         AtRest, Body, Recovered, OpPcs, IdsOf

\* The inductive invariant holds in every reachable state, for every value of
\* the constants: the other invariants are read off it.
THEOREM Inductive == Spec => []IndInv
<1>1. IndInv /\ [Next]_vars => IndInv'
  BY ProgressKeepsIndInv, BeginKeepsIndInv, CrashStep, StutterKeepsIndInv DEF Next
<1> QED  BY InitIndInv, <1>1, PTL DEF Spec

\* Every variable keeps its type in every reachable state.
THEOREM TypeCorrect == Spec => []TypeOK
<1>1. IndInv => TypeOK
  BY DEF IndInv
<1> QED  BY Inductive, <1>1, PTL

\* What a restart reads back is always something the replies allow, for any
\* documents, batches and schemas and any combination of failing system calls.
THEOREM RestartFindsAcked == Spec => []DurableAcks
<1>1. IndInv => DurableAcks
  BY DEF IndInv
<1> QED  BY Inductive, <1>1, PTL

\* The read operations agree with one another and with the disk on every
\* document whose last operation returned success, but for those Open could not
\* read, which only the listings lack.
THEOREM ReadersAgree == Spec => []ReadsAgree
<1>1. IndInv => ReadsAgree
  <2> SUFFICES ASSUME IndInv, handle = "open", NEW id \in Ids, Settled(id)
               PROVE  /\ Get(id) = Recovered(id)
                      /\ id \in Listed <=> Get(id) # None /\ id \notin unread
    BY DEF ReadsAgree
  <2>1. CASE id \in unread
    <3>1. docs[id] = None
      BY <2>1 DEF IndInv, Control
    <3> QED  BY <2>1, <3>1 DEF Get, Listed
  <2>2. CASE id \notin unread
    <3>1. Body(id) = docs[id]
      BY ValuesAssumption DEF Body
    <3>2. Body(id) \in promise[id] /\ Recovered(id) \in promise[id]
      BY <2>2 DEF IndInv, Held, DurableAcks, Targets
    <3>3. Recovered(id) = docs[id]
      BY <3>1, <3>2 DEF Settled
    <3> QED  BY <2>2, <3>3 DEF Get, Listed
  <2> QED  BY <2>1, <2>2
<1> QED  BY Inductive, <1>1, PTL

-----------------------------------------------------------------------------
(* Column names stay distinct.                                             *)

\* A rename still on its way to the schema has a fresh name to give: the check
\* it began with is not undone before its last step, since c.mu is held.
NamesInv ==
    /\ SchemaNamesDistinct
    /\ pc = "alter" /\ cur # Meta /\ arg.new \notin {arg.col, NoName} => FreshName(arg.new)

\* A step that leaves the schema alone, in memory and on disk, and neither
\* begins nor ends a rename.
LEMMA NamesKept ==
    ASSUME NamesInv, schema' = schema, Recovered(Meta)' \in {Recovered(Meta), None},
           files'[Meta] \in {files[Meta], None, Torn},
           pc' = "alter" => pc = "alter" /\ arg' = arg /\ (cur' # Meta => cur # Meta)
    PROVE  NamesInv'
  BY DEF NamesInv, SchemaNamesDistinct, DistinctNames, FreshName, Recovered

\* Every step keeps the names distinct: a column is added or renamed to a fresh
\* name only, and the schema on disk is a copy of one in memory.
LEMMA NamesStep ==
    ASSUME IndInv, NamesInv, Next PROVE NamesInv'
<1> USE ValuesAssumption, WorkloadAssumption DEF IndInv, Targets
<1>1. ASSUME CreateTemp \/ WriteTemp \/ FailWrite \/ PutNext \/ PutDone \/ RemoveFile
             \/ FlushDone \/ DropSchema \/ Flush \/ Close \/ Destroy \/ PurgeDone \/ FailCreate
             \/ (\E id \in Ids : FlushNext(id) \/ DropNext(id) \/ AlterNext(id) \/ Delete(id))
             \/ (\E t \in Targets : PurgeFile(t))
      PROVE  NamesInv'
  <2>1. schema' = schema
    BY <1>1 DEF CreateTemp, WriteTemp, FailWrite, PutNext, PutDone, RemoveFile, FlushDone,
       DropSchema, Flush, Close, Destroy, PurgeDone, FailCreate, FlushNext, DropNext,
       AlterNext, Delete, PurgeFile, memory
  <2>2. files'[Meta] \in {files[Meta], None}
    BY <1>1 DEF CreateTemp, WriteTemp, FailWrite, PutNext, PutDone, RemoveFile, FlushDone,
       DropSchema, Flush, Close, Destroy, PurgeDone, FailCreate, FlushNext, DropNext,
       AlterNext, Delete, PurgeFile, memory, TypeOK, Control
  <2>3. pc' = "alter" => pc = "alter" /\ arg' = arg /\ (cur' # Meta => cur # Meta)
    BY <1>1 DEF CreateTemp, WriteTemp, FailWrite, PutNext, PutDone, RemoveFile, FlushDone,
       DropSchema, Flush, Close, Destroy, PurgeDone, FailCreate, FlushNext, DropNext,
       AlterNext, Delete, PurgeFile, memory, locals, Return, Enter, Running
  <2> QED  BY <2>1, <2>2, <2>3, NamesKept DEF Recovered
<1>2. CASE RenameTemp
  <2>1. CASE cur = Meta
    <3>1. files' = [files EXCEPT ![Meta] = schema] /\ schema' = schema /\ pc' = "idle"
      BY <1>2, <2>1 DEF RenameTemp, Return, Body, memory
    <3> QED  BY <3>1 DEF NamesInv, SchemaNamesDistinct, DistinctNames, Recovered, TypeOK
  <2>2. CASE cur # Meta
    <3>1. files'[Meta] = files[Meta] /\ UNCHANGED <<schema, pc, arg>>
      BY <1>2, <2>2 DEF RenameTemp, memory, TypeOK
    <3> QED  BY <3>1, <2>2, NamesKept DEF Recovered
  <2> QED  BY <2>1, <2>2
<1>3. ASSUME NEW n \in Names, AddColumn(n)
      PROVE  NamesInv'
  <2>1. schema' = [schema EXCEPT ![n] = 1] /\ n \notin VectorNames /\ UNCHANGED files /\ pc' = "add"
    BY <1>3 DEF AddColumn, FreshName, TypeOK, Schema
  <2> QED  BY <2>1 DEF NamesInv, SchemaNamesDistinct, DistinctNames, Recovered, TypeOK, Schema
<1>4. ASSUME NEW n \in Names, DropColumn(n)
      PROVE  NamesInv'
  <2>1. schema' = [schema EXCEPT ![n] = @ - 1] /\ UNCHANGED files /\ pc' = "drop"
    BY <1>4 DEF DropColumn
  <2> QED  BY <2>1 DEF NamesInv, SchemaNamesDistinct, DistinctNames, Recovered, TypeOK, Schema
<1>5. ASSUME NEW n \in Names, NEW new \in Names \union {NoName}, AlterColumn(n, new)
      PROVE  NamesInv'
  <2>1. /\ arg' = [col |-> n, new |-> new]
        /\ new \in {n, NoName} \/ FreshName(new)
        /\ UNCHANGED <<schema, files>>
    BY <1>5 DEF AlterColumn, memory
  <2>2. SchemaNamesDistinct'
    BY <2>1 DEF NamesInv, SchemaNamesDistinct, DistinctNames, Recovered
  <2>3. arg'.col = n /\ arg'.new = new
    BY <2>1
  <2>4. arg'.new \notin {arg'.col, NoName} => FreshName(arg.new)'
    BY <2>1, <2>3 DEF FreshName
  <2> QED  BY <2>2, <2>4 DEF NamesInv
<1>6. CASE AlterSchema
  <2>1. pc = "alter" /\ cur # Meta /\ cur' = Meta /\ UNCHANGED files
    BY <1>6 DEF AlterSchema, Running
  <2>2. arg.col \in Names /\ schema[arg.col] > 0 /\ arg.new \in Names \union {NoName}
    BY <2>1 DEF Control, TypeOK
  <2>3. CASE arg.new \in {arg.col, NoName}
    <3>1. schema' = schema
      BY <1>6, <2>2, <2>3 DEF AlterSchema, TypeOK, Schema
    <3> QED  BY <2>1, <3>1 DEF NamesInv, SchemaNamesDistinct, DistinctNames, Recovered
  <2>4. CASE arg.new \notin {arg.col, NoName}
    <3>1. FreshName(arg.new)
      BY <2>1, <2>4 DEF NamesInv
    <3>2. schema' = [schema EXCEPT ![arg.col] = @ - 1, ![arg.new] = 1]
      BY <1>6, <2>2, <2>4, <3>1 DEF AlterSchema, FreshName, TypeOK, Schema
    <3>3. DistinctNames(schema)'
      BY <2>2, <2>4, <3>1, <3>2
      DEF NamesInv, SchemaNamesDistinct, DistinctNames, FreshName, TypeOK, Schema
    <3> QED  BY <2>1, <3>3 DEF NamesInv, SchemaNamesDistinct, DistinctNames, Recovered
  <2> QED  BY <2>3, <2>4
<1>7. ASSUME NEW s \in Schemas, CreateAndOpen(s)
      PROVE  NamesInv'
  <2>1. schema' = s /\ files'[Meta] = Torn /\ pc' = "create"
    BY <1>7 DEF CreateAndOpen, TypeOK
  <2> QED  BY <2>1 DEF NamesInv, SchemaNamesDistinct, DistinctNames, Recovered
<1>8. CASE CreateDone
  <2>1. files'[Meta] = schema /\ schema' = schema /\ pc' = "idle"
    BY <1>8 DEF CreateDone, TypeOK
  <2> QED  BY <2>1 DEF NamesInv, SchemaNamesDistinct, DistinctNames, Recovered
<1>9. CASE Open
  <2>1. schema' = files[Meta] /\ Recovered(Meta) # None /\ UNCHANGED <<files, pc>> /\ pc = "idle"
    BY <1>9 DEF Open
  <2> QED  BY <2>1 DEF NamesInv, SchemaNamesDistinct, DistinctNames, Recovered
<1>10. CASE Crash
  <2>1. schema' = [n \in Names |-> 0] /\ UNCHANGED files /\ pc' = "idle"
    BY <1>10 DEF Crash
  <2> QED  BY <2>1 DEF NamesInv, SchemaNamesDistinct, DistinctNames, Recovered
<1>11. ASSUME Insert \/ InsertBatch \/ Update \/ Upsert \/ UpsertBatch
       PROVE  NamesInv'
  <2>1. UNCHANGED <<schema, files>> /\ pc' = "put"
    BY <1>11 DEF Insert, InsertBatch, Update, Upsert, UpsertBatch, StartPut, memory
  <2> QED  BY <2>1, NamesKept DEF Recovered
<1> QED
  BY <1>1, <1>2, <1>3, <1>4, <1>5, <1>6, <1>7, <1>8, <1>9, <1>10, <1>11
  DEF Next, Begin, Progress

\* Neither the schema in memory nor the one on disk ever declares two fields of
\* one name, for any columns, schemas and failing system calls.
THEOREM NamesStayDistinct == Spec => []SchemaNamesDistinct
<1>1. Init => NamesInv
  BY ValuesAssumption DEF Init, NamesInv, SchemaNamesDistinct, DistinctNames, Recovered, Targets
<1>2. IndInv /\ NamesInv /\ [Next]_vars => NamesInv'
  <2>1. NamesInv /\ UNCHANGED vars => NamesInv'
    BY DEF vars, NamesInv, SchemaNamesDistinct, DistinctNames, FreshName, Recovered
  <2> QED  BY <2>1, NamesStep
<1>3. NamesInv => SchemaNamesDistinct
  BY DEF NamesInv
<1> QED  BY <1>1, <1>2, <1>3, Inductive, PTL DEF Spec

-----------------------------------------------------------------------------
(* The collection implements the write-behind store.                       *)

\* The refinement mapping: what memory shows, and what a restart would read.
View == [t \in Targets |-> IF handle = "open" THEN Body(t) ELSE None]
Disk == [t \in Targets |-> Recovered(t)]

\* A step that changes what an open handle holds for t, and nothing else.
LEMMA StageStep ==
    ASSUME NEW t \in Targets, handle = "open", UNCHANGED <<handle, files>>,
           \A u \in Targets \ {t} : Body(u)' = Body(u)
    PROVE  Store!Stage(t)
<1>1. View' = [View EXCEPT ![t] = View'[t]]
  BY DEF View
<1>2. Disk' = Disk
  BY DEF Disk, Recovered
<1> QED  BY <1>1, <1>2 DEF Store!Stage, View, Disk

\* A step that makes t on disk what memory holds for it, and changes nothing else.
LEMMA SyncStep ==
    ASSUME NEW t \in Targets, handle = "open", UNCHANGED memory,
           Recovered(t)' = Body(t),
           \A u \in Targets \ {t} : files'[u] = files[u]
    PROVE  Store!Sync(t)
<1>1. View' = View
  BY DEF View, Body, memory
<1>2. Disk' = [Disk EXCEPT ![t] = View[t]]
  BY DEF Disk, View, Recovered
<1> QED  BY <1>1, <1>2 DEF Store!Sync, View, Disk, memory

\* A step that touches neither memory nor the disk.
LEMMA SilentStep ==
    ASSUME UNCHANGED <<memory, files>>
    PROVE  UNCHANGED Store!vars
  BY DEF Store!vars, memory, Body, Recovered

\* Nothing created is the empty store.
LEMMA RefinementInit == Init => Store!Init
  BY ValuesAssumption DEF Init, Store!Init, Store!Nothing, Recovered

\* Every step of the collection is a step of the store, or one it does not see:
\* a change of memory stages one key, a rename or an unlink syncs one, closing
\* and dying shut, Open loads, CreateAndOpen erases the root and founds it anew.
LEMMA RefinementStep ==
    ASSUME IndInv, Next PROVE Store!Next \/ UNCHANGED Store!vars
<1> USE ValuesAssumption DEF IndInv
<1>1. ASSUME CreateTemp \/ WriteTemp \/ FailWrite \/ PutDone \/ FlushDone \/ DropSchema
             \/ Flush \/ (\E id \in Ids : FlushNext(id))
             \/ (\E op \in Ops, b \in Batches : StartPut(op, b))
             \/ (\E n \in Names, new \in Names \union {NoName} : AlterColumn(n, new))
             \/ PurgeDone
      PROVE  UNCHANGED <<memory, files>>
  BY <1>1 DEF CreateTemp, WriteTemp, FailWrite, PutDone, FlushDone, DropSchema, Flush,
     FlushNext, StartPut, AlterColumn, PurgeDone
<1>2. CASE RenameTemp
  <2>1. cur \in Targets /\ handle = "open"
    BY <1>2 DEF RenameTemp, TypeOK, Control, OpPcs, AtRest
  <2>2. PICK t \in Targets : t = cur
    BY <2>1
  <2>3. Body(t) # Torn
    BY DEF Body, TypeOK, Targets
  <2>4. files' = [files EXCEPT ![t] = Body(t)] /\ UNCHANGED memory
    BY <1>2, <2>2 DEF RenameTemp
  <2>5. Recovered(t)' = Body(t) /\ \A u \in Targets \ {t} : files'[u] = files[u]
    BY <2>3, <2>4 DEF Recovered, TypeOK
  <2>6. Store!Sync(t)
    BY <2>1, <2>4, <2>5, SyncStep
  <2> QED  BY <2>6 DEF Store!Next
<1>3. CASE RemoveFile
  <2>1. cur \in Ids /\ handle = "open" /\ docs[cur] = None /\ UNCHANGED memory
    BY <1>3 DEF RemoveFile, Control, OpPcs
  <2>2. PICK t \in Targets : t = cur /\ Body(t) = None
    BY <2>1 DEF Body, Targets
  <2>3. CASE UNCHANGED files
    BY <2>1, <2>3, SilentStep
  <2>4. CASE files' = [files EXCEPT ![t] = None]
    <3>1. Recovered(t)' = Body(t) /\ \A u \in Targets \ {t} : files'[u] = files[u]
      BY <2>2, <2>4 DEF Recovered, TypeOK
    <3>2. Store!Sync(t)
      BY <2>1, <3>1, SyncStep
    <3> QED  BY <3>2 DEF Store!Next
  <2> QED  BY <1>3, <2>2, <2>3, <2>4 DEF RemoveFile
<1>4. ASSUME NEW id \in Ids, Delete(id) \/ DropNext(id) \/ AlterNext(id)
      PROVE  Store!Next
  <2>1. id \in Targets /\ handle = "open" /\ UNCHANGED <<handle, files>>
    BY <1>4 DEF Delete, Enter, DropNext, AlterNext, Running, Control, OpPcs, Targets
  <2>2. \A u \in Targets \ {id} : Body(u)' = Body(u)
    BY <1>4 DEF Delete, DropNext, AlterNext, Body, TypeOK, Targets
  <2> QED  BY <2>1, <2>2, StageStep DEF Store!Next
<1>5. CASE PutNext
  <2>1. Head(batch).id \in Targets /\ handle = "open" /\ UNCHANGED <<handle, files>>
    BY <1>5 DEF PutNext, Running, Control, OpPcs, Targets
  <2>2. \A u \in Targets \ {Head(batch).id} : Body(u)' = Body(u)
    BY <1>5 DEF PutNext, Body, TypeOK, Targets
  <2> QED  BY <2>1, <2>2, StageStep DEF Store!Next
<1>6. ASSUME (\E n \in Names : AddColumn(n) \/ DropColumn(n)) \/ AlterSchema
      PROVE  Store!Next
  <2>1. Meta \in Targets /\ handle = "open" /\ UNCHANGED <<handle, files, docs>>
    BY <1>6 DEF AddColumn, DropColumn, AlterSchema, Enter, Running, Control, OpPcs, Targets
  <2>2. \A u \in Targets \ {Meta} : Body(u)' = Body(u)
    BY <2>1 DEF Body
  <2> QED  BY <2>1, <2>2, StageStep DEF Store!Next
<1>7. ASSUME NEW s \in Schemas, CreateAndOpen(s)
      PROVE  Store!Next
  <2>1. Meta \in Targets /\ handle # "open" /\ handle' # "open"
    BY <1>7 DEF CreateAndOpen, Targets
  <2>2. View' = View
    BY <2>1 DEF View
  <2>3. Disk' = [Disk EXCEPT ![Meta] = None]
    BY <1>7 DEF Disk, Recovered, CreateAndOpen, TypeOK, Targets
  <2>4. Store!Erase(Meta)
    BY <2>1, <2>2, <2>3 DEF Store!Erase, View, Disk
  <2> QED  BY <2>1, <2>4 DEF Store!Next
<1>8. CASE CreateDone
  <2>1. handle = "none" /\ handle' = "open" /\ docs' = NoDocs /\ schema' = schema
    BY <1>8 DEF CreateDone, Emptying
  <2>2. View' = [Store!Nothing EXCEPT ![Meta] = View'[Meta]]
    BY <2>1 DEF View, Store!Nothing, Body, NoDocs, Targets
  <2>3. View'[Meta] = schema /\ schema # Torn
    BY <2>1 DEF View, Body, Targets, TypeOK
  <2>4. Disk' = [Disk EXCEPT ![Meta] = View'[Meta]]
    BY <1>8, <2>3 DEF CreateDone, Disk, Recovered, TypeOK, Targets
  <2>5. Store!Found
    BY <2>1, <2>2, <2>4 DEF Store!Found, View, Disk
  <2> QED  BY <2>5 DEF Store!Next
<1>9. CASE FailCreate
  BY <1>9, SilentStep DEF FailCreate
<1>10. CASE Open
  <2>1. handle # "open" /\ handle' = "open" /\ UNCHANGED files /\ Recovered(Meta) # None
    BY <1>10 DEF Open
  <2>2. /\ unread' \in SUBSET (Targets \ {Meta})
        /\ View' = [t \in Targets |-> IF t \in unread' THEN None ELSE Disk[t]]
    BY <1>10, <2>1 DEF Open, Loaded, View, Disk, Body, Recovered, Targets
  <2>3. Disk' = Disk /\ Disk[Meta] # None
    BY <2>1 DEF Disk, Recovered, Targets
  <2>4. Store!Load
    BY <2>1, <2>2, <2>3 DEF Store!Load, View, Disk
  <2> QED  BY <2>4 DEF Store!Next
<1>11. ASSUME Close \/ Destroy \/ Crash
       PROVE  Store!Next \/ UNCHANGED Store!vars
  <2>1. handle' # "open" /\ UNCHANGED files
    BY <1>11 DEF Close, Destroy, Crash
  <2>2. CASE handle = "open"
    <3>1. View' = Store!Nothing /\ Disk' = Disk
      BY <2>1 DEF View, Disk, Recovered, Store!Nothing
    <3>2. Store!Shut
      BY <2>1, <2>2, <3>1 DEF Store!Shut, View, Disk
    <3> QED  BY <3>2 DEF Store!Next
  <2>3. CASE handle # "open"
    BY <2>1, <2>3 DEF Store!vars, Recovered
  <2> QED  BY <2>2, <2>3
<1>12. ASSUME NEW t \in Targets, PurgeFile(t)
       PROVE  Store!Next
  <2>1. handle = "closed" /\ UNCHANGED memory
    BY <1>12 DEF PurgeFile, Emptying
  <2>2. View' = View
    BY <2>1 DEF View, memory
  <2>3. Disk' = [Disk EXCEPT ![t] = None]
    BY <1>12 DEF PurgeFile, Disk, Recovered, TypeOK
  <2>4. Store!Erase(t)
    BY <2>1, <2>2, <2>3 DEF Store!Erase, View, Disk, memory
  <2> QED  BY <2>4 DEF Store!Next
<1>13. ASSUME Insert \/ InsertBatch \/ Update \/ Upsert \/ UpsertBatch
       PROVE  UNCHANGED <<memory, files>>
  BY <1>13 DEF Insert, InsertBatch, Update, Upsert, UpsertBatch, StartPut
<1> QED
  BY <1>1, <1>2, <1>3, <1>4, <1>5, <1>6, <1>7, <1>8, <1>9, <1>10, <1>11, <1>12,
     <1>13, SilentStep
  DEF Next, Begin, Progress

\* Every behaviour of a collection is one of the write-behind store: what is on
\* disk got there as a whole file, from memory, through an open handle, for any
\* documents, batches, schemas and failing system calls.
THEOREM Refinement == Spec => ImplementsWriteBehind
<1>1. IndInv /\ [Next]_vars => [Store!Next]_(Store!vars)
  <2>1. UNCHANGED vars => UNCHANGED <<memory, files>>
    BY DEF vars, memory
  <2> QED  BY <2>1, RefinementStep, SilentStep
<1> QED  BY RefinementInit, Inductive, <1>1, PTL DEF Spec, ImplementsWriteBehind, Store!Spec

=============================================================================
