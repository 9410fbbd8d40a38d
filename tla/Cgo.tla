--------------------------------- MODULE Cgo ---------------------------------
(***************************************************************************)
(* The binding to the C++ core (cgo/collection_cgo.go): Go structs that     *)
(* each own an object of the native library, and calls that hand its        *)
(* address to C.                                                            *)
(*                                                                          *)
(* One goroutine of the program makes the calls.  Beside it the garbage     *)
(* collector's goroutine runs the finalizers of the structs nothing refers  *)
(* to any more.  A call refers to its arguments until it has read their     *)
(* addresses; from then on, for there is no runtime.KeepAlive, only the     *)
(* program's own variables keep them.                                       *)
(***************************************************************************)
EXTENDS Naturals

CONSTANTS
    Structs,  \* the Go values that can exist at one time
    Natives,  \* addresses of native objects, handed out again once free
    None      \* nil; no struct

Kinds == {"schema", "doc", "query", "coll"}

\* A *Schema, *Document, *Query or *Collection.
Struct == [kind : Kinds, ptr : Natives \union {None}]

ASSUME NoneAssumption == None \notin Struct \union Natives

VARIABLES
    struct,  \* what each Go value is
    armed,   \* those with a finalizer
    roots,   \* those the program's variables refer to
    native,  \* per address: "free"; "live"; "broken" once destroyed while not live
    pc,      \* the program: "idle"; in a call, "prepare", or "run" in C with the addresses
    call     \* the call: its arguments, how many temporary native objects it has still
             \* to make, those it has made, the addresses C has, and what it returns

vars == <<struct, armed, roots, native, pc, call>>

NoCall == [args |-> {}, temps |-> 0, own |-> {}, ptrs |-> {}, gives |-> "nothing"]

Calls ==
    [args : SUBSET Structs, temps : 0 .. 2, own : SUBSET Natives, ptrs : SUBSET Natives,
     gives : Kinds \union {"nothing", "docs"}]

TypeOK ==
    /\ struct \in [Structs -> Struct \union {None}]
    /\ armed \in SUBSET Structs /\ roots \in SUBSET Structs
    /\ \A w \in armed \union roots : struct[w] # None
    /\ native \in [Natives -> {"free", "live", "broken"}]
    /\ pc \in {"idle", "prepare", "run"}
    /\ call \in Calls

Init ==
    /\ struct = [w \in Structs |-> None]
    /\ armed = {} /\ roots = {}
    /\ native = [n \in Natives |-> "free"]
    /\ pc = "idle" /\ call = NoCall

-----------------------------------------------------------------------------
Live == {n \in Natives : native[n] = "live"}
Unused == {w \in Structs : struct[w] = None}

\* The native objects in S are destroyed; one that is not there corrupts memory.
Destroyed(S) ==
    [n \in Natives |->
        IF n \notin S THEN native[n] ELSE IF native[n] = "live" THEN "free" ELSE "broken"]

Made(S) == [n \in Natives |-> IF n \in S THEN "live" ELSE native[n]]

\* The program's structs of a kind.
Kept(kind) == {w \in roots : struct[w].kind = kind}

\* Every method first looks whether its structs still have their objects.
Begin(args, temps, gives) ==
    /\ pc = "idle" /\ args \subseteq roots
    /\ \A w \in args : struct[w].ptr # None
    /\ call' = [NoCall EXCEPT !.args = args, !.temps = temps, !.gives = gives]
    /\ pc' = "prepare"
    /\ UNCHANGED <<struct, armed, roots, native>>

NewSchema == Begin({}, 1, "schema")
NewDocument == Begin({}, 1, "doc")
NewQuery == Begin({}, 1, "query")

\* A field schema and index parameters, or the first alone.
AddVectorField == \E s \in Kept("schema") : Begin({s}, 2, "nothing")
AddScalarField == \E s \in Kept("schema") : Begin({s}, 1, "nothing")

\* The getters and setters of a document.
Access == \E d \in Kept("doc") : Begin({d}, 0, "nothing")

\* With options or without.
CreateAndOpen == \E s \in Kept("schema"), temps \in 0 .. 1 : Begin({s}, temps, "coll")
Open == \E temps \in 0 .. 1 : Begin({}, temps, "coll")

\* Insert, Update and Upsert.
WriteDocs == \E c \in Kept("coll"), D \in SUBSET Kept("doc") \ {{}} : Begin({c} \union D, 0, "nothing")
Delete == \E c \in Kept("coll") : Begin({c}, 0, "nothing")
Query == \E c \in Kept("coll"), q \in Kept("query") : Begin({c, q}, 0, "docs")

-----------------------------------------------------------------------------
(* How a call goes on.                                                     *)

\* Mutant: one temporary too many.
AllocateAgain(n) ==
    /\ pc = "prepare" /\ native[n] = "free"
    /\ native' = Made({n})
    /\ call' = [call EXCEPT !.temps = @ - 1, !.own = @ \union {n}]
    /\ UNCHANGED <<struct, armed, roots, pc>>

Allocate(n) ==
    /\ pc = "prepare" /\ call.temps > 0 /\ native[n] = "free"
    /\ native' = Made({n})
    /\ call' = [call EXCEPT !.temps = @ - 1, !.own = @ \union {n}]
    /\ UNCHANGED <<struct, armed, roots, pc>>

\* The call ends with the native objects `left` destroyed.
End(left) ==
    /\ native' = Destroyed(left)
    /\ pc' = "idle" /\ call' = NoCall

\* A temporary cannot be made: an error, but for options, which are left out.
AllocateFails ==
    /\ pc = "prepare" /\ call.temps > 0
    /\ \/ call.gives = "coll"
          /\ call' = [call EXCEPT !.temps = 0] /\ UNCHANGED <<native, pc>>
       \/ call.gives # "coll" /\ End(call.own)
    /\ UNCHANGED <<struct, armed, roots>>

\* The addresses are read and C is called.
Load ==
    /\ pc = "prepare" /\ call.temps = 0
    /\ call' = [call EXCEPT !.ptrs = call.own \union {struct[w].ptr : w \in call.args}]
    /\ pc' = "run"
    /\ UNCHANGED <<struct, armed, roots, native>>

\* Mutant: an error path of NewQuery without its destroy.
FailLeaks ==
    /\ pc = "run" /\ call.gives \notin {"schema", "doc"}
    /\ End(IF call.gives = "query" THEN {} ELSE call.own)
    /\ UNCHANGED <<struct, armed, roots>>

\* C reports an error.  Making a schema or a document can no longer fail here.
Fail ==
    /\ pc = "run" /\ call.gives \notin {"schema", "doc"}
    /\ End(call.own)
    /\ UNCHANGED <<struct, armed, roots>>

\* C is done and there is nothing to return.
Return ==
    /\ pc = "run" /\ call.gives = "nothing"
    /\ End(call.own)
    /\ UNCHANGED <<struct, armed, roots>>

\* New structs with finalizers for the native objects at ptr[w], w in W.
Wrap(W, kind, ptr) ==
    /\ struct' = [w \in Structs |-> IF w \in W THEN [kind |-> kind, ptr |-> ptr[w]] ELSE struct[w]]
    /\ armed' = armed \union W /\ roots' = roots \union W

\* NewSchema, NewDocument and NewQuery return what they made.
Construct(w) ==
    /\ pc = "run" /\ call.gives \in {"schema", "doc", "query"}
    /\ \E n \in call.own : Wrap({w}, call.gives, [v \in {w} |-> n])
    /\ End({})

\* A collection is open; the options are no longer needed.
Opened(w, n) ==
    /\ pc = "run" /\ call.gives = "coll" /\ native[n] = "free"
    /\ Wrap({w}, "coll", [v \in {w} |-> n])
    /\ native' = [Destroyed(call.own) EXCEPT ![n] = "live"]
    /\ pc' = "idle" /\ call' = NoCall

\* Mutant: the results are destroyed with the block they came in.
ResultsFreed(W, ptr) ==
    /\ pc = "run" /\ call.gives = "docs"
    /\ \A w \in W : native[ptr[w]] = "free"
    /\ Wrap(W, "doc", ptr)
    /\ End({})

\* Query: each result gets a struct of its own, then the native block they came
\* in is freed, and nothing else.
Results(W, ptr) ==
    /\ pc = "run" /\ call.gives = "docs"
    /\ \A w \in W : native[ptr[w]] = "free"
    /\ Wrap(W, "doc", ptr)
    /\ native' = Made({ptr[w] : w \in W})
    /\ pc' = "idle" /\ call' = NoCall

-----------------------------------------------------------------------------
(* Letting go.                                                             *)

\* Mutant: no ptr = nil.
FreeKeepsPointer(w) ==
    /\ pc = "idle" /\ w \in roots
    /\ native' = Destroyed({struct[w].ptr} \ {None})
    /\ armed' = armed \ {w}
    /\ UNCHANGED <<struct, roots, pc, call>>

\* Free, and Close and Destroy of a collection.
Free(w) ==
    /\ pc = "idle" /\ w \in roots
    /\ native' = Destroyed({struct[w].ptr} \ {None})
    /\ struct' = [struct EXCEPT ![w].ptr = None]
    /\ armed' = armed \ {w}
    /\ UNCHANGED <<roots, pc, call>>

\* The program has no more use for w, be it while a call has it.
Forget(w) ==
    /\ w \in roots
    /\ roots' = roots \ {w}
    /\ UNCHANGED <<struct, armed, native, pc, call>>

Unreachable(w) ==
    struct[w] # None /\ w \notin roots /\ ~(pc = "prepare" /\ w \in call.args)

\* The finalizer frees the object; the struct goes after it.
Finalize(w) ==
    /\ Unreachable(w) /\ w \in armed
    /\ native' = Destroyed({struct[w].ptr} \ {None})
    /\ struct' = [struct EXCEPT ![w] = None]
    /\ armed' = armed \ {w}
    /\ UNCHANGED <<roots, pc, call>>

\* A struct without a finalizer just goes.
Collect(w) ==
    /\ Unreachable(w) /\ w \notin armed
    /\ struct' = [struct EXCEPT ![w] = None]
    /\ UNCHANGED <<armed, roots, native, pc, call>>

-----------------------------------------------------------------------------
Start ==
    \/ NewSchema \/ NewDocument \/ NewQuery
    \/ AddVectorField \/ AddScalarField \/ Access
    \/ CreateAndOpen \/ Open \/ WriteDocs \/ Delete \/ Query

Proceed ==
    \/ (\E n \in Natives : Allocate(n)) \/ AllocateFails \/ Load \/ Fail \/ Return
    \/ \E w \in Unused : Construct(w) \/ \E n \in Natives : Opened(w, n)
    \/ \E W \in SUBSET Unused : \E ptr \in [W -> Natives] :
         (\A v, w \in W : ptr[v] = ptr[w] => v = w) /\ Results(W, ptr)

LetGo == \E w \in Structs : Free(w) \/ Forget(w) \/ Finalize(w) \/ Collect(w)

Next == Start \/ Proceed \/ LetGo

Spec == Init /\ [][Next]_vars

-----------------------------------------------------------------------------
(* Properties.                                                             *)

\* No native object is destroyed twice, whatever the program frees and the
\* finalizers find: "Safe to call more than once" (Free), with addresses that
\* are handed out again in between.
DestroyedOnce == \A n \in Natives : native[n] # "broken"

\* Outside a call every native object belongs to a struct whose finalizer will
\* free it: no error path of a call leaves one behind.
NothingLeaks ==
    pc = "idle" =>
        \A n \in Live : \E w \in armed : struct[w].ptr = n

\* The objects of arguments the program still refers to are there as long as C
\* works on them: nobody else owns and destroys them.
KeptIsSafe == pc = "run" /\ call.args \subseteq roots => call.ptrs \subseteq Live

\* C never works on an object that has been destroyed, as it must not if an
\* object can be left to its finalizer ("Free it when done (or let the finalizer
\* run)", collection_cgo.go:304).  It can: the finalizer may run in the middle
\* of the last call.
CallsSafe == pc = "run" => call.ptrs \subseteq Live

=============================================================================
