------------------------------ MODULE CgoProofs ------------------------------
(* Theorems about the binding, for any number of structs and native objects, *)
(* however calls, failures, Free and finalizers follow each other.           *)
EXTENDS Cgo, TLAPS

\* Every native object in use has one owner: a struct with a finalizer, or the
\* call that is making it.
Ownership ==
    /\ \A v, w \in Structs :
         struct[v] # None /\ struct[w] # None /\ struct[v].ptr = struct[w].ptr
         /\ struct[w].ptr # None => v = w
    /\ \A w \in Structs :
         struct[w] # None /\ struct[w].ptr # None =>
            w \in armed /\ native[struct[w].ptr] = "live" /\ struct[w].ptr \notin call.own
    /\ \A n \in call.own : native[n] = "live"
    /\ \A n \in Natives : native[n] = "live" =>
         n \in call.own \/ \E w \in armed : struct[w].ptr = n

\* A call has its arguments, and addresses of objects that are its own or its
\* arguments'.
Calling ==
    /\ pc = "idle" => call = NoCall
    /\ call.gives \in {"schema", "doc", "query"} => call.args = {}
    /\ pc = "prepare" => \A w \in call.args : struct[w] # None /\ struct[w].ptr # None
    /\ pc = "run" /\ call.args \subseteq roots =>
         \A n \in call.ptrs : n \in call.own \/ \E w \in call.args : struct[w].ptr = n
    /\ call.gives \in {"schema", "doc", "query"} =>
         \/ pc = "prepare" /\ call.temps = 1 /\ call.own = {}
         \/ call.temps = 0 /\ \E n \in Natives : call.own = {n}
    /\ call.gives = "docs" => call.temps = 0 /\ call.own = {}

IndInv == TypeOK /\ DestroyedOnce /\ Ownership /\ Calling

-----------------------------------------------------------------------------
LEMMA BeginStep ==
    ASSUME IndInv, NEW args \in SUBSET Structs, NEW temps \in 0 .. 2,
           NEW gives \in Kinds \union {"nothing", "docs"}, Begin(args, temps, gives),
           gives \in {"schema", "doc", "query"} => args = {} /\ temps = 1,
           gives = "docs" => temps = 0
    PROVE  IndInv'
<1> USE NoneAssumption DEF IndInv
<1>1. /\ call'.args = args /\ call'.temps = temps /\ call'.own = {} /\ call'.ptrs = {} /\ call'.gives = gives
      /\ call' \in Calls
      /\ pc = "idle" /\ call.own = {} /\ pc' = "prepare" /\ UNCHANGED <<struct, armed, roots, native>>
      /\ args \in SUBSET roots /\ \A w \in args : struct[w].ptr # None
  <2>1. call' = [args |-> args, temps |-> temps, own |-> {}, ptrs |-> {}, gives |-> gives]
    BY DEF Begin, NoCall
  <2>2. pc = "idle" /\ call.own = {}
    BY DEF Begin, NoCall, Calling
  <2>3. call' \in Calls
    BY <2>1 DEF Calls
  <2>4. /\ pc' = "prepare" /\ UNCHANGED <<struct, armed, roots, native>>
        /\ args \in SUBSET roots /\ \A w \in args : struct[w].ptr # None
    BY DEF Begin
  <2> QED  BY <2>1, <2>2, <2>3, <2>4
<1>2. TypeOK' /\ DestroyedOnce'
  BY <1>1 DEF TypeOK, DestroyedOnce
<1>3. Ownership'
  BY <1>1 DEF Ownership
<1>4. Calling'
  BY <1>1 DEF Calling, TypeOK
<1> QED  BY <1>2, <1>3, <1>4

LEMMA AllocateStep ==
    ASSUME IndInv, NEW n \in Natives, Allocate(n) PROVE IndInv'
<1> USE NoneAssumption DEF IndInv
<1>1. /\ pc = "prepare" /\ call.temps > 0 /\ native[n] = "free"
      /\ native' = [native EXCEPT ![n] = "live"]
      /\ call' = [call EXCEPT !.temps = @ - 1, !.own = @ \union {n}]
      /\ UNCHANGED <<struct, armed, roots, pc>>
  BY DEF Allocate, Made, TypeOK
<1>2. /\ call'.args = call.args /\ call'.temps = call.temps - 1 /\ call'.own = call.own \union {n}
      /\ call'.ptrs = call.ptrs /\ call'.gives = call.gives
      /\ call' \in Calls
  <2>1. call.temps - 1 \in 0 .. 2
    BY <1>1 DEF TypeOK, Calls
  <2>2. call' = [args |-> call.args, temps |-> call.temps - 1, own |-> call.own \union {n},
                 ptrs |-> call.ptrs, gives |-> call.gives]
    BY <1>1 DEF TypeOK, Calls
  <2>3. call' \in Calls
    BY <2>1, <2>2 DEF TypeOK, Calls
  <2> QED  BY <2>2, <2>3
<1>3. TypeOK' /\ DestroyedOnce'
  BY <1>1, <1>2 DEF TypeOK, DestroyedOnce
<1>4. Ownership'
  BY <1>1, <1>2 DEF Ownership, TypeOK
<1>5. Calling'
  BY <1>1, <1>2 DEF Calling, TypeOK
<1> QED  BY <1>3, <1>4, <1>5

\* A call that ends leaves nothing of its own behind.
LEMMA EndStep ==
    ASSUME IndInv, End(call.own), UNCHANGED <<struct, armed, roots>> PROVE IndInv'
<1> USE NoneAssumption DEF IndInv
<1>1. /\ native' = [n \in Natives |-> IF n \in call.own THEN "free" ELSE native[n]]
      /\ pc' = "idle" /\ call' = NoCall
  BY DEF End, Destroyed, Ownership, TypeOK
<1>2. call'.own = {} /\ call'.args = {} /\ call'.gives = "nothing"
  BY <1>1 DEF NoCall
<1>3. TypeOK' /\ DestroyedOnce'
  BY <1>1 DEF TypeOK, DestroyedOnce, NoCall, Calls
<1>4. Ownership'
  BY <1>1, <1>2 DEF Ownership, TypeOK, Struct
<1>5. Calling'
  BY <1>1, <1>2 DEF Calling
<1> QED  BY <1>3, <1>4, <1>5

LEMMA AllocateFailsStep ==
    ASSUME IndInv, AllocateFails PROVE IndInv'
<1> USE NoneAssumption DEF IndInv
<1>1. CASE call.gives # "coll"
  BY <1>1, EndStep DEF AllocateFails
<1>2. CASE call.gives = "coll"
  <2>1. /\ pc = "prepare" /\ call' = [call EXCEPT !.temps = 0]
        /\ UNCHANGED <<struct, armed, roots, native, pc>>
    BY <1>2 DEF AllocateFails
  <2>2. /\ call'.args = call.args /\ call'.own = call.own /\ call'.ptrs = call.ptrs
        /\ call'.gives = call.gives /\ call'.temps = 0
        /\ call' \in Calls
    BY <2>1 DEF TypeOK, Calls
  <2> QED  BY <1>2, <2>1, <2>2 DEF TypeOK, DestroyedOnce, Ownership, Calling
<1> QED  BY <1>1, <1>2

LEMMA LoadStep ==
    ASSUME IndInv, Load PROVE IndInv'
<1> USE NoneAssumption DEF IndInv
<1> DEFINE ptrs == call.own \union {struct[w].ptr : w \in call.args}
<1>1. /\ pc = "prepare" /\ call.temps = 0 /\ pc' = "run" /\ call' = [call EXCEPT !.ptrs = ptrs]
      /\ UNCHANGED <<struct, armed, roots, native>>
  BY DEF Load
<1>2. ptrs \in SUBSET Natives
  BY <1>1 DEF Calling, TypeOK, Struct, Calls
<1>3. /\ call'.args = call.args /\ call'.temps = 0 /\ call'.own = call.own
      /\ call'.ptrs = ptrs /\ call'.gives = call.gives
      /\ call' \in Calls
  BY <1>1, <1>2 DEF TypeOK, Calls
<1>4. TypeOK' /\ DestroyedOnce' /\ Ownership'
  BY <1>1, <1>3 DEF TypeOK, DestroyedOnce, Ownership
<1>5. Calling'
  BY <1>1, <1>3 DEF Calling
<1> QED  BY <1>4, <1>5

-----------------------------------------------------------------------------
\* New structs take over native objects nobody else has, and the call ends.
LEMMA WrapStep ==
    ASSUME IndInv, NEW W \in SUBSET Unused, NEW kind \in Kinds, NEW ptr \in [W -> Natives],
           \A v, w \in W : ptr[v] = ptr[w] => v = w,
           \A w \in W : ptr[w] \in call.own \/ native[ptr[w]] = "free",
           Wrap(W, kind, ptr), pc' = "idle", call' = NoCall,
           native' = [n \in Natives |->
                         IF \E w \in W : ptr[w] = n THEN "live"
                         ELSE IF n \in call.own THEN "free" ELSE native[n]]
    PROVE  IndInv'
<1> USE NoneAssumption DEF IndInv
<1> DEFINE new(w) == [kind |-> kind, ptr |-> ptr[w]]
<1>1. \A w \in W : w \in Structs /\ new(w) \in Struct /\ new(w).ptr = ptr[w] /\ struct[w] = None
  BY DEF Struct, Unused
<1>2. /\ struct' = [w \in Structs |-> IF w \in W THEN new(w) ELSE struct[w]]
      /\ armed' = armed \union W /\ roots' = roots \union W
  BY DEF Wrap
<1> HIDE DEF new
<1>3. /\ \A w \in W : struct'[w] = new(w) /\ struct'[w] # None /\ struct'[w].ptr = ptr[w]
      /\ \A w \in Structs \ W : struct'[w] = struct[w]
  BY <1>1, <1>2
<1>4. call'.own = {} /\ call'.args = {} /\ call'.gives = "nothing"
  BY DEF NoCall
<1>5. TypeOK'
  <2>1. struct' \in [Structs -> Struct \union {None}]
    BY <1>1, <1>2 DEF TypeOK
  <2>2. \A w \in armed' \union roots' : struct'[w] # None
    BY <1>2, <1>3 DEF TypeOK
  <2> QED  BY <1>1, <1>2, <2>1, <2>2 DEF TypeOK, NoCall, Calls
<1>6. DestroyedOnce'
  BY DEF DestroyedOnce
<1>7. \A w \in Structs : struct[w] # None /\ struct[w].ptr # None =>
         w \notin W /\ struct'[w] = struct[w] /\ native'[struct[w].ptr] = "live"
         /\ \A v \in W : ptr[v] # struct[w].ptr
  BY <1>1, <1>3 DEF Ownership, TypeOK, Struct
<1>8. \A w \in Structs : struct'[w] # None /\ struct'[w].ptr # None =>
         \/ w \in W /\ struct'[w].ptr = ptr[w] /\ native'[ptr[w]] = "live"
         \/ w \notin W /\ struct[w] = struct'[w]
  BY <1>3
<1>9. Ownership'
  <2>1. \A n \in Natives : native'[n] = "live" => \E w \in armed' : struct'[w].ptr = n
    <3> SUFFICES ASSUME NEW n \in Natives, native'[n] = "live", \A w \in W : ptr[w] # n
                 PROVE  \E w \in armed' : struct'[w].ptr = n
      BY <1>2, <1>3
    <3>1. native[n] = "live" /\ n \notin call.own
      OBVIOUS
    <3>2. PICK w \in armed : struct[w].ptr = n
      BY <3>1 DEF Ownership
    <3>3. w \in Structs /\ struct[w] # None /\ struct[w].ptr # None
      BY <3>2 DEF TypeOK
    <3> QED  BY <1>2, <1>7, <3>2, <3>3
  <2>2. \A w \in Structs : struct'[w] # None /\ struct'[w].ptr # None =>
            w \in armed' /\ native'[struct'[w].ptr] = "live"
    BY <1>2, <1>7, <1>8 DEF Ownership
  <2>3. \A v, w \in Structs :
            struct'[v] # None /\ struct'[w] # None /\ struct'[v].ptr = struct'[w].ptr
            /\ struct'[w].ptr # None => v = w
    BY <1>7, <1>8 DEF Ownership
  <2> QED  BY <1>4, <2>1, <2>2, <2>3 DEF Ownership
<1>10. Calling'
  BY <1>4 DEF Calling
<1> QED  BY <1>5, <1>6, <1>9, <1>10

LEMMA ConstructStep ==
    ASSUME IndInv, NEW w \in Unused, Construct(w) PROVE IndInv'
<1> USE DEF IndInv
<1>1. PICK n \in call.own : Wrap({w}, call.gives, [v \in {w} |-> n])
  BY DEF Construct
<1>2. call.own = {n} /\ n \in Natives /\ native[n] = "live" /\ call.gives \in Kinds
  BY DEF Construct, Calling, Ownership, TypeOK, Kinds
<1>3. native' = native /\ pc' = "idle" /\ call' = NoCall
  BY DEF Construct, End, Destroyed, TypeOK
<1>4. native' = [m \in Natives |-> IF \E v \in {w} : [u \in {w} |-> n][v] = m THEN "live"
                                  ELSE IF m \in call.own THEN "free" ELSE native[m]]
  BY <1>2, <1>3 DEF TypeOK
<1> QED  BY <1>1, <1>2, <1>3, <1>4, WrapStep

LEMMA OpenedStep ==
    ASSUME IndInv, NEW w \in Unused, NEW n \in Natives, Opened(w, n) PROVE IndInv'
<1> USE DEF IndInv
<1>1. /\ Wrap({w}, "coll", [v \in {w} |-> n]) /\ native[n] = "free"
      /\ pc' = "idle" /\ call' = NoCall
  BY DEF Opened
<1>2. native' = [m \in Natives |-> IF \E v \in {w} : [u \in {w} |-> n][v] = m THEN "live"
                                  ELSE IF m \in call.own THEN "free" ELSE native[m]]
  BY DEF Opened, Destroyed, Ownership, TypeOK
<1> QED  BY <1>1, <1>2, WrapStep DEF Kinds

LEMMA ResultsStep ==
    ASSUME IndInv, NEW W \in SUBSET Unused, NEW ptr \in [W -> Natives],
           \A v, w \in W : ptr[v] = ptr[w] => v = w, Results(W, ptr)
    PROVE  IndInv'
<1> USE DEF IndInv
<1>1. /\ Wrap(W, "doc", ptr) /\ \A w \in W : native[ptr[w]] = "free"
      /\ pc' = "idle" /\ call' = NoCall /\ call.own = {}
  BY DEF Results, Calling
<1>2. native' = [m \in Natives |-> IF \E w \in W : ptr[w] = m THEN "live"
                                  ELSE IF m \in call.own THEN "free" ELSE native[m]]
  BY <1>1 DEF Results, Made
<1> QED  BY <1>1, <1>2, WrapStep DEF Kinds

-----------------------------------------------------------------------------
\* The object of a struct is destroyed, and the struct is nil or gone.
LEMMA ReleaseStep ==
    ASSUME IndInv, NEW w \in Structs, struct[w] # None, NEW v \in Struct \union {None},
           v # None => v.ptr = None, v = None => w \notin roots,
           pc # "idle" => w \notin roots, pc = "prepare" => w \notin call.args,
           native' = Destroyed({struct[w].ptr} \ {None}),
           struct' = [struct EXCEPT ![w] = v],
           armed' = armed \ {w}, UNCHANGED <<roots, pc, call>>
    PROVE  IndInv'
<1> USE NoneAssumption DEF IndInv
<1>1. /\ struct'[w] = v /\ \A u \in Structs \ {w} : struct'[u] = struct[u]
      /\ struct' \in [Structs -> Struct \union {None}]
  BY DEF TypeOK
<1>2. \A n \in Natives :
         native'[n] = IF struct[w].ptr # None /\ n = struct[w].ptr THEN "free" ELSE native[n]
  BY DEF Destroyed, Ownership
<1>3. native' \in [Natives -> {"free", "live", "broken"}]
  BY DEF Destroyed, TypeOK
<1>4. TypeOK'
  BY <1>1, <1>3 DEF TypeOK
<1>5. DestroyedOnce'
  BY <1>2 DEF DestroyedOnce
<1>6. Ownership'
  <2>1. \A u \in Structs : struct'[u] # None /\ struct'[u].ptr # None =>
            u # w /\ struct'[u] = struct[u] /\ struct[u].ptr # struct[w].ptr
    BY <1>1 DEF Ownership
  <2>2. \A u \in Structs : struct'[u] # None /\ struct'[u].ptr # None => native'[struct'[u].ptr] = "live"
    <3> SUFFICES ASSUME NEW u \in Structs, struct'[u] # None, struct'[u].ptr # None
                 PROVE  native'[struct'[u].ptr] = "live"
      OBVIOUS
    <3>1. struct'[u] = struct[u] /\ struct[u].ptr # struct[w].ptr /\ struct[u].ptr \in Natives
      BY <2>1 DEF TypeOK, Struct
    <3>2. native[struct[u].ptr] = "live"
      BY <2>1 DEF Ownership
    <3> QED  BY <1>2, <3>1, <3>2
  <2>3. \A n \in call.own : native'[n] = "live"
    BY <1>2 DEF Ownership, TypeOK, Calls
  <2>4. ASSUME NEW n \in Natives, native'[n] = "live", n \notin call.own
        PROVE  \E u \in armed' : struct'[u].ptr = n
    <3>1. native[n] = "live" /\ (struct[w].ptr # None => n # struct[w].ptr)
      BY <1>2, <2>4
    <3>2. PICK u \in armed : struct[u].ptr = n
      BY <2>4, <3>1 DEF Ownership
    <3>3. u # w /\ u \in Structs
      BY <3>1, <3>2 DEF TypeOK
    <3> QED  BY <1>1, <3>2, <3>3
  <2>5. \A u \in Structs : struct'[u] # None /\ struct'[u].ptr # None =>
            u \in armed' /\ struct'[u].ptr \notin call.own
    BY <2>1 DEF Ownership
  <2>6. \A u, x \in Structs :
            struct'[u] # None /\ struct'[x] # None /\ struct'[u].ptr = struct'[x].ptr
            /\ struct'[x].ptr # None => u = x
    BY <2>1 DEF Ownership
  <2> QED  BY <2>2, <2>3, <2>4, <2>5, <2>6 DEF Ownership
<1>7. Calling'
  BY <1>1 DEF Calling, TypeOK
<1> QED  BY <1>4, <1>5, <1>6, <1>7

LEMMA LetGoStep ==
    ASSUME IndInv, LetGo PROVE IndInv'
<1> USE NoneAssumption DEF IndInv
<1>1. PICK w \in Structs : Free(w) \/ Forget(w) \/ Finalize(w) \/ Collect(w)
  BY DEF LetGo
<1>2. CASE Free(w)
  <2> DEFINE v == [struct[w] EXCEPT !.ptr = None]
  <2>1. struct[w] # None /\ struct[w] \in Struct
    BY <1>2 DEF Free, TypeOK
  <2>2. v \in Struct /\ v.ptr = None /\ struct' = [struct EXCEPT ![w] = v]
    BY <1>2, <2>1 DEF Free, Struct
  <2> QED  BY <1>2, <2>1, <2>2, ReleaseStep DEF Free
<1>3. CASE Forget(w)
  BY <1>3 DEF Forget, TypeOK, DestroyedOnce, Ownership, Calling
<1>4. CASE Finalize(w)
  BY <1>4, ReleaseStep DEF Finalize, Unreachable
<1>5. CASE Collect(w)
  <2>1. struct[w] # None /\ struct[w].ptr = None
    BY <1>5 DEF Collect, Unreachable, Ownership
  <2>2. native = Destroyed({struct[w].ptr} \ {None}) /\ armed = armed \ {w}
    BY <1>5, <2>1 DEF Collect, Destroyed, TypeOK
  <2> QED  BY <1>5, <2>1, <2>2, ReleaseStep DEF Collect, Unreachable
<1> QED  BY <1>1, <1>2, <1>3, <1>4, <1>5

-----------------------------------------------------------------------------
LEMMA StartStep ==
    ASSUME IndInv, Start PROVE IndInv'
<1>1. \A k \in Kinds : Kept(k) \in SUBSET Structs
  BY DEF IndInv, TypeOK, Kept
<1>2. 0 \in 0 .. 2 /\ 1 \in 0 .. 2 /\ 2 \in 0 .. 2 /\ 0 .. 1 \in SUBSET (0 .. 2)
  OBVIOUS
<1>3. CASE NewSchema \/ NewDocument \/ NewQuery
  BY <1>2, <1>3, BeginStep DEF NewSchema, NewDocument, NewQuery, Kinds
<1>4. ASSUME NEW args \in SUBSET Structs, NEW temps \in 0 .. 2, NEW gives \in {"nothing", "coll"},
             Begin(args, temps, gives)
      PROVE  IndInv'
  BY <1>4, BeginStep DEF Kinds
<1>5. CASE AddVectorField \/ AddScalarField \/ Access
  BY <1>1, <1>2, <1>4, <1>5 DEF AddVectorField, AddScalarField, Access, Kinds
<1>6. CASE CreateAndOpen \/ Open
  BY <1>1, <1>2, <1>4, <1>6 DEF CreateAndOpen, Open, Kinds
<1>7. CASE WriteDocs \/ Delete
  BY <1>1, <1>2, <1>4, <1>7 DEF WriteDocs, Delete, Kinds
<1>8. CASE Query
  <2>1. PICK c \in Kept("coll"), q \in Kept("query") : Begin({c, q}, 0, "docs")
    BY <1>8 DEF Query
  <2>2. {c, q} \in SUBSET Structs
    BY <1>1, <2>1 DEF Kinds
  <2> QED  BY <1>2, <2>1, <2>2, BeginStep
<1> QED  BY <1>3, <1>5, <1>6, <1>7, <1>8 DEF Start

LEMMA Stepwise ==
    IndInv /\ [Next]_vars => IndInv'
<1> SUFFICES ASSUME IndInv, [Next]_vars PROVE IndInv'
  OBVIOUS
<1>1. CASE Start
  BY <1>1, StartStep
<1>2. CASE Proceed
  <2>1. CASE (\E n \in Natives : Allocate(n)) \/ AllocateFails \/ Load
    BY <2>1, AllocateStep, AllocateFailsStep, LoadStep
  <2>2. CASE Fail \/ Return
    BY <2>2, EndStep DEF Fail, Return
  <2>3. CASE \E w \in Unused : Construct(w) \/ \E n \in Natives : Opened(w, n)
    BY <2>3, ConstructStep, OpenedStep
  <2>4. CASE \E W \in SUBSET Unused : \E ptr \in [W -> Natives] :
                (\A v, w \in W : ptr[v] = ptr[w] => v = w) /\ Results(W, ptr)
    BY <2>4, ResultsStep
  <2> QED  BY <1>2, <2>1, <2>2, <2>3, <2>4 DEF Proceed
<1>3. CASE LetGo
  BY <1>3, LetGoStep
<1>4. CASE UNCHANGED vars
  BY <1>4 DEF vars, IndInv, TypeOK, DestroyedOnce, Ownership, Calling
<1> QED  BY <1>1, <1>2, <1>3, <1>4 DEF Next

\* The strengthened invariant: one owner for every native object.
THEOREM Inductive ==
    Spec => []IndInv
<1>1. Init => IndInv
  BY NoneAssumption DEF Init, IndInv, TypeOK, DestroyedOnce, Ownership, Calling, NoCall, Calls
<1> QED  BY <1>1, Stepwise, PTL DEF Spec

\* Every pointer and every call stays of its type.
THEOREM TypeCorrect ==
    Spec => []TypeOK
<1>1. IndInv => TypeOK
  BY DEF IndInv
<1> QED  BY <1>1, Inductive, PTL

\* Free and the finalizers destroy every native object at most once.
THEOREM NeverTwice ==
    Spec => []DestroyedOnce
<1>1. IndInv => DestroyedOnce
  BY DEF IndInv
<1> QED  BY <1>1, Inductive, PTL

\* No error path loses a native object.
THEOREM NothingLost ==
    Spec => []NothingLeaks
<1>1. IndInv => NothingLeaks
  BY DEF IndInv, Calling, Ownership, NothingLeaks, NoCall, Live
<1> QED  BY <1>1, Inductive, PTL

\* A program that keeps its structs until a call returns never hands C the
\* address of an object that is gone.
THEOREM KeepersAreSafe ==
    Spec => []KeptIsSafe
<1>1. IndInv => KeptIsSafe
  <2> SUFFICES ASSUME IndInv, pc = "run", call.args \subseteq roots, NEW n \in call.ptrs
               PROVE  n \in Live
    BY DEF KeptIsSafe
  <2>1. n \in Natives
    BY DEF IndInv, TypeOK, Calls
  <2>2. CASE n \in call.own
    BY <2>1, <2>2 DEF IndInv, Ownership, Live
  <2>3. CASE \E w \in call.args : struct[w].ptr = n
    <3>1. PICK w \in call.args : struct[w].ptr = n
      BY <2>3
    <3>2. w \in Structs /\ struct[w] # None /\ struct[w].ptr # None
      BY <2>1, <3>1, NoneAssumption DEF IndInv, TypeOK
    <3> QED  BY <2>1, <3>1, <3>2 DEF IndInv, Ownership, Live
  <2> QED  BY <2>2, <2>3 DEF IndInv, Calling
<1> QED  BY <1>1, Inductive, PTL

=============================================================================
