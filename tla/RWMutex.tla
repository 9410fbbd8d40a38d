------------------------------- MODULE RWMutex -------------------------------
(***************************************************************************)
(* sync.RWMutex of Go, as far as callers can tell.  Lock first takes the   *)
(* mutex among writers and announces itself, which stops new readers, and  *)
(* then waits for the readers already inside: hence a reader that asks     *)
(* again for a lock it holds waits behind an announced writer that waits   *)
(* for it.                                                                 *)
(***************************************************************************)
CONSTANTS Procs, Locks, None

VARIABLES
    readers,  \* per lock, the goroutines that hold it for reading
    owner     \* per lock, the writer that has announced itself, or None

LocksTypeOK ==
    /\ readers \in [Locks -> SUBSET Procs]
    /\ owner \in [Locks -> Procs \union {None}]

LocksFree == readers = [l \in Locks |-> {}] /\ owner = [l \in Locks |-> None]

\* No writer is in or on its way: a reader may come in.
Readable(l) == owner[l] = None

RLock(p, l) ==
    /\ Readable(l)
    /\ readers' = [readers EXCEPT ![l] = @ \union {p}]
    /\ UNCHANGED owner

RUnlock(p, l) ==
    /\ readers' = [readers EXCEPT ![l] = @ \ {p}]
    /\ UNCHANGED owner

\* Lock up to the announcement.
Announce(p, l) ==
    /\ owner[l] = None
    /\ owner' = [owner EXCEPT ![l] = p]
    /\ UNCHANGED readers

\* Lock returns once the readers are gone.
Locked(p, l) == owner[l] = p /\ readers[l] = {}

\* Unlock of the locks in L.
Unlock(L) ==
    /\ owner' = [l \in Locks |-> IF l \in L THEN None ELSE owner[l]]
    /\ UNCHANGED readers

=============================================================================
