----------------------------- MODULE WriteBehind -----------------------------
(***************************************************************************)
(* What a collection promises about its directory, with no operations in   *)
(* it: a store of a few keys whose contents are changed in memory first    *)
(* and reach the disk one whole key at a time.  A restart finds on disk    *)
(* what memory held when each key was last written out, never a part of it *)
(* and never anything else; while no handle is open nothing is written,    *)
(* only erased.                                                            *)
(***************************************************************************)
CONSTANTS Keys, Root, None

VARIABLES
    up,    \* a handle is open
    view,  \* what the handle holds in memory for each key
    disk   \* what reading each key back from disk yields

vars == <<up, view, disk>>

Nothing == [k \in Keys |-> None]

Init == up = FALSE /\ view = Nothing /\ disk = Nothing

\* Memory takes a new content for k.
Stage(k) ==
    /\ up
    /\ view' = [view EXCEPT ![k] = view'[k]]
    /\ UNCHANGED <<up, disk>>

\* The content memory holds for k, None included, reaches the disk as a whole.
Sync(k) ==
    /\ up
    /\ disk' = [disk EXCEPT ![k] = view[k]]
    /\ UNCHANGED <<up, view>>

\* The handle is closed, the collection dropped, or the process dead.
Shut ==
    /\ up
    /\ up' = FALSE /\ view' = Nothing
    /\ UNCHANGED disk

\* Of the keys other than the root, those that cannot be read are passed over.
Load ==
    /\ ~up /\ disk[Root] # None
    /\ up' = TRUE
    /\ \E lost \in SUBSET (Keys \ {Root}) :
         view' = [k \in Keys |-> IF k \in lost THEN None ELSE disk[k]]
    /\ UNCHANGED disk

Erase(k) ==
    /\ ~up
    /\ disk' = [disk EXCEPT ![k] = None]
    /\ UNCHANGED <<up, view>>

\* A new root, and an empty memory beside it, whatever the other keys hold.
Found ==
    /\ ~up
    /\ up' = TRUE
    /\ view' = [Nothing EXCEPT ![Root] = view'[Root]]
    /\ disk' = [disk EXCEPT ![Root] = view'[Root]]

Next ==
    \/ \E k \in Keys : Stage(k) \/ Sync(k) \/ Erase(k)
    \/ Shut \/ Load \/ Found

Spec == Init /\ [][Next]_vars

=============================================================================
