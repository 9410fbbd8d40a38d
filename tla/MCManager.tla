----------------------------- MODULE MCManager -----------------------------
(* Small instances of Manager. *)
EXTENDS Manager, TLC

Symmetric == Permutations(Procs) \union Permutations(Handles) \union Permutations(Names)

\* Handles given out in any order, which keeps them symmetric, and in one.
Unranked == [h \in Handles |-> 0]
Ranked ==
    CHOOSE rank \in [Handles -> 1..Cardinality(Handles)] :
        \A g, h \in Handles : rank[g] = rank[h] => g = h

=============================================================================
