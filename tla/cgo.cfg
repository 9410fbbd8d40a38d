SPECIFICATION Spec
CONSTANTS
    Structs = {w1, w2, w3, w4}
    Natives = {a1, a2, a3, a4}
    None = None
SYMMETRY Symmetric
INVARIANTS
    TypeOK
    DestroyedOnce
    NothingLeaks
    KeptIsSafe
