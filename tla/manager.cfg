SPECIFICATION Spec
CONSTANTS
    Procs = {p1, p2}
    Names = {n1, n2}
    Handles = {h1, h2, h3, h4}
    Docs = {d1}
    None = None
    Mgr = Mgr
    Rank <- Unranked
    Faults = {}
SYMMETRY Symmetric
INVARIANTS
    LiveMirrorsDisk
    DropErases
    RegisteredIsOpen
PROPERTIES
    ImplementsService
