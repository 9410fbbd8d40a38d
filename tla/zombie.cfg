SPECIFICATION Spec
CONSTANTS
    Procs = {p1, p2}
    Names = {n1}
    Handles = {h1, h2, h3}
    Docs = {d1}
    None = None
    Mgr = Mgr
    Rank <- Ranked
    Faults = {"removeAll"}
INVARIANTS
    RegisteredIsOpen
