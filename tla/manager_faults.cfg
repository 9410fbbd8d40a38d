SPECIFICATION FairSpec
CONSTANTS
    Procs = {p1, p2}
    Names = {n1}
    Handles = {h1, h2, h3}
    Docs = {d1}
    None = None
    Mgr = Mgr
    Rank <- Ranked
    Faults = {"write", "remove", "read", "removeAll", "create", "open", "kill"}
INVARIANTS
    TypeOK
    OneLiveHandle
    AnsweredIsStored
PROPERTIES
    RequestsReturn
    ShutdownEnds
