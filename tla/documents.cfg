SPECIFICATION Spec
CONSTANTS
    i1 = i1
    i2 = i2
    f = f
    g = g
    h = h
    v1 = v1
    v2 = v2
    BadId = BadId
    None = None
    Torn = Torn
    Meta = Meta
    NoName = NoName
    Ids <- MCIds
    Names <- OneName
    VectorNames = {}
    Vals <- TwoVals
    Ops = {"Insert", "InsertBatch", "Update", "Upsert", "Delete", "Flush", "Close", "Destroy", "CreateAndOpen", "Recreate", "Crash"}
    Faults = {"read", "write", "remove", "removeAll", "create"}
    Batches <- DocumentBatches
    Schemas <- SchemaF
INVARIANTS
    DurableAcks
    ReadsAgree
PROPERTIES
    ImplementsWriteBehind
