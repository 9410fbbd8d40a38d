SPECIFICATION Spec
CONSTANTS
    i1 = i1
    i2 = i2
    f = f
    g = g
    h = h
    v1 = v1
    v2 = v2
    BadId = BadId
    None = None
    Torn = Torn
    Meta = Meta
    NoName = NoName
    Ids <- MCIds
    Names <- WithVector
    VectorNames = {h}
    Vals <- OneVal
    Ops = {"UpsertBatch", "AddColumn", "DropColumn", "AlterColumn", "CreateAndOpen", "Crash"}
    Faults = {"read", "write"}
    Batches <- ColumnBatches
    Schemas <- SchemaF
INVARIANTS
    TypeOK
    DurableAcks
    SchemaNamesDistinct
PROPERTIES
    DropScrubsDisk
    RenameMovesDisk
    RenameKeepsValue
    ImplementsWriteBehind
