SPECIFICATION Spec
CONSTANTS
    i1 = i1
    i2 = i2
    f = f
    g = g
    h = h
    v1 = v1
    v2 = v2
    BadId = BadId
    None = None
    Torn = Torn
    Meta = Meta
    NoName = NoName
    Ids <- OneId
    Names <- TwoNames
    VectorNames = {}
    Vals <- OneVal
    Ops = {"Upsert", "DropColumn", "AlterColumn", "CreateAndOpen", "Crash"}
    Faults = {"write"}
    Batches <- WithAndWithout
    Schemas <- SchemaF
PROPERTIES
    ColumnLeavesDisk
