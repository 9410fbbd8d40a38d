SPECIFICATION Spec
CONSTANTS
    Ids = {1, 2, 3}
    Vectors <- LargeVectors
    Queries <- LargeQueries
    Metrics = {"COSINE"}
    Ks = {1}
    Limits = {}
    NoVector = NoVector
    None = None
    Overflow = 27
    Default = 1
    Most = 2
INVARIANTS
    AnswersAreBest
