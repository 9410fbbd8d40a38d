SPECIFICATION Spec
CONSTANTS
    Ids = {1, 2, 3}
    Vectors <- MCVectors
    Queries <- MCQueries
    Metrics = {"COSINE", "L2", "IP"}
    Ks = {0, 2}
    Limits = {0, 9}
    NoVector = NoVector
    None = None
    Overflow = 100
    Default = 1
    Most = 2
INVARIANTS
    AnswersAreBest
    NothingCloserThanItself
    PagesCover
