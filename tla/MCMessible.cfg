SPECIFICATION Spec
CONSTANTS
    Depth = 3
    Bytes = {a, b}
    None = None
    AccessTime = 2
INVARIANTS
    TypeOK
    FullTruthful
    HaveTruthful
PROPERTY ImplementsLossyQueue
