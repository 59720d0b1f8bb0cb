SPECIFICATION Spec
CONSTANTS
    Addrs = {scratch, rgb}
    Values = {v0, v1}
    Header = Header
    Size = 3
    SendBuffer = 2
INVARIANTS
    TypeOK
    ReadTruthful
    NoLeak
PROPERTY ReadReturns
