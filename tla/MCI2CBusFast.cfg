SPECIFICATION Spec
CONSTANTS
    ResetPrescale = 65535
    DriverPrescale = 3
    AccessTime = 4
    NopDelay = 4
    Addrs = {100}
    Words = {150}
    RxBytes = {77, 178}
    StretchAt = {0, 3, 8}
INVARIANTS
    ReturnTruthful
    NoArbitrationLoss
PROPERTIES
    ImplementsTransfer
    TxnReturns
