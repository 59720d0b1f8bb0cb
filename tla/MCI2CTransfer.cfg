SPECIFICATION CallsSpec
CONSTANTS
    ResetPrescale = 65535
    DriverPrescale = 23
    AccessTime = 1
    NopDelay = 2
    Addrs = {100}
    Words <- MCWords
    Setup = 1
    RxBytes = {178}
INVARIANTS
    TypeOK
    TipSound
    ArbLostTruthful
    WirePrefix
    ReturnTruthful
    EndsOnce
    ArgumentsHeard
PROPERTIES
    TxdStable
    TxnReturns
