SPECIFICATION Spec
CONSTANTS
    ResetPrescale = 65535
    DriverPrescale = 23
    AccessTime = 4
    NopDelay = 4
    Addrs = {100}
    Words = {150}
    RxBytes = {77}
    StretchAt = {8}
INVARIANTS
    TypeOK
    WirePrefix
    NoArbitrationLoss
    BusReleased
PROPERTY ImplementsBitService
