SPECIFICATION ResetSpec
CONSTANTS
    ResetPrescale = 65535
    DriverPrescale = 23
    AccessTime = 1
    NopDelay = 2
    Addrs = {100}
    Words = {150}
    Setup = 1
    RxBytes = {77}
INVARIANT ResetQuiesces
