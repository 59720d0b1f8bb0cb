SPECIFICATION HostSpec
CONSTANT Modulus = 8
INVARIANT PauseHolds
