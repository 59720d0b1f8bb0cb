SPECIFICATION Spec
CONSTANT Modulus = 16
INVARIANTS
    TypeOK
    NyquistBound
    CountError
