SPECIFICATION Spec
CONSTANTS
    DacDefault = 127
    WrongWord = 43690
INVARIANTS
    TypeOK
    NoFalseAlarm
    BlueMeansLevels
    BlueMeansRestored
