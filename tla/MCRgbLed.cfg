SPECIFICATION Spec
CONSTANTS
    Revision = "rockling_evt"
    Settings <- MCSettings
    Colours <- MCColours
    HostColour <- MCHostColour
    HostCtrls = {63}
    HostRaws = {0, 7}
    MaxStrays = 1
INVARIANTS
    TypeOK
    LedTruthful
    WritesLand
