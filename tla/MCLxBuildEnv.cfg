SPECIFICATION Spec
CONSTANTS
    rockling = rockling
    litex_server = litex_server
    litex = litex
    picolibc = picolibc
    data = data
    Programs <- MCPrograms
    LX_DEPENDENCIES <- MCDependencies
    SkipGit = {}
    Paths <- MCPaths
    Options <- MCOptions
    Deps <- MCDeps
    Nested <- MCNested
    Super <- MCSuper
INVARIANTS
    TypeOK
    GitWasChecked
    ProgramHasDeps
PROPERTY LaunchEnds
