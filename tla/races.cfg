SPECIFICATION Spec
CONSTANTS
    Addr <- AddrSmall
    Succ <- SuccSmall
    Target <- TargetSmall
    Program <- ProgramSmall
    MainThread = main
    RunThread = {r1, r2}
    ResetPc = 0
    Uninit = Uninit
    MaxStep = 1
    MaxSignals = 1
    MaxCount = 0
    Breakable = {4}
    WritableCode = {4}
    WritesTohost = TRUE
    EnableMayFail = TRUE
SYMMETRY Symmetry
INVARIANTS
    TypeOK
    StateOwnership
    UninitNeverUsed
PROPERTIES
    CoherenceKept
