SPECIFICATION FairSpec
CONSTANTS
    Addr <- AddrDef
    Succ <- SuccDef
    Target <- TargetDef
    Program <- ProgramDef
    MainThread = main
    RunThread = {r1}
    ResetPc = 0
    Uninit = Uninit
    MaxStep = 2
    MaxSignals = 0
    MaxCount = 0
    Breakable = {}
    WritableCode = {}
    WritesTohost = FALSE
    EnableMayFail = FALSE
PROPERTIES
    DestructorReturns
