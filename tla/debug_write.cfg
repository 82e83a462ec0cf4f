SPECIFICATION Spec
CONSTANTS
    Addr <- AddrDef
    Succ <- SuccDef
    Target <- TargetDef
    Program <- ProgramDef
    MainThread = main
    RunThread = {r1}
    ResetPc = 0
    Uninit = Uninit
    MaxStep = 2
    MaxSignals = 0
    MaxCount = 0
    Breakable = {}
    WritableCode = {}
    WritesTohost = TRUE
    EnableMayFail = FALSE
PROPERTIES
    DebugAccessQuiet
