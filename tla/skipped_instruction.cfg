SPECIFICATION Spec
CONSTANTS
    Addr <- AddrDef
    Succ <- SuccDef
    Target <- TargetDef
    Program <- ProgramDef
    MainThread = main
    RunThread = {r1}
    ResetPc = 0
    Uninit = Uninit
    MaxStep = 2
    MaxSignals = 1
    MaxCount = 0
    Breakable = {4}
    WritableCode = {}
    WritesTohost = FALSE
    EnableMayFail = FALSE
INVARIANTS
    PcView
