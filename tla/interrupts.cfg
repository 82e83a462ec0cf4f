SPECIFICATION FairSpec
CONSTANTS
    Addr <- AddrDef
    Succ <- SuccDef
    Target <- TargetDef
    Program <- ProgramDef
    MainThread = main
    RunThread = {r1, r2}
    ResetPc = 0
    Uninit = Uninit
    MaxStep = 2
    MaxSignals = 2
    MaxCount = 0
    Breakable = {}
    WritableCode = {}
    WritesTohost = FALSE
    EnableMayFail = FALSE
INVARIANTS
    PcView
PROPERTIES
    HaltStopsRun
    RetiresInProgramOrder
