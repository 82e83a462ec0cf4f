SPECIFICATION FairSpec
CONSTANTS
    Addr <- AddrDef
    Succ <- SuccDef
    Target <- TargetDef
    Program <- ProgramDef
    MainThread = main
    RunThread = {r1, r2}
    ResetPc = 0
    Uninit = Uninit
    MaxStep = 2
    MaxSignals = 0
    MaxCount = 0
    Breakable = {4, 12}
    WritableCode = {}
    WritesTohost = FALSE
    EnableMayFail = FALSE
INVARIANTS
    PcView
    FetchCorrect
    BreakpointsRearmed
    NoLostHalt
    ShowsOriginal
PROPERTIES
    CallsReturn
    WaitReturns
    RetiresInProgramOrder
