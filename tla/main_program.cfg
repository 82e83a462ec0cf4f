SPECIFICATION FairMainSpec
CONSTANTS
    Addr <- AddrSmall
    Succ <- SuccSmall
    Target <- TargetSmall
    Program <- ProgramSmall
    MainThread = main
    RunThread = {r1}
    ResetPc = 0
    Uninit = Uninit
    MaxStep = 2
    MaxSignals = 1
    MaxCount = 4
    Breakable = {4}
    WritableCode = {}
    WritesTohost = FALSE
    EnableMayFail = FALSE
    EntryPoint = 4
    Interactive = {TRUE, FALSE}
INVARIANTS
    InstructionMix
    ExportedFinal
    EndsAfterExport
PROPERTIES
    BatchEnds
