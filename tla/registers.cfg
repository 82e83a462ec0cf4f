SPECIFICATION RegisterFileSpec
CONSTANTS
    Instr <- MCInstr
    DebugName <- MCDebugName
    Width = 2
INVARIANTS
    TypeOK
    SameRegister
    RegisterView
