SPECIFICATION Spec
CONSTANTS
    ByteBits = 4
    Reg <- RegDef
    DataAddr <- DataAddrDef
    Instr <- InstrDef
    Buffer = {d1, d2}
    InitReg <- InitRegDef
    InitPc <- InitPcDef
    InitByte <- InitByteDef
    DebugReg = {0}
    DebugData = {1}
    DebugValue = {128}
    MaxInstr = 2
    Words <- WordsDef
SYMMETRY Symmetry
INVARIANTS
    BuffersBalanced
PROPERTIES
    ExecutesWord JumpsNoticed
