---------------------------- MODULE RegisterFile ----------------------------
(***************************************************************************)
(* Who refers to which register.  The registers of the core are objects    *)
(* that the architectural state files under names; one register has two    *)
(* names, xN and its ABI name.  The constructor of RV32ITop files them,    *)
(* the encoding finds (or creates) them by name whenever an instruction is *)
(* decoded and the decoded operands keep pointing at what it found, the    *)
(* run loop keeps a pointer to the pc of its own, and the debugger looks a *)
(* name up on each access.  All of them have to mean the same register.    *)
(***************************************************************************)
EXTENDS Naturals, Sequences

CONSTANTS
    Instr,     \* instructions, [does : {"alu", "jump", "csr"}, rd, rs1 : 0..31]
    DebugName, \* names the debugger writes to
    Width      \* width of a register in bits (32)

VARIABLES
    file,      \* the register map of the state and the registers it holds
    pc_,       \* RV32ITop::pc_
    i,         \* the constructor's loop counter
    operands,  \* operands of the instructions in the decode cache
    arch       \* history: the registers as the instruction set has them

vars == <<file, pc_, i, operands, arch>>

(* The values a register can hold. *)
Value == 0..(2^Width - 1)

(* That the power is a positive number is said for the provers, which do   *)
(* not know powers.                                                        *)
ASSUME RegisterFileAssumption ==
    /\ Width \in Nat \ {0} /\ 2^Width \in Nat \ {0}
    /\ Instr \subseteq [does : {"alu", "jump", "csr"}, rd : 0..31, rs1 : 0..31]

kPcName == "pc"

(* The names RV32ITop and the encoding both make from a register number. *)
kXNames ==
    <<"x0",  "x1",  "x2",  "x3",  "x4",  "x5",  "x6",  "x7",  "x8",  "x9",
      "x10", "x11", "x12", "x13", "x14", "x15", "x16", "x17", "x18", "x19",
      "x20", "x21", "x22", "x23", "x24", "x25", "x26", "x27", "x28", "x29",
      "x30", "x31">>

XName(n) == kXNames[n + 1]

kRegisterAliases ==
    <<"zero", "ra", "sp", "gp", "tp",  "t0",  "t1", "t2", "s0", "s1", "a0",
      "a1",   "a2", "a3", "a4", "a5",  "a6",  "a7", "s2", "s3", "s4", "s5",
      "s6",   "s7", "s8", "s9", "s10", "s11", "t3", "t4", "t5", "t6">>

xreg_alias_ ==
    <<"zero", "ra", "sp", "gp", "tp",  "t0",  "t1", "t2", "s0", "s1", "a0",
      "a1",   "a2", "a3", "a4", "a5",  "a6",  "a7", "s2", "s3", "s4", "s5",
      "s6",   "s7", "s8", "s9", "s10", "s11", "t3", "t4", "t5", "t6">>

-----------------------------------------------------------------------------
(* A register file maps names to objects; an object is an index of value. *)
Bind(registers, name, reg) ==
    [n \in DOMAIN registers \cup {name} |->
        IF n = name THEN reg ELSE registers[n]]

AddRegister(f, name) ==
    [registers |-> Bind(f.registers, name, Len(f.value) + 1),
     value     |-> Append(f.value, 0)]

(* Mutant: a register is created although one of that name exists. *)
GetRegisterAnew(f, name) == AddRegister(f, name)

GetRegister(f, name) ==
    IF name \in DOMAIN f.registers THEN f ELSE AddRegister(f, name)

AddRegisterAlias(f, current_name, new_name) ==
    IF current_name \in DOMAIN f.registers
    THEN [f EXCEPT !.registers = Bind(@, new_name, @[current_name])]
    ELSE f

(* The constructor of RiscVState creates the pc. *)
StateFile ==
    GetRegister([registers |-> [n \in {} |-> 0], value |-> <<>>], kPcName)

-----------------------------------------------------------------------------
(* An operand points at a register object and shows a name.  Object 0 is   *)
(* none: x0 is read through a literal 0 and written through a DevNull.     *)
Operand(f, name, op_name) == [reg |-> f.registers[name], name |-> op_name]

(* Mutant: the alias table is read one entry too far. *)
XSourceOffByOne(f, n) ==
    IF n = 0 THEN [reg |-> 0, name |-> xreg_alias_[1]]
    ELSE Operand(f, XName(n), xreg_alias_[(n % 31) + 1])

XSource(f, n) ==
    IF n = 0 THEN [reg |-> 0, name |-> xreg_alias_[1]]
    ELSE Operand(f, XName(n), xreg_alias_[n + 1])

(* A DevNullOperand is given no name. *)
XDestination(f, n) ==
    IF n = 0 THEN [reg |-> 0, name |-> ""]
    ELSE Operand(f, XName(n), xreg_alias_[n + 1])

(* Decoding finds or creates each register that the instruction names. *)
RegistersFor(f, inst) ==
    LET g == IF inst.rd = 0 THEN f ELSE GetRegister(f, XName(inst.rd))
        h == IF inst.rs1 = 0 THEN g ELSE GetRegister(g, XName(inst.rs1)) IN
    CASE inst.does = "alu"  -> h
      [] inst.does = "jump" -> GetRegister(h, kPcName)
      [] inst.does = "csr"  -> GetRegister(h, "CSR")

DecodedOperands(f, inst) ==
    [rd   |-> XDestination(f, inst.rd),
     rs1  |-> XSource(f, inst.rs1),
     also |-> CASE inst.does = "alu"  -> [reg |-> 0, name |-> ""]
                [] inst.does = "jump" -> Operand(f, kPcName, kPcName)
                [] inst.does = "csr"  -> Operand(f, "CSR", "CSR")]

Decoded(inst) == operands[inst] # {}

(* The decode cache has the operands made once and then hands them out     *)
(* again; the file and the operands that GetDecodedInstruction leaves:     *)
FileWith(inst) == IF Decoded(inst) THEN file ELSE RegistersFor(file, inst)

OperandsOf(inst) ==
    IF Decoded(inst) THEN operands[inst]
    ELSE {DecodedOperands(FileWith(inst), inst)}

-----------------------------------------------------------------------------
(* Writing a register, of an operand or by a pointer; 0 is no register. *)
Set(value, reg, v) == IF reg = 0 THEN value ELSE [value EXCEPT ![reg] = v]

Get(value, reg) == IF reg = 0 THEN 0 ELSE value[reg]

(* Mutant: a value is not cut to the size of the register. *)
Untruncated(v) == v

(* Set<uint32_t>(0, static_cast<uint32_t>(v)). *)
Wrap(v) == v % 2^Width

(* RV32ITop::RV32ITop finds the pc, then files x0 to x31 under both names. *)
FindPc ==
    /\ pc_ = 0
    /\ file' = GetRegister(file, kPcName)
    /\ pc_' = file'.registers[kPcName]
    /\ UNCHANGED <<i, operands, arch>>

AddXRegister ==
    /\ pc_ # 0 /\ i < 32
    /\ file' = AddRegisterAlias(AddRegister(file, XName(i)), XName(i),
                                kRegisterAliases[i + 1])
    /\ i' = i + 1
    /\ UNCHANGED <<pc_, operands, arch>>

Constructed == i = 32

(* GetInstruction and GetDisassembly decode without executing. *)
GetInstruction(inst) ==
    /\ Constructed /\ ~Decoded(inst)
    /\ file' = FileWith(inst)
    /\ operands' = [operands EXCEPT ![inst] = OperandsOf(inst)]
    /\ UNCHANGED <<pc_, i, arch>>

(* An entry of the decode cache is invalidated or replaced. *)
Evict(inst) ==
    /\ Decoded(inst)
    /\ operands' = [operands EXCEPT ![inst] = {}]
    /\ UNCHANGED <<file, pc_, i, arch>>

(* One round of the loop of Step or Run: an instruction is taken from the  *)
(* decode cache and executes on the registers its operands point at.  Here *)
(* "alu" increments rs1, "jump" goes to rs1 and leaves a return address in *)
(* rd, and the CSR functions are empty.                                    *)
Execute(inst, return_address) ==
    LET op  == CHOOSE o \in OperandsOf(inst) : TRUE
        f   == FileWith(inst)
        src == Get(f.value, op.rs1.reg) IN
    /\ Constructed
    /\ file' = [f EXCEPT !.value =
           CASE inst.does = "alu"  -> Set(f.value, op.rd.reg, Wrap(src + 1))
             [] inst.does = "jump" -> Set(Set(f.value, op.also.reg, src),
                                          op.rd.reg, return_address)
             [] inst.does = "csr"  -> f.value]
    /\ LET written(y, n, v) == IF n = 0 THEN y ELSE [y EXCEPT ![n] = v] IN
       arch' = CASE inst.does = "alu"  -> written(arch, inst.rd,
                                                  Wrap(arch[inst.rs1] + 1))
                 [] inst.does = "jump" -> written([arch EXCEPT ![32] = arch[inst.rs1]],
                                                  inst.rd, return_address)
                 [] inst.does = "csr"  -> arch
    /\ operands' = [operands EXCEPT ![inst] = OperandsOf(inst)]
    /\ UNCHANGED <<pc_, i>>

(* The end of the loop: pc_db, the buffer of pc_, gets next_pc (Hart shows *)
(* that this is the address the program has reached).                      *)
SavePc(next_pc) ==
    /\ Constructed
    /\ file' = [file EXCEPT !.value = Set(@, pc_, next_pc)]
    /\ arch' = [arch EXCEPT ![32] = next_pc]
    /\ UNCHANGED <<pc_, i, operands>>

(* The value part of ReadRegister.  That it is called on a halted core, and *)
(* what it says of the pc at a breakpoint, is ReadRegister of RV32ITop.     *)
ReadRegister(name) == file.value[file.registers[name]]

(* The names of a register in the calling convention; 32 stands for the pc. *)
AbiName(n) ==
    CASE n = 0        -> "zero"
      [] n \in 1..4   -> <<"ra", "sp", "gp", "tp">>[n]
      [] n \in 5..7   -> <<"t0", "t1", "t2">>[n - 4]
      [] n \in 8..9   -> <<"s0", "s1">>[n - 7]
      [] n \in 10..17 -> <<"a0", "a1", "a2", "a3", "a4", "a5", "a6",
                          "a7">>[n - 9]
      [] n \in 18..27 -> <<"s2", "s3", "s4", "s5", "s6", "s7", "s8", "s9",
                          "s10", "s11">>[n - 17]
      [] n \in 28..31 -> <<"t3", "t4", "t5", "t6">>[n - 27]

NamesOf(n) == IF n = 32 THEN {kPcName} ELSE {XName(n), AbiName(n)}

(* The debugger passes 64 bits; the register keeps the low ones. *)
WriteRegister(name, v) ==
    /\ Constructed /\ name \in DOMAIN file.registers
    /\ file' = [file EXCEPT !.value[file.registers[name]] = Wrap(v)]
    /\ arch' = [n \in 0..32 |->
                   IF n # 0 /\ name \in NamesOf(n) THEN v % 2^Width ELSE arch[n]]
    /\ UNCHANGED <<pc_, i, operands>>

Init ==
    /\ file = StateFile
    /\ pc_ = 0
    /\ i = 0
    /\ operands = [inst \in Instr |-> {}]
    /\ arch = [n \in 0..32 |-> 0]

Next ==
    \/ FindPc
    \/ AddXRegister
    \/ \E inst \in Instr : GetInstruction(inst) \/ Evict(inst)
    \/ \E inst \in Instr, v \in Value : Execute(inst, v)
    \/ \E v \in Value : SavePc(v)
    \/ \E name \in DebugName, v \in 0..(2 * 2^Width - 1) : WriteRegister(name, v)

RegisterFileSpec == Init /\ [][Next]_vars

-----------------------------------------------------------------------------
TypeOK ==
    /\ file.value \in Seq(Value)
    /\ \A name \in DOMAIN file.registers :
           file.registers[name] \in DOMAIN file.value
    /\ pc_ \in 0..Len(file.value) /\ i \in 0..32
    /\ arch \in [0..32 -> Value]

(* The name that the disassembly shows for an operand is one under which   *)
(* the debugger finds the very register object that the instruction uses,  *)
(* whenever and in whatever order the instructions were decoded, and it is *)
(* a name the calling convention gives the register the instruction word   *)
(* selects.                                                                *)
SameRegister ==
    \A inst \in Instr : \A op \in operands[inst] :
        /\ op.rs1.name \in NamesOf(inst.rs1)
        /\ inst.rd # 0 => op.rd.name \in NamesOf(inst.rd)
        /\ \A o \in {op.rd, op.rs1, op.also} :
               o.reg # 0 => o.reg = file.registers[o.name]

(* Under every name of a register the debugger reads what instructions and *)
(* the debugger last wrote to it under any name, cut to the register's     *)
(* width, and the run loop's own pointer reads the same pc.  Nothing the   *)
(* debugger writes to x0 is seen by an instruction (the debugger itself    *)
(* does see it: x0 is an ordinary register object to it).                  *)
RegisterView ==
    Constructed =>
        /\ \A n \in 1..32 : \A name \in NamesOf(n) : ReadRegister(name) = arch[n]
        /\ arch[0] = 0
        /\ Get(file.value, pc_) = arch[32]

=============================================================================
