-------------------------------- MODULE Core --------------------------------
(***************************************************************************)
(* The decoder and the semantic functions put together.  riscv32i.isa ties *)
(* an opcode to a semantic function and lists its operands in some order;  *)
(* rv32i_instructions.cc picks them by index.  Nothing but convention      *)
(* makes the two agree.  Here the instructions Hart executes are what      *)
(* RiscV32Decoder makes of instruction words, and they are compared with   *)
(* what the manual says of the same words.                                 *)
(***************************************************************************)
EXTENDS Hart, Encoding, Manual

CONSTANT Words       \* the instruction words memory may hold

-----------------------------------------------------------------------------
(* The semfunc of each opcode; "none" is the default opcode. *)
SemFunc ==
    [add |-> "Add", and |-> "And", or |-> "Or", sll |-> "Sll",
     sltu |-> "Sltu", sub |-> "Sub", xor |-> "Xor",
     addi |-> "Add", andi |-> "And", ori |-> "Or", xori |-> "Xor",
     slli |-> "Sll", srai |-> "Sra", srli |-> "Srl",
     auipc |-> "Auipc", lui |-> "Lui",
     beq |-> "Beq", bge |-> "Bge", bgeu |-> "Bgeu", blt |-> "Blt",
     bltu |-> "Bltu", bne |-> "Bne", jal |-> "Jal", jalr |-> "Jalr",
     sb |-> "Sb", sh |-> "Sh", sw |-> "Sw",
     lb |-> "Lb", lbu |-> "Lbu", lh |-> "Lh", lhu |-> "Lhu", lw |-> "Lw",
     fence |-> "Fence", ebreak |-> "Ebreak", csrs |-> "ZiCsrs",
     csrw_nr |-> "ZiCsrwNr", csrs_nw |-> "ZiCsrsNw", none |-> "Illegal"]

(* The low bits of an operand value that fit the word of the hart. *)
Low32(bits) ==
    MapThenSumSet(LAMBDA k : 2^k, bits \cap (0..(WordBits - 1)))

(* A source operand object as the semantic functions read it; no function  *)
(* reads the register "CSR".                                               *)
SourceOperand(o) ==
    CASE o[1] = "x"   -> <<"x", FieldValue(o[2], 4, 0)>>
      [] o[1] = "imm" -> <<"imm", Low32(o[2])>>
      [] OTHER        -> <<"imm", 0>>

(* Mutant: the link register is looked for at index 0. *)
LinkAtZero(func) == 1

(* The index at which a semantic function finds the register it writes:    *)
(* Destination(1) for the jumps, whose Destination(0) is the pc.           *)
ResultIndex(func) == IF func \in {"Jal", "Jalr"} THEN 2 ELSE 1

(* A register number, or 0 for a DevNullOperand and for no destination. *)
DestinationRegister(destinations, k) ==
    IF k \in DOMAIN destinations /\ destinations[k][1] = "x"
    THEN FieldValue(destinations[k][2], 4, 0) ELSE 0

(* The instruction object the decoder returns for a word. *)
DecodeInstruction(w) ==
    LET inst == Decode(DecodeRiscVInst32(w), w)
        func == SemFunc[inst.opcode]
    IN  [func |-> func,
         src  |-> [k \in DOMAIN inst.sources |->
                      SourceOperand(inst.sources[k])],
         rd   |-> DestinationRegister(inst.destinations, ResultIndex(func))]

-----------------------------------------------------------------------------
(* The reference: what the manual says a word does, as an instruction of   *)
(* Isa.  Its operation follows from major opcode and funct3, its operands  *)
(* from its format.  What the simulator does not implement is as illegal   *)
(* as what the manual does not define.                                     *)

Operation(w) ==
    LET major  == FieldValue(w, 6, 0)
        By(table) == table[FieldValue(w, 14, 12) + 1]
    IN  IF Specified(w) = "none" THEN "Illegal"
        ELSE CASE major \in {19, 51} ->
                    IF Specified(w) = "sub" THEN "Sub"
                    ELSE IF Specified(w) = "srai" THEN "Sra"
                    ELSE By(<<"Add", "Sll", "Slt", "Sltu", "Xor", "Srl", "Or",
                              "And">>)
               [] major = 3  -> By(<<"Lb", "Lh", "Lw", "Ld", "Lbu", "Lhu">>)
               [] major = 35 -> By(<<"Sb", "Sh", "Sw">>)
               [] major = 99 -> By(<<"Beq", "Bne", "", "", "Blt", "Bge",
                                     "Bltu", "Bgeu">>)
               [] major = 55 -> "Lui"
               [] major = 23 -> "Auipc"
               [] major = 111 -> "Jal"
               [] major = 103 -> "Jalr"
               [] OTHER -> "Fence"

Meaning(w) ==
    LET type == ImmediateType(Specified(w))
        rs1  == <<"x", FieldValue(w, 19, 15)>>
        rs2  == <<"x", FieldValue(w, 24, 20)>>
        imm  == <<"imm", Low32(Immediate(type, w))>>
    IN  [func |-> Operation(w),
         src  |-> CASE type = "no"            -> <<rs1, rs2>>
                    [] type \in {"I", "shamt"} -> <<rs1, imm>>
                    [] type = "S"             -> <<rs1, imm, rs2>>
                    [] type = "B"             -> <<rs1, rs2, imm>>
                    [] type \in {"U", "J"}    -> <<imm>>,
         rd   |-> IF type \in {"S", "B"} THEN 0 ELSE FieldValue(w, 11, 7)]

Meanings == [func : STRING, src : Seq({"x", "imm"} \X Nat), rd : 0..31]

(* An instruction object together with what it should do. *)
Annotated(w) ==
    LET inst == DecodeInstruction(w) IN
    [func |-> inst.func, src |-> inst.src, rd |-> inst.rd,
     meaning |-> Meaning(w)]

ASSUME CoreAssumption ==
    /\ Words \subseteq Word
    /\ Instr = {Annotated(w) : w \in Words}

-----------------------------------------------------------------------------
(* Properties. *)

Machine == INSTANCE Isa WITH
    x <- [r \in Reg |-> IF r = 0 THEN 0 ELSE Int32(x[r])],
    pc <- IF loop THEN next_pc ELSE contents[pc_buffer],
    last <- IF last.func = "none" THEN last ELSE last.meaning,
    Instr <- Meanings,
    JalrClearsBit0 <- FALSE

(* Decoding a word and executing the result does to registers, memory and  *)
(* pc what the manual says of that word: the order in which riscv32i.isa   *)
(* lists operands, the index at which a semantic function reads each of    *)
(* them, sign extension in the decoder and conversion in the function fit  *)
(* together; x0 is zero for every instruction whatever the debugger wrote  *)
(* to it; and the loop notices every jump although the new pc buffer may   *)
(* be one that the register had before.  The machine is the manual's but   *)
(* for two things: jalr keeps bit 0 of its target (JalrClearsBit0), and    *)
(* the words of Unimplemented are illegal instructions, which have no      *)
(* effect.                                                                 *)
ExecutesWord == Machine!Spec

=============================================================================
