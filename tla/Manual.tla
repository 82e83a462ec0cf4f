------------------------------- MODULE Manual -------------------------------
(***************************************************************************)
(* The reference for the decoder: the opcode tables and the immediates of  *)
(* the RISC-V manual, written the way the manual gives them: RV32I with    *)
(* Zicsr and Zifencei.  Which of these instructions the simulator leaves   *)
(* out is listed at the end of the tables, in Unimplemented.  A word is    *)
(* the set of its one-bits.                                                *)
(***************************************************************************)
EXTENDS Naturals, FiniteSetsExt

(* The number in bits hi to lo, of which there are at most seven. *)
FieldValue(w, hi, lo) ==
    LET bit(k) == IF k + lo <= hi /\ k + lo \in w THEN 1 ELSE 0
    IN  bit(0) + 2 * bit(1) + 4 * bit(2) + 8 * bit(3) + 16 * bit(4)
            + 32 * bit(5) + 64 * bit(6)

(* Mnemonic by major opcode and funct3; funct7 = 32 selects the second.    *)
LOAD   == <<"lb", "lh", "lw", "none", "lbu", "lhu", "none", "none">>
STORE  == <<"sb", "sh", "sw", "none", "none", "none", "none", "none">>
BRANCH == <<"beq", "bne", "none", "none", "blt", "bge", "bltu", "bgeu">>
OPIMM  == <<"addi", "slli", "slti", "sltiu", "xori", "srli", "ori", "andi">>
OP     == <<"add", "sll", "slt", "sltu", "xor", "srl", "or", "and">>
SYSTEM == <<"none", "csrrw", "csrrs", "csrrc", "none", "csrrwi", "csrrsi",
            "csrrci">>

(* The instruction that the manual gives a word; "none" if it has none. *)
Mnemonic(w) ==
    LET major  == FieldValue(w, 6, 0)
        funct3 == FieldValue(w, 14, 12)
        funct7 == FieldValue(w, 31, 25)
        shift  == major = 19 /\ funct3 \in {1, 5}
    IN  CASE major = 3  -> LOAD[funct3 + 1]
          [] major = 35 -> STORE[funct3 + 1]
          [] major = 99 -> BRANCH[funct3 + 1]
          [] major = 19 /\ ~shift -> OPIMM[funct3 + 1]
          [] shift /\ funct7 = 0 -> OPIMM[funct3 + 1]
          [] shift /\ funct7 = 32 /\ funct3 = 5 -> "srai"
          [] major = 51 /\ funct7 = 0 -> OP[funct3 + 1]
          [] major = 51 /\ funct7 = 32 /\ funct3 = 0 -> "sub"
          [] major = 51 /\ funct7 = 32 /\ funct3 = 5 -> "sra"
          [] major = 55 -> "lui"
          [] major = 23 -> "auipc"
          [] major = 111 -> "jal"
          [] major = 103 /\ funct3 = 0 -> "jalr"
          [] major = 15 /\ funct3 = 0 -> "fence"
          [] major = 15 /\ funct3 = 1 -> "fence.i"
          [] major = 115 /\ funct3 # 0 -> SYSTEM[funct3 + 1]
          [] w = {0, 1, 4, 5, 6} -> "ecall"
          [] w = {0, 1, 4, 5, 6, 20} -> "ebreak"
          [] OTHER -> "none"

(* The simulator has opcodes of its own for a csrrw that reads nothing and *)
(* for a csrrs with and without a register to set bits from.               *)
OpcodeName(w) ==
    CASE Mnemonic(w) = "csrrw" /\ FieldValue(w, 11, 7) = 0 -> "csrw_nr"
      [] Mnemonic(w) = "csrrs" ->
             IF FieldValue(w, 19, 15) = 0 THEN "csrs_nw" ELSE "csrs"
      [] OTHER -> Mnemonic(w)

(* What the manual has and riscv32i.bin_fmt has not; csrrw is missing for  *)
(* a destination other than x0.                                            *)
Unimplemented ==
    {"slt", "slti", "sltiu", "srl", "sra", "ecall", "fence.i",
     "csrrw", "csrrc", "csrrwi", "csrrsi", "csrrci"}

(* The opcode of a word in a simulator that has all the others.            *)
Specified(w) ==
    IF OpcodeName(w) \in Unimplemented THEN "none" ELSE OpcodeName(w)

-----------------------------------------------------------------------------
(* Operands of the instructions that are left.                             *)

(* The word position of each immediate bit; bit 31 of the word is the sign *)
(* of every immediate but the shift amount.                                *)
ImmediateBits ==
    [I |-> [k \in 0..10 |-> k + 20],
     S |-> [k \in 0..10 |-> IF k < 5 THEN k + 7 ELSE k + 20],
     B |-> [k \in 1..11 |-> CASE k = 11 -> 7 [] k < 5 -> k + 7
                              [] OTHER -> k + 20],
     U |-> [k \in 12..30 |-> k],
     J |-> [k \in 1..19 |-> CASE k = 11 -> 20 [] k < 11 -> k + 20
                              [] OTHER -> k],
     shamt |-> [k \in 0..4 |-> k + 20]]

TopBit == [I |-> 11, S |-> 11, B |-> 12, U |-> 31, J |-> 20, shamt |-> 32]

Immediate(type, w) ==
    {k \in DOMAIN ImmediateBits[type] : ImmediateBits[type][k] \in w}
        \cup IF 31 \in w THEN TopBit[type]..31 ELSE {}

ImmediateType(o) ==
    CASE o \in {"sb", "sh", "sw"} -> "S"
      [] o \in {"beq", "bne", "blt", "bge", "bltu", "bgeu"} -> "B"
      [] o \in {"lui", "auipc"} -> "U"
      [] o = "jal" -> "J"
      [] o \in {"slli", "srli", "srai"} -> "shamt"
      [] o \in {"add", "sub", "sll", "sltu", "xor", "or", "and", "ebreak",
                "csrs", "csrw_nr", "csrs_nw", "none"} -> "no"
      [] OTHER -> "I"

FieldIsRegister(w, hi, lo) ==
    {{k - lo : k \in w \cap (lo..hi)}} \ {{}}

ReadRegisters(w) ==
    (IF Specified(w) \in {"lui", "auipc", "jal", "fence", "ebreak", "csrs_nw",
                          "none"}
     THEN {} ELSE FieldIsRegister(w, 19, 15))
    \cup (IF ImmediateType(Specified(w)) \in {"S", "B"}
             \/ (FieldValue(w, 6, 0) = 51 /\ Specified(w) # "none")
          THEN FieldIsRegister(w, 24, 20) ELSE {})

WrittenRegisters(w) ==
    IF ImmediateType(Specified(w)) \in {"S", "B"}
       \/ Specified(w) \in {"fence", "ebreak", "csrw_nr", "none"}
    THEN {} ELSE FieldIsRegister(w, 11, 7)

=============================================================================
