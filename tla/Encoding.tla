------------------------------ MODULE Encoding ------------------------------
(***************************************************************************)
(* The instruction encoding: the formats and the instruction group of      *)
(* riscv32i.bin_fmt, the operands riscv32i.isa gives each opcode, and the  *)
(* operand getters of RiscV32IEncoding.  A word, and every value taken     *)
(* from it, is the set of the positions of its one-bits.                   *)
(***************************************************************************)
EXTENDS Naturals, Sequences

Word == SUBSET (0..31)

(* The bits of an unsigned literal; none here has more than 14. *)
Powers == <<1, 2, 4, 8, 16, 32, 64, 128, 256, 512, 1024, 2048, 4096, 8192>>

Bits(n) == {k \in 0..13 : (n \div Powers[k + 1]) % 2 = 1}

-----------------------------------------------------------------------------
(* A field is the sequence of the positions it occupies in the word, from  *)
(* its most significant bit; Low stands for a literal 0 of an overlay.     *)

Low == 32

Field(hi, lo) == [i \in 1..(hi - lo + 1) |-> hi + 1 - i]

(* Bits hi..lo of a field, numbered from its least significant bit. *)
Slice(f, hi, lo) == [i \in 1..(hi - lo + 1) |-> f[Len(f) - (hi + 1 - i)]]

opcode_field == Field(6, 0)
rd_field     == Field(11, 7)
func3_field  == Field(14, 12)
rs1_field    == Field(19, 15)
rs2_field    == Field(24, 20)
func7_field  == Field(31, 25)
bits_field   == Field(31, 7)

imm12  == Field(31, 20)
uimm5  == rs2_field
uimm32 == Field(31, 12) \o [i \in 1..12 |-> Low]

(* Mutant: bit 11 of the branch offset is taken from the wrong field. *)
b_imm_mutant ==
    LET imm7 == Field(31, 25)
        imm5 == Field(11, 7)
    IN  Slice(imm7, 6, 6) \o Slice(imm7, 5, 5) \o Slice(imm7, 4, 0)
        \o Slice(imm5, 4, 0) \o <<Low>>

b_imm ==
    LET imm7 == Field(31, 25)
        imm5 == Field(11, 7)
    IN  Slice(imm7, 6, 6) \o Slice(imm5, 0, 0) \o Slice(imm7, 5, 0)
        \o Slice(imm5, 4, 1) \o <<Low>>

j_imm ==
    LET imm20 == Field(31, 12)
    IN  Slice(imm20, 19, 19) \o Slice(imm20, 7, 0) \o Slice(imm20, 8, 8)
        \o Slice(imm20, 18, 9) \o <<Low>>

s_imm == Field(31, 25) \o Field(11, 7)

Extract(w, f) == {Len(f) - i : i \in {k \in DOMAIN f : f[k] \in w}}

(* An n-bit signed value in 32 bits. *)
SignExtend(v, n) == v \cup IF n - 1 \in v THEN n..31 ELSE {}

ExtractSigned(w, f) == SignExtend(Extract(w, f), Len(f))

-----------------------------------------------------------------------------
(* The instruction group: the constraints on the fields of each opcode.    *)

RType(f7, f3, op) == [func7 |-> f7, func3 |-> f3, opcode |-> op]
Other(f3, op)     == [func3 |-> f3, opcode |-> op]
UType(op)         == [opcode |-> op]

RiscVInst32 ==
    [add |-> RType(0, 0, 51),  and |-> RType(0, 7, 51), or |-> RType(0, 6, 51),
     sll |-> RType(0, 1, 51),  sltu |-> RType(0, 3, 51),
     sub |-> RType(32, 0, 51), xor |-> RType(0, 4, 51),
     addi |-> Other(0, 19), andi |-> Other(7, 19), ori |-> Other(6, 19),
     xori |-> Other(4, 19),
     slli |-> RType(0, 1, 19), srai |-> RType(32, 5, 19),
     srli |-> RType(0, 5, 19),
     auipc |-> UType(23), lui |-> UType(55),
     beq |-> Other(0, 99), bge |-> Other(5, 99), bgeu |-> Other(7, 99),
     blt |-> Other(4, 99), bltu |-> Other(6, 99), bne |-> Other(1, 99),
     jal |-> UType(111), jalr |-> Other(0, 103),
     sb |-> Other(0, 35), sh |-> Other(1, 35), sw |-> Other(2, 35),
     lb |-> Other(0, 3), lbu |-> Other(4, 3), lh |-> Other(1, 3),
     lhu |-> Other(5, 3), lw |-> Other(2, 3),
     fence |-> Other(0, 15),
     ebreak |-> [bits |-> 8192, opcode |-> 115],
     csrs |-> Other(2, 115),
     csrw_nr |-> [func3 |-> 1, rd |-> 0, opcode |-> 115],
     csrs_nw |-> [func3 |-> 2, rs1 |-> 0, opcode |-> 115]]

Opcode == DOMAIN RiscVInst32

FieldOf ==
    [opcode |-> opcode_field, rd |-> rd_field, func3 |-> func3_field,
     rs1 |-> rs1_field, rs2 |-> rs2_field, func7 |-> func7_field,
     bits |-> bits_field]

(* Mutant: the constraint rs1 != 0 of csrs is forgotten. *)
MatchesLoosely(o, w) ==
    \A f \in DOMAIN RiscVInst32[o] :
        Extract(w, FieldOf[f]) = Bits(RiscVInst32[o][f])

Matches(o, w) ==
    /\ \A f \in DOMAIN RiscVInst32[o] :
           Extract(w, FieldOf[f]) = Bits(RiscVInst32[o][f])
    /\ o = "csrs" => Extract(w, rs1_field) # {}

Matching(w) == {o \in Opcode : Matches(o, w)}

(* The opcode of a word; "none" is the default opcode of the isa, whose    *)
(* semantic function is RV32IllegalInstruction.                            *)
DecodeRiscVInst32(w) ==
    IF Matching(w) = {} THEN "none" ELSE CHOOSE o \in Matching(w) : TRUE

-----------------------------------------------------------------------------
(* The operands of each opcode in riscv32i.isa. *)

Sources(o) ==
    CASE o \in {"add", "and", "or", "sll", "sltu", "sub", "xor"}
                                             -> <<"rs1", "rs2">>
      [] o \in {"addi", "andi", "ori", "xori", "jalr",
                "lb", "lbu", "lh", "lhu", "lw"} -> <<"rs1", "imm12">>
      [] o \in {"slli", "srai", "srli"}      -> <<"rs1", "uimm5">>
      [] o \in {"auipc", "lui"}              -> <<"uimm20">>
      [] o \in {"beq", "bge", "bgeu", "blt", "bltu", "bne"}
                                             -> <<"rs1", "rs2", "bimm12">>
      [] o = "jal"                           -> <<"jimm20">>
      [] o \in {"sb", "sh", "sw"}            -> <<"rs1", "simm12", "rs2">>
      [] o = "fence"                         -> <<"imm12">>
      [] o = "csrs"                          -> <<"rs1", "csr">>
      [] o = "csrw_nr"                       -> <<"rs1">>
      [] o = "csrs_nw"                       -> <<"csr">>
      [] OTHER                               -> <<>>

Destinations(o) ==
    CASE o \in {"beq", "bge", "bgeu", "blt", "bltu", "bne"} -> <<"next_pc">>
      [] o \in {"jal", "jalr"}               -> <<"next_pc", "rd">>
      [] o \in {"csrs", "csrs_nw"}           -> <<"rd", "csr">>
      [] o = "csrw_nr"                       -> <<"csr">>
      [] o \in {"sb", "sh", "sw", "fence", "ebreak", "none"} -> <<>>
      [] OTHER                               -> <<"rd">>

(* The operand getters.  Register 0 is read as the literal 0 and written   *)
(* to nowhere; every CSR is the one register named "CSR".                  *)
XReg(w, f, zero) ==
    IF Extract(w, f) = {} THEN <<zero>> ELSE <<"x", Extract(w, f)>>

GetSource(s, w) ==
    CASE s = "rs1"    -> XReg(w, rs1_field, "zero")
      [] s = "rs2"    -> XReg(w, rs2_field, "zero")
      [] s = "csr"    -> <<"CSR">>
      [] s = "imm12"  -> <<"imm", ExtractSigned(w, imm12)>>
      [] s = "uimm5"  -> <<"imm", Extract(w, uimm5)>>
      [] s = "uimm20" -> <<"imm", Extract(w, uimm32)>>
      [] s = "bimm12" -> <<"imm", ExtractSigned(w, b_imm)>>
      [] s = "jimm20" -> <<"imm", ExtractSigned(w, j_imm)>>
      [] s = "simm12" -> <<"imm", ExtractSigned(w, s_imm)>>

GetDestination(d, w) ==
    CASE d = "rd"      -> XReg(w, rd_field, "null")
      [] d = "next_pc" -> <<"pc">>
      [] d = "csr"     -> <<"CSR">>

(* The instruction object made for opcode o from the fields of word w. *)
Decode(o, w) ==
    LET src == Sources(o)
        dst == Destinations(o)
    IN  [opcode |-> o,
         sources |-> [i \in DOMAIN src |-> GetSource(src[i], w)],
         destinations |-> [i \in DOMAIN dst |-> GetDestination(dst[i], w)]]

=============================================================================
