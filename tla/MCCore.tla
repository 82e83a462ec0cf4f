------------------------------- MODULE MCCore -------------------------------
(***************************************************************************)
(* Sixteen-bit registers of four four-bit bytes, so that the immediates of *)
(* loads, stores, branches and of the arithmetic keep every bit and their  *)
(* sign; registers at the edges of the signed and unsigned ranges; five    *)
(* bytes of memory, so that words need not be aligned; a pc four bytes     *)
(* from the end of the address space.                                      *)
(***************************************************************************)
EXTENDS Core, TLC

RegDef == 0..2
DataAddrDef == 0..4
InitByteDef == [a \in DataAddrDef |-> (7 * a + 10) % 16]
InitPcDef == {65532}
InitRegDef == {[r \in RegDef |-> IF r = 0 THEN 0 ELSE p[r]] :
                   p \in {<<1, 65535>>, <<32767, 2>>, <<32768, 1>>,
                          <<2, 32768>>}}

Symmetry == Permutations(Buffer)

-----------------------------------------------------------------------------
(* Instruction words, put together from their fields. *)
Put(v, lo) == {k + lo : k \in Bits(v)}
Asm(major, f3, rd, rs1) ==
    Bits(major) \cup Put(f3, 12) \cup Put(rd, 7) \cup Put(rs1, 15)
Rs2(r) == Put(r, 20)
Imm12(v) == Put(v, 20)

(* Offsets 8 and -4 of branches and jumps, 0 and -1 of stores. *)
BOffset == {{10}, {31, 7} \cup 25..30 \cup 9..11}
JOffset == {{23}, {31, 20} \cup 12..19 \cup 22..30}
SMinusOne == 25..31 \cup 7..11

Dest == {0, 1}

WordsDef ==
    {Asm(51, o[1], 1, r) \cup Rs2(2) \cup o[2] :
         o \in {<<0, {}>>, <<0, {30}>>, <<1, {}>>, <<3, {}>>, <<4, {}>>,
                <<6, {}>>, <<7, {}>>}, r \in {0, 1}}
    \cup {Asm(19, f3, 2, 1) \cup Imm12(v) : f3 \in {0, 4, 6, 7}, v \in {1, 4091}}
    \cup {Asm(19, o[1], 1, 1) \cup o[2] \cup Imm12(v) :
              o \in {<<1, {}>>, <<5, {}>>, <<5, {30}>>}, v \in {1, 15}}
    \cup {Asm(major, 0, d, 0) \cup {13, 15} : major \in {23, 55}, d \in Dest}
    \cup {Asm(99, f3, 0, 1) \cup Rs2(2) \cup offset :
              f3 \in {0, 1, 4, 5, 6, 7}, offset \in BOffset}
    \cup {Asm(99, f3, 0, 2) \cup Rs2(1) \cup {10} : f3 \in {0, 1, 4, 5, 6, 7}}
    \cup {Asm(111, 0, d, 0) \cup offset : offset \in JOffset, d \in Dest}
    \cup {Asm(103, 0, d, 1) \cup Imm12(v) : v \in {0, 4095}, d \in Dest}
    \cup {Asm(35, f3, 0, 1) \cup Rs2(2) : f3 \in 0..2}
    \cup {Asm(35, f3, 0, 2) \cup Rs2(1) \cup SMinusOne : f3 \in 0..2}
    \cup {Asm(3, f3, 1, r) \cup Imm12(1) : f3 \in {0, 1, 2, 4, 5}, r \in {0, 2}}
    \cup {Asm(51, 0, 0, 1) \cup Rs2(2), Asm(3, 2, 0, 2) \cup Imm12(1),
          Asm(15, 0, 0, 0), Asm(115, 0, 0, 0) \cup {20}, Asm(115, 2, 1, 1),
          Asm(115, 1, 0, 1), Asm(115, 2, 1, 0),
          Asm(51, 2, 1, 1), Asm(115, 0, 0, 0), Asm(115, 1, 1, 1), {}}

InstrDef == {Annotated(w) : w \in WordsDef}

=============================================================================
