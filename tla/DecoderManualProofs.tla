------------------------ MODULE DecoderManualProofs -------------------------
(***************************************************************************)
(* Proof that the decoder gives every one of the 2^32 instruction words    *)
(* the opcode, the immediate and the registers of the RISC-V manual, or    *)
(* the illegal instruction where the manual has none or the simulator      *)
(* leaves the manual's out (Unimplemented in module Manual).               *)
(***************************************************************************)
EXTENDS DecoderProofs, SequenceTheorems

-----------------------------------------------------------------------------
(* Fields.  Bit j of what is extracted from a field. *)
LEMMA ExtractBit ==
    ASSUME NEW w, NEW L \in Nat, NEW f, Len(f) = L, DOMAIN f = 1..L, NEW j
    PROVE  j \in Extract(w, f) <=> j \in 0..(L - 1) /\ f[L - j] \in w
<1>1. ASSUME j \in Extract(w, f)
      PROVE  j \in 0..(L - 1) /\ f[L - j] \in w
  <2>1. PICK k \in 1..L : f[k] \in w /\ j = L - k
    BY <1>1 DEF Extract
  <2>2. j \in 0..(L - 1) /\ L - j = k
    BY <2>1
  <2> QED
    BY <2>1, <2>2
<1>2. ASSUME j \in 0..(L - 1), f[L - j] \in w
      PROVE  j \in Extract(w, f)
  <2>1. L - j \in 1..L /\ L - (L - j) = j
    BY <1>2
  <2> QED
    BY <1>2, <2>1 DEF Extract
<1> QED
  BY <1>1, <1>2

LEMMA FieldBit ==
    ASSUME NEW w, NEW hi \in Nat, NEW lo \in Nat, lo <= hi, NEW j
    PROVE  j \in Extract(w, Field(hi, lo)) <=> j \in 0..(hi - lo) /\ j + lo \in w
<1> DEFINE f == Field(hi, lo)
           L == hi - lo + 1
<1>1. L \in Nat /\ L - 1 = hi - lo
  OBVIOUS
<1>2. Len(f) = L /\ DOMAIN f = 1..L /\ \A k \in 1..L : f[k] = hi + 1 - k
  BY <1>1 DEF Field
<1> HIDE DEF f
<1>3. j \in Extract(w, f) <=> j \in 0..(L - 1) /\ f[L - j] \in w
  BY <1>1, <1>2, ExtractBit
<1>4. j \in 0..(hi - lo) => f[L - j] = j + lo
  <2> SUFFICES ASSUME j \in 0..(hi - lo) PROVE f[L - j] = j + lo
    OBVIOUS
  <2>1. L - j \in 1..L /\ hi + 1 - (L - j) = j + lo
    OBVIOUS
  <2> QED
    BY <1>2, <2>1
<1> QED
  BY <1>1, <1>3, <1>4 DEF f

LEMMA HighBits ==
    ASSUME NEW n \in 0..127, NEW k \in 7..13
    PROVE  k \notin Bits(n)
<1>1. n \div 128 = 0 /\ n \div 256 = 0 /\ n \div 512 = 0 /\ n \div 1024 = 0
      /\ n \div 2048 = 0 /\ n \div 4096 = 0 /\ n \div 8192 = 0
  OBVIOUS
<1>2. Powers[k + 1] \in {128, 256, 512, 1024, 2048, 4096, 8192}
  BY DEF Powers
<1>3. n \div Powers[k + 1] = 0
  BY <1>1, <1>2
<1> QED
  BY <1>3 DEF Bits

(* Bit k of a field. *)
Digit(w, hi, lo, k) == IF k + lo <= hi /\ k + lo \in w THEN 1 ELSE 0

LEMMA FieldDigits ==
    ASSUME NEW w, NEW hi, NEW lo
    PROVE  FieldValue(w, hi, lo) =
               Digit(w, hi, lo, 0) + 2 * Digit(w, hi, lo, 1)
               + 4 * Digit(w, hi, lo, 2) + 8 * Digit(w, hi, lo, 3)
               + 16 * Digit(w, hi, lo, 4) + 32 * Digit(w, hi, lo, 5)
               + 64 * Digit(w, hi, lo, 6)
BY DEF FieldValue, Digit

(* A constraint of riscv32i.bin_fmt on a field says which number it holds. *)
LEMMA FieldNumber ==
    ASSUME NEW w, NEW hi \in Nat, NEW lo \in Nat, lo <= hi, hi - lo <= 6,
           NEW n \in 0..127
    PROVE  Extract(w, Field(hi, lo)) = Bits(n) <=> FieldValue(w, hi, lo) = n
<1> DEFINE E == Extract(w, Field(hi, lo))
           b(k) == Digit(w, hi, lo, k)
           d0 == n % 2
           d1 == (n \div 2) % 2
           d2 == (n \div 4) % 2
           d3 == (n \div 8) % 2
           d4 == (n \div 16) % 2
           d5 == (n \div 32) % 2
           d6 == (n \div 64) % 2
<1>1. \A k \in 0..6 : b(k) \in 0..1 /\ (k \in E <=> b(k) = 1)
  <2> SUFFICES ASSUME NEW k \in 0..6
               PROVE  b(k) \in 0..1 /\ (k \in E <=> b(k) = 1)
    OBVIOUS
  <2>1. k \in E <=> k \in 0..(hi - lo) /\ k + lo \in w
    BY FieldBit
  <2>2. k \in 0..(hi - lo) <=> k + lo <= hi
    OBVIOUS
  <2> HIDE DEF E
  <2> QED
    BY <2>1, <2>2 DEF Digit
<1>2. \A k \in E : k \in 0..6
  <2> SUFFICES ASSUME NEW k \in E PROVE k \in 0..6
    OBVIOUS
  <2>1. k \in 0..(hi - lo)
    BY FieldBit
  <2> QED
    BY <2>1
<1>3. /\ d0 \in 0..1 /\ d1 \in 0..1 /\ d2 \in 0..1 /\ d3 \in 0..1
      /\ d4 \in 0..1 /\ d5 \in 0..1 /\ d6 \in 0..1
  OBVIOUS
<1>4. /\ 0 \in Bits(n) <=> d0 = 1
      /\ 1 \in Bits(n) <=> d1 = 1
      /\ 2 \in Bits(n) <=> d2 = 1
      /\ 3 \in Bits(n) <=> d3 = 1
      /\ 4 \in Bits(n) <=> d4 = 1
      /\ 5 \in Bits(n) <=> d5 = 1
      /\ 6 \in Bits(n) <=> d6 = 1
  BY BitOf
<1>5. \A k \in Bits(n) : k \in 0..6
  <2> SUFFICES ASSUME NEW k \in Bits(n) PROVE k \in 0..6
    OBVIOUS
  <2>1. k \in 0..13
    BY DEF Bits
  <2>2. k \notin 7..13
    BY HighBits
  <2> QED
    BY <2>1, <2>2
<1>6. n = d0 + 2 * d1 + 4 * d2 + 8 * d3 + 16 * d4 + 32 * d5 + 64 * d6
  BY FromBits
<1>7. FieldValue(w, hi, lo) = b(0) + 2 * b(1) + 4 * b(2) + 8 * b(3)
          + 16 * b(4) + 32 * b(5) + 64 * b(6)
  BY FieldDigits
<1>8. /\ b(0) \in 0..1 /\ b(1) \in 0..1 /\ b(2) \in 0..1 /\ b(3) \in 0..1
      /\ b(4) \in 0..1 /\ b(5) \in 0..1 /\ b(6) \in 0..1
  BY <1>1
<1> HIDE DEF E, b, d0, d1, d2, d3, d4, d5, d6
<1>9. ASSUME E = Bits(n)
      PROVE  FieldValue(w, hi, lo) = n
  <2>1. /\ b(0) = d0 /\ b(1) = d1 /\ b(2) = d2 /\ b(3) = d3 /\ b(4) = d4
        /\ b(5) = d5 /\ b(6) = d6
    BY <1>1, <1>3, <1>4, <1>8, <1>9
  <2> QED
    BY <1>6, <1>7, <2>1
<1>10. ASSUME FieldValue(w, hi, lo) = n
       PROVE  E = Bits(n)
  <2>1. /\ b(0) = d0 /\ b(1) = d1 /\ b(2) = d2 /\ b(3) = d3 /\ b(4) = d4
        /\ b(5) = d5 /\ b(6) = d6
    <3> DEFINE b0 == b(0)
               b1 == b(1)
               b2 == b(2)
               b3 == b(3)
               b4 == b(4)
               b5 == b(5)
               b6 == b(6)
    <3>1. b0 + 2 * b1 + 4 * b2 + 8 * b3 + 16 * b4 + 32 * b5 + 64 * b6
          = d0 + 2 * d1 + 4 * d2 + 8 * d3 + 16 * d4 + 32 * d5 + 64 * d6
      BY <1>6, <1>7, <1>10, Zenon
    <3>2. /\ b0 \in 0..1 /\ b1 \in 0..1 /\ b2 \in 0..1 /\ b3 \in 0..1
          /\ b4 \in 0..1 /\ b5 \in 0..1 /\ b6 \in 0..1
      BY <1>8
    <3> HIDE DEF b0, b1, b2, b3, b4, b5, b6
    <3>3. /\ b0 = d0 /\ b1 = d1 /\ b2 = d2 /\ b3 = d3 /\ b4 = d4
          /\ b5 = d5 /\ b6 = d6
      BY <1>3, <3>1, <3>2
    <3> QED
      BY <3>3 DEF b0, b1, b2, b3, b4, b5, b6
  <2>2. \A k \in 0..6 : k \in E <=> k \in Bits(n)
    BY <1>1, <1>4, <2>1
  <2> QED
    BY <1>2, <1>5, <2>2
<1> QED
  BY <1>9, <1>10 DEF E

(* The numbers in the fields that tell one instruction from another. *)
Major(w)  == FieldValue(w, 6, 0)
Funct3(w) == FieldValue(w, 14, 12)
Funct7(w) == FieldValue(w, 31, 25)
RdNum(w)  == FieldValue(w, 11, 7)
Rs1Num(w) == FieldValue(w, 19, 15)

LEMMA Numbers ==
    ASSUME NEW w, NEW n \in 0..127
    PROVE  /\ Extract(w, FieldOf.opcode) = Bits(n) <=> Major(w) = n
           /\ Extract(w, FieldOf.func3) = Bits(n) <=> Funct3(w) = n
           /\ Extract(w, FieldOf.func7) = Bits(n) <=> Funct7(w) = n
           /\ Extract(w, FieldOf.rd) = Bits(n) <=> RdNum(w) = n
           /\ Extract(w, FieldOf.rs1) = Bits(n) <=> Rs1Num(w) = n
<1>1. Extract(w, Field(6, 0)) = Bits(n) <=> FieldValue(w, 6, 0) = n
  BY FieldNumber
<1>2. Extract(w, Field(14, 12)) = Bits(n) <=> FieldValue(w, 14, 12) = n
  BY FieldNumber
<1>3. Extract(w, Field(31, 25)) = Bits(n) <=> FieldValue(w, 31, 25) = n
  BY FieldNumber
<1>4. Extract(w, Field(11, 7)) = Bits(n) <=> FieldValue(w, 11, 7) = n
  BY FieldNumber
<1>5. Extract(w, Field(19, 15)) = Bits(n) <=> FieldValue(w, 19, 15) = n
  BY FieldNumber
<1>6. /\ FieldOf.opcode = Field(6, 0) /\ FieldOf.func3 = Field(14, 12)
      /\ FieldOf.func7 = Field(31, 25) /\ FieldOf.rd = Field(11, 7)
      /\ FieldOf.rs1 = Field(19, 15)
  BY DEF FieldOf, opcode_field, func3_field, func7_field, rd_field, rs1_field
<1> QED
  BY <1>1, <1>2, <1>3, <1>4, <1>5, <1>6
  DEF Major, Funct3, Funct7, RdNum, Rs1Num

LEMMA Funct3Range ==
    ASSUME NEW w
    PROVE  Funct3(w) \in 0..7
<1>1. /\ Digit(w, 14, 12, 0) \in 0..1 /\ Digit(w, 14, 12, 1) \in 0..1
      /\ Digit(w, 14, 12, 2) \in 0..1 /\ Digit(w, 14, 12, 3) = 0
      /\ Digit(w, 14, 12, 4) = 0 /\ Digit(w, 14, 12, 5) = 0
      /\ Digit(w, 14, 12, 6) = 0
  BY DEF Digit
<1> QED
  BY <1>1, FieldDigits DEF Funct3

-----------------------------------------------------------------------------
(* Opcodes.  What the entries of the instruction group say in numbers. *)
Holds(w, f, n) == Extract(w, FieldOf[f]) = Bits(n)

LEMMA MatchCsr ==
    ASSUME NEW w
    PROVE  /\ Matches("csrw_nr", w) <=> /\ Funct3(w) = 1 /\ RdNum(w) = 0
                                        /\ Major(w) = 115
           /\ Matches("csrs_nw", w) <=> /\ Funct3(w) = 2 /\ Rs1Num(w) = 0
                                        /\ Major(w) = 115
<1>1. Matches("csrw_nr", w) <=> /\ Extract(w, FieldOf["func3"]) = Bits(1)
                                /\ Extract(w, FieldOf["rd"]) = Bits(0)
                                /\ Extract(w, FieldOf["opcode"]) = Bits(115)
  BY SystemRows DEF Matches
<1>2. Matches("csrs_nw", w) <=> /\ Extract(w, FieldOf["func3"]) = Bits(2)
                                /\ Extract(w, FieldOf["rs1"]) = Bits(0)
                                /\ Extract(w, FieldOf["opcode"]) = Bits(115)
  BY SystemRows DEF Matches
<1> QED
  BY <1>1, <1>2, Numbers

Ebreak == {0, 1, 4, 5, 6, 20}

LEMMA MatchEbreak ==
    ASSUME NEW w \in Word
    PROVE  /\ Matches("ebreak", w) <=> w = Ebreak
           /\ w = Ebreak => Major(w) = 115 /\ Funct3(w) = 0
<1>1. Matches("ebreak", w) <=> /\ Extract(w, Field(31, 7)) = Bits(8192)
                               /\ Major(w) = 115
  <2>1. Matches("ebreak", w) <=> /\ Extract(w, FieldOf["bits"]) = Bits(8192)
                                 /\ Extract(w, FieldOf["opcode"]) = Bits(115)
    BY SystemRows DEF Matches
  <2>2. FieldOf["bits"] = Field(31, 7)
    BY DEF FieldOf, bits_field
  <2> QED
    BY <2>1, <2>2, Numbers
<1>2. Bits(8192) = {13}
  BY DEF Bits, Powers
<1>3. Extract(w, Field(31, 7)) = Bits(8192) <=> w \cap (7..31) = {20}
  <2>1. \A j : j \in Extract(w, Field(31, 7)) <=> j \in 0..24 /\ j + 7 \in w
    BY FieldBit
  <2>2. ASSUME Extract(w, Field(31, 7)) = {13}
        PROVE  w \cap (7..31) = {20}
    <3>1. \A k \in 7..31 : k - 7 \in 0..24 /\ (k - 7) + 7 = k
      OBVIOUS
    <3>2. \A k \in 7..31 : k \in w <=> k - 7 = 13
      BY <2>1, <2>2, <3>1
    <3>3. \A k \in 7..31 : k \in w <=> k = 20
      BY <3>2
    <3> QED
      BY <3>3
  <2>3. ASSUME w \cap (7..31) = {20}
        PROVE  Extract(w, Field(31, 7)) = {13}
    <3>1. \A j \in 0..24 : j + 7 \in w <=> j = 13
      BY <2>3
    <3> QED
      BY <2>1, <3>1
  <2> QED
    BY <1>2, <2>2, <2>3
<1>4. Major(w) = 115 <=> w \cap (0..6) = {0, 1, 4, 5, 6}
  BY DEF Major, FieldValue
<1>5. w = Ebreak <=> w \cap (0..6) = {0, 1, 4, 5, 6} /\ w \cap (7..31) = {20}
  <2>1. \A k : k \in w => k \in 0..6 \/ k \in 7..31
    BY DEF Word
  <2>2. w = (w \cap (0..6)) \cup (w \cap (7..31))
    BY <2>1
  <2>3. Ebreak \cap (0..6) = {0, 1, 4, 5, 6} /\ Ebreak \cap (7..31) = {20}
    BY DEF Ebreak
  <2>4. Ebreak = {0, 1, 4, 5, 6} \cup {20}
    BY DEF Ebreak
  <2> QED
    BY <2>2, <2>3, <2>4, Zenon
<1>6. w = Ebreak => Funct3(w) = 0
  BY DEF Funct3, FieldValue, Ebreak
<1> QED
  BY <1>1, <1>3, <1>4, <1>5, <1>6

Ecall == {0, 1, 4, 5, 6}

LEMMA EcallWord ==
    ASSUME NEW w, w = Ecall
    PROVE  Major(w) = 115 /\ Funct3(w) = 0 /\ w # Ebreak
<1>1. Major(w) = 115
  BY DEF Major, FieldValue, Ecall
<1>2. Funct3(w) = 0
  BY DEF Funct3, FieldValue, Ecall
<1>3. w # Ebreak
  BY DEF Ecall, Ebreak
<1> QED
  BY <1>1, <1>2, <1>3

(* The mnemonic that the manual gives a word, by its major opcode. *)
LEMMA MnemonicBy ==
    ASSUME NEW w \in Word
    PROVE  /\ Major(w) = 3  => Mnemonic(w) = LOAD[Funct3(w) + 1]
           /\ Major(w) = 35 => Mnemonic(w) = STORE[Funct3(w) + 1]
           /\ Major(w) = 99 => Mnemonic(w) = BRANCH[Funct3(w) + 1]
           /\ Major(w) = 19 =>
                  Mnemonic(w) =
                      IF Funct3(w) \notin {1, 5} \/ Funct7(w) = 0
                      THEN OPIMM[Funct3(w) + 1]
                      ELSE IF Funct7(w) = 32 /\ Funct3(w) = 5 THEN "srai"
                      ELSE "none"
           /\ Major(w) = 51 =>
                  Mnemonic(w) =
                      IF Funct7(w) = 0 THEN OP[Funct3(w) + 1]
                      ELSE IF Funct7(w) = 32 /\ Funct3(w) = 0 THEN "sub"
                      ELSE IF Funct7(w) = 32 /\ Funct3(w) = 5 THEN "sra"
                      ELSE "none"
           /\ Major(w) = 55 => Mnemonic(w) = "lui"
           /\ Major(w) = 23 => Mnemonic(w) = "auipc"
           /\ Major(w) = 111 => Mnemonic(w) = "jal"
           /\ Major(w) = 103 =>
                  Mnemonic(w) = IF Funct3(w) = 0 THEN "jalr" ELSE "none"
           /\ Major(w) = 15 =>
                  Mnemonic(w) = IF Funct3(w) = 0 THEN "fence"
                                ELSE IF Funct3(w) = 1 THEN "fence.i"
                                ELSE "none"
           /\ Major(w) = 115 =>
                  Mnemonic(w) =
                      IF Funct3(w) # 0 THEN SYSTEM[Funct3(w) + 1]
                      ELSE IF w = Ecall THEN "ecall"
                      ELSE IF w = Ebreak THEN "ebreak"
                      ELSE "none"
           /\ Major(w) \notin {3, 35, 99, 19, 51, 55, 23, 111, 103, 15, 115} =>
                  Mnemonic(w) = "none"
<1> DEFINE major == Major(w)
           funct3 == Funct3(w)
           funct7 == Funct7(w)
<1>1. Mnemonic(w) =
          CASE major = 3  -> LOAD[funct3 + 1]
            [] major = 35 -> STORE[funct3 + 1]
            [] major = 99 -> BRANCH[funct3 + 1]
            [] major = 19 /\ ~(major = 19 /\ funct3 \in {1, 5}) ->
                   OPIMM[funct3 + 1]
            [] (major = 19 /\ funct3 \in {1, 5}) /\ funct7 = 0 ->
                   OPIMM[funct3 + 1]
            [] (major = 19 /\ funct3 \in {1, 5}) /\ funct7 = 32 /\ funct3 = 5 ->
                   "srai"
            [] major = 51 /\ funct7 = 0 -> OP[funct3 + 1]
            [] major = 51 /\ funct7 = 32 /\ funct3 = 0 -> "sub"
            [] major = 51 /\ funct7 = 32 /\ funct3 = 5 -> "sra"
            [] major = 55 -> "lui"
            [] major = 23 -> "auipc"
            [] major = 111 -> "jal"
            [] major = 103 /\ funct3 = 0 -> "jalr"
            [] major = 15 /\ funct3 = 0 -> "fence"
            [] major = 15 /\ funct3 = 1 -> "fence.i"
            [] major = 115 /\ funct3 # 0 -> SYSTEM[funct3 + 1]
            [] w = Ecall -> "ecall"
            [] w = Ebreak -> "ebreak"
            [] OTHER -> "none"
  BY Zenon DEF Mnemonic, Major, Funct3, Funct7, Ecall, Ebreak
<1>2. /\ w = Ebreak => major = 115 /\ funct3 = 0
      /\ w = Ecall => major = 115 /\ funct3 = 0 /\ w # Ebreak
  BY MatchEbreak, EcallWord
<1> HIDE DEF major, funct3, funct7
<1>3. major = 3  => Mnemonic(w) = LOAD[funct3 + 1]
  BY <1>1, <1>2
<1>4. major = 35 => Mnemonic(w) = STORE[funct3 + 1]
  BY <1>1, <1>2
<1>5. major = 99 => Mnemonic(w) = BRANCH[funct3 + 1]
  BY <1>1, <1>2
<1>6. major = 19 =>
          Mnemonic(w) = IF funct3 \notin {1, 5} \/ funct7 = 0
                        THEN OPIMM[funct3 + 1]
                        ELSE IF funct7 = 32 /\ funct3 = 5 THEN "srai"
                        ELSE "none"
  BY <1>1, <1>2
<1>7. major = 51 =>
          Mnemonic(w) = IF funct7 = 0 THEN OP[funct3 + 1]
                        ELSE IF funct7 = 32 /\ funct3 = 0 THEN "sub"
                        ELSE IF funct7 = 32 /\ funct3 = 5 THEN "sra"
                        ELSE "none"
  BY <1>1, <1>2
<1>8. /\ major = 55 => Mnemonic(w) = "lui"
      /\ major = 23 => Mnemonic(w) = "auipc"
      /\ major = 111 => Mnemonic(w) = "jal"
  BY <1>1, <1>2
<1>9. /\ major = 103 => Mnemonic(w) = IF funct3 = 0 THEN "jalr" ELSE "none"
      /\ major = 15 => Mnemonic(w) = IF funct3 = 0 THEN "fence"
                                     ELSE IF funct3 = 1 THEN "fence.i"
                                     ELSE "none"
  BY <1>1, <1>2
<1>10. major = 115 =>
           Mnemonic(w) = IF funct3 # 0 THEN SYSTEM[funct3 + 1]
                         ELSE IF w = Ecall THEN "ecall"
                         ELSE IF w = Ebreak THEN "ebreak"
                         ELSE "none"
  BY <1>1, <1>2
<1>11. major \notin {3, 35, 99, 19, 51, 55, 23, 111, 103, 15, 115} =>
           Mnemonic(w) = "none"
  BY <1>1, <1>2
<1> QED
  BY <1>3, <1>4, <1>5, <1>6, <1>7, <1>8, <1>9, <1>10, <1>11
  DEF major, funct3, funct7

(* The tables OPIMM and OP without the instructions of Unimplemented. *)
OpImmLeft ==
    <<"addi", "slli", "none", "none", "xori", "srli", "ori", "andi">>
OpLeft == <<"add", "sll", "none", "sltu", "xor", "none", "or", "and">>

LEMMA TablesLeft ==
    ASSUME NEW f \in 0..7
    PROVE  /\ OPIMM[f + 1] \in Unimplemented => OpImmLeft[f + 1] = "none"
           /\ OPIMM[f + 1] \notin Unimplemented => OpImmLeft[f + 1] = OPIMM[f + 1]
           /\ OP[f + 1] \in Unimplemented => OpLeft[f + 1] = "none"
           /\ OP[f + 1] \notin Unimplemented => OpLeft[f + 1] = OP[f + 1]
           /\ LOAD[f + 1] \notin Unimplemented \cup {"csrrw", "csrrs"}
           /\ STORE[f + 1] \notin Unimplemented \cup {"csrrw", "csrrs"}
           /\ BRANCH[f + 1] \notin Unimplemented \cup {"csrrw", "csrrs"}
           /\ OPIMM[f + 1] \notin {"csrrw", "csrrs"}
           /\ OP[f + 1] \notin {"csrrw", "csrrs"}
<1>1. f \in {0, 1, 2, 3, 4, 5, 6, 7}
  OBVIOUS
<1>2. /\ OPIMM[f + 1] \in Unimplemented => OpImmLeft[f + 1] = "none"
      /\ OPIMM[f + 1] \notin Unimplemented => OpImmLeft[f + 1] = OPIMM[f + 1]
      /\ OPIMM[f + 1] \notin {"csrrw", "csrrs"}
  BY <1>1 DEF OPIMM, OpImmLeft, Unimplemented
<1>3. /\ OP[f + 1] \in Unimplemented => OpLeft[f + 1] = "none"
      /\ OP[f + 1] \notin Unimplemented => OpLeft[f + 1] = OP[f + 1]
      /\ OP[f + 1] \notin {"csrrw", "csrrs"}
  BY <1>1 DEF OP, OpLeft, Unimplemented
<1>4. LOAD[f + 1] \notin Unimplemented \cup {"csrrw", "csrrs"}
  BY <1>1 DEF LOAD, Unimplemented
<1>5. STORE[f + 1] \notin Unimplemented \cup {"csrrw", "csrrs"}
  BY <1>1 DEF STORE, Unimplemented
<1>6. BRANCH[f + 1] \notin Unimplemented \cup {"csrrw", "csrrs"}
  BY <1>1 DEF BRANCH, Unimplemented
<1> QED
  BY <1>2, <1>3, <1>4, <1>5, <1>6

(* The opcode of a word that the manual and the list of missing            *)
(* instructions leave the simulator.                                       *)
LEMMA SpecifiedBy ==
    ASSUME NEW w \in Word
    PROVE  /\ Major(w) = 3  => Specified(w) = LOAD[Funct3(w) + 1]
           /\ Major(w) = 35 => Specified(w) = STORE[Funct3(w) + 1]
           /\ Major(w) = 99 => Specified(w) = BRANCH[Funct3(w) + 1]
           /\ Major(w) = 19 =>
                  Specified(w) =
                      IF Funct3(w) \notin {1, 5} \/ Funct7(w) = 0
                      THEN OpImmLeft[Funct3(w) + 1]
                      ELSE IF Funct7(w) = 32 /\ Funct3(w) = 5 THEN "srai"
                      ELSE "none"
           /\ Major(w) = 51 =>
                  Specified(w) =
                      IF Funct7(w) = 0 THEN OpLeft[Funct3(w) + 1]
                      ELSE IF Funct7(w) = 32 /\ Funct3(w) = 0 THEN "sub"
                      ELSE "none"
           /\ Major(w) = 55 => Specified(w) = "lui"
           /\ Major(w) = 23 => Specified(w) = "auipc"
           /\ Major(w) = 111 => Specified(w) = "jal"
           /\ Major(w) = 103 =>
                  Specified(w) = IF Funct3(w) = 0 THEN "jalr" ELSE "none"
           /\ Major(w) = 15 =>
                  Specified(w) = IF Funct3(w) = 0 THEN "fence" ELSE "none"
           /\ Major(w) = 115 =>
                  Specified(w) =
                      IF w = Ebreak THEN "ebreak"
                      ELSE IF Funct3(w) = 1 /\ RdNum(w) = 0 THEN "csrw_nr"
                      ELSE IF Funct3(w) = 2
                      THEN IF Rs1Num(w) = 0 THEN "csrs_nw" ELSE "csrs"
                      ELSE "none"
           /\ Major(w) \notin {3, 35, 99, 19, 51, 55, 23, 111, 103, 15, 115} =>
                  Specified(w) = "none"
<1> DEFINE m == Mnemonic(w)
           f == Funct3(w)
<1>1. Specified(w) =
          IF m = "csrrw" /\ RdNum(w) = 0 THEN "csrw_nr"
          ELSE IF m = "csrrs"
          THEN IF Rs1Num(w) = 0 THEN "csrs_nw" ELSE "csrs"
          ELSE IF m \in Unimplemented THEN "none" ELSE m
  BY DEF Specified, OpcodeName, RdNum, Rs1Num, Unimplemented
<1>2. f \in 0..7
  BY Funct3Range
<1>3. w = Ebreak => f = 0
  BY MatchEbreak
<1>4. w = Ecall => w # Ebreak
  BY EcallWord
<1> HIDE DEF m, f
<1>5. m \notin Unimplemented \cup {"csrrw", "csrrs"} => Specified(w) = m
  BY <1>1
<1>6. m \in Unimplemented \ {"csrrw"} => Specified(w) = "none"
  BY <1>1 DEF Unimplemented
<1>7. /\ Major(w) = 3  => Specified(w) = LOAD[f + 1]
      /\ Major(w) = 35 => Specified(w) = STORE[f + 1]
      /\ Major(w) = 99 => Specified(w) = BRANCH[f + 1]
  BY <1>2, <1>5, MnemonicBy, TablesLeft DEF m, f
<1>8. /\ "srai" \notin Unimplemented /\ "sub" \notin Unimplemented
      /\ "none" \notin Unimplemented /\ "sra" \in Unimplemented
      /\ "fence.i" \in Unimplemented /\ "fence" \notin Unimplemented
      /\ "jalr" \notin Unimplemented /\ "lui" \notin Unimplemented
      /\ "auipc" \notin Unimplemented /\ "jal" \notin Unimplemented
  BY DEF Unimplemented
<1>9. Major(w) = 19 =>
          Specified(w) = IF f \notin {1, 5} \/ Funct7(w) = 0
                         THEN OpImmLeft[f + 1]
                         ELSE IF Funct7(w) = 32 /\ f = 5 THEN "srai"
                         ELSE "none"
  <2> SUFFICES ASSUME Major(w) = 19
               PROVE  Specified(w) = IF f \notin {1, 5} \/ Funct7(w) = 0
                                     THEN OpImmLeft[f + 1]
                                     ELSE IF Funct7(w) = 32 /\ f = 5 THEN "srai"
                                     ELSE "none"
    OBVIOUS
  <2>1. CASE f \notin {1, 5} \/ Funct7(w) = 0
    <3>1. m = OPIMM[f + 1]
      BY <2>1, MnemonicBy DEF m, f
    <3> QED
      BY <1>1, <1>2, <2>1, <3>1, TablesLeft
  <2>2. CASE ~(f \notin {1, 5} \/ Funct7(w) = 0)
    <3>1. m = IF Funct7(w) = 32 /\ f = 5 THEN "srai" ELSE "none"
      BY <2>2, MnemonicBy DEF m, f
    <3> QED
      BY <1>1, <1>8, <2>2, <3>1
  <2> QED
    BY <2>1, <2>2
<1>10. Major(w) = 51 =>
           Specified(w) = IF Funct7(w) = 0 THEN OpLeft[f + 1]
                          ELSE IF Funct7(w) = 32 /\ f = 0 THEN "sub"
                          ELSE "none"
  <2> SUFFICES ASSUME Major(w) = 51
               PROVE  Specified(w) = IF Funct7(w) = 0 THEN OpLeft[f + 1]
                                     ELSE IF Funct7(w) = 32 /\ f = 0 THEN "sub"
                                     ELSE "none"
    OBVIOUS
  <2>1. CASE Funct7(w) = 0
    <3>1. m = OP[f + 1]
      BY <2>1, MnemonicBy DEF m, f
    <3> QED
      BY <1>1, <1>2, <2>1, <3>1, TablesLeft
  <2>2. CASE Funct7(w) # 0
    <3>1. m = IF Funct7(w) = 32 /\ f = 0 THEN "sub"
              ELSE IF Funct7(w) = 32 /\ f = 5 THEN "sra" ELSE "none"
      BY <2>2, MnemonicBy DEF m, f
    <3> QED
      BY <1>1, <1>8, <2>2, <3>1
  <2> QED
    BY <2>1, <2>2
<1>11. /\ Major(w) = 55 => Specified(w) = "lui"
       /\ Major(w) = 23 => Specified(w) = "auipc"
       /\ Major(w) = 111 => Specified(w) = "jal"
       /\ Major(w) \notin {3, 35, 99, 19, 51, 55, 23, 111, 103, 15, 115} =>
              Specified(w) = "none"
  BY <1>1, <1>8, MnemonicBy DEF m
<1>12. /\ Major(w) = 103 => Specified(w) = IF f = 0 THEN "jalr" ELSE "none"
       /\ Major(w) = 15 => Specified(w) = IF f = 0 THEN "fence" ELSE "none"
  BY <1>1, <1>8, MnemonicBy DEF m, f
<1>13. Major(w) = 115 =>
           Specified(w) =
               IF w = Ebreak THEN "ebreak"
               ELSE IF f = 1 /\ RdNum(w) = 0 THEN "csrw_nr"
               ELSE IF f = 2 THEN IF Rs1Num(w) = 0 THEN "csrs_nw" ELSE "csrs"
               ELSE "none"
  <2> SUFFICES ASSUME Major(w) = 115
               PROVE  Specified(w) =
                          IF w = Ebreak THEN "ebreak"
                          ELSE IF f = 1 /\ RdNum(w) = 0 THEN "csrw_nr"
                          ELSE IF f = 2
                          THEN IF Rs1Num(w) = 0 THEN "csrs_nw" ELSE "csrs"
                          ELSE "none"
    OBVIOUS
  <2>1. CASE f # 0
    <3>1. m = SYSTEM[f + 1]
      BY <2>1, MnemonicBy DEF m, f
    <3>2. w # Ebreak
      BY <1>3, <2>1
    <3>3. f \in {1, 2, 3, 4, 5, 6, 7}
      BY <1>2, <2>1
    <3>4. /\ f = 1 => m = "csrrw"
          /\ f = 2 => m = "csrrs"
          /\ f \in {3, 4, 5, 6, 7} => m \in {"csrrc", "none", "csrrwi", "csrrsi",
                                             "csrrci"}
      BY <3>1, <3>3 DEF SYSTEM
    <3>5. /\ "csrrw" \in Unimplemented
          /\ {"csrrc", "csrrwi", "csrrsi", "csrrci"} \subseteq Unimplemented
      BY DEF Unimplemented
    <3> QED
      BY <1>1, <3>2, <3>3, <3>4, <3>5
  <2>2. CASE f = 0
    <3>1. m = IF w = Ecall THEN "ecall"
              ELSE IF w = Ebreak THEN "ebreak" ELSE "none"
      BY <2>2, MnemonicBy DEF m, f
    <3>2. "ecall" \in Unimplemented /\ "ebreak" \notin Unimplemented
          /\ "none" \notin Unimplemented
      BY DEF Unimplemented
    <3> QED
      BY <1>1, <1>4, <2>2, <3>1, <3>2
  <2> QED
    BY <2>1, <2>2
<1> QED
  BY <1>7, <1>9, <1>10, <1>11, <1>12, <1>13 DEF f

(* The words of each entry of the instruction group. *)
LEMMA OpMatches ==
    ASSUME NEW w
    PROVE  /\ Matches("add", w) <=> Funct7(w) = 0 /\ Funct3(w) = 0 /\ Major(w) = 51
           /\ Matches("and", w) <=> Funct7(w) = 0 /\ Funct3(w) = 7 /\ Major(w) = 51
           /\ Matches("or", w) <=> Funct7(w) = 0 /\ Funct3(w) = 6 /\ Major(w) = 51
           /\ Matches("sll", w) <=> Funct7(w) = 0 /\ Funct3(w) = 1 /\ Major(w) = 51
           /\ Matches("sltu", w) <=> Funct7(w) = 0 /\ Funct3(w) = 3 /\ Major(w) = 51
           /\ Matches("sub", w) <=> Funct7(w) = 32 /\ Funct3(w) = 0 /\ Major(w) = 51
           /\ Matches("xor", w) <=> Funct7(w) = 0 /\ Funct3(w) = 4 /\ Major(w) = 51
<1>1. /\ Matches("add", w) <=> /\ Holds(w, "func7", 0) /\ Holds(w, "func3", 0)
                           /\ Holds(w, "opcode", 51)
      /\ Matches("and", w) <=> /\ Holds(w, "func7", 0) /\ Holds(w, "func3", 7)
                           /\ Holds(w, "opcode", 51)
      /\ Matches("or", w) <=> /\ Holds(w, "func7", 0) /\ Holds(w, "func3", 6)
                          /\ Holds(w, "opcode", 51)
      /\ Matches("sll", w) <=> /\ Holds(w, "func7", 0) /\ Holds(w, "func3", 1)
                           /\ Holds(w, "opcode", 51)
      /\ Matches("sltu", w) <=> /\ Holds(w, "func7", 0) /\ Holds(w, "func3", 3)
                            /\ Holds(w, "opcode", 51)
      /\ Matches("sub", w) <=> /\ Holds(w, "func7", 32) /\ Holds(w, "func3", 0)
                           /\ Holds(w, "opcode", 51)
      /\ Matches("xor", w) <=> /\ Holds(w, "func7", 0) /\ Holds(w, "func3", 4)
                           /\ Holds(w, "opcode", 51)
  BY OpRows DEF Matches, RType, Holds
<1> QED
  BY <1>1, Numbers DEF Holds

LEMMA ShiftMatches ==
    ASSUME NEW w
    PROVE  /\ Matches("slli", w) <=> Funct7(w) = 0 /\ Funct3(w) = 1 /\ Major(w) = 19
           /\ Matches("srai", w) <=> Funct7(w) = 32 /\ Funct3(w) = 5 /\ Major(w) = 19
           /\ Matches("srli", w) <=> Funct7(w) = 0 /\ Funct3(w) = 5 /\ Major(w) = 19
<1>1. /\ Matches("slli", w) <=> /\ Holds(w, "func7", 0) /\ Holds(w, "func3", 1)
                            /\ Holds(w, "opcode", 19)
      /\ Matches("srai", w) <=> /\ Holds(w, "func7", 32) /\ Holds(w, "func3", 5)
                            /\ Holds(w, "opcode", 19)
      /\ Matches("srli", w) <=> /\ Holds(w, "func7", 0) /\ Holds(w, "func3", 5)
                            /\ Holds(w, "opcode", 19)
  BY OpImmRows DEF Matches, RType, Holds
<1> QED
  BY <1>1, Numbers DEF Holds

LEMMA OpImmMatches ==
    ASSUME NEW w
    PROVE  /\ Matches("addi", w) <=> Funct3(w) = 0 /\ Major(w) = 19
           /\ Matches("andi", w) <=> Funct3(w) = 7 /\ Major(w) = 19
           /\ Matches("ori", w) <=> Funct3(w) = 6 /\ Major(w) = 19
           /\ Matches("xori", w) <=> Funct3(w) = 4 /\ Major(w) = 19
<1>1. /\ Matches("addi", w) <=> Holds(w, "func3", 0) /\ Holds(w, "opcode", 19)
      /\ Matches("andi", w) <=> Holds(w, "func3", 7) /\ Holds(w, "opcode", 19)
      /\ Matches("ori", w) <=> Holds(w, "func3", 6) /\ Holds(w, "opcode", 19)
      /\ Matches("xori", w) <=> Holds(w, "func3", 4) /\ Holds(w, "opcode", 19)
  BY OpImmRows DEF Matches, Other, Holds
<1> QED
  BY <1>1, Numbers DEF Holds

LEMMA BranchMatches ==
    ASSUME NEW w
    PROVE  /\ Matches("beq", w) <=> Funct3(w) = 0 /\ Major(w) = 99
           /\ Matches("bge", w) <=> Funct3(w) = 5 /\ Major(w) = 99
           /\ Matches("bgeu", w) <=> Funct3(w) = 7 /\ Major(w) = 99
           /\ Matches("blt", w) <=> Funct3(w) = 4 /\ Major(w) = 99
           /\ Matches("bltu", w) <=> Funct3(w) = 6 /\ Major(w) = 99
           /\ Matches("bne", w) <=> Funct3(w) = 1 /\ Major(w) = 99
<1>1. /\ Matches("beq", w) <=> Holds(w, "func3", 0) /\ Holds(w, "opcode", 99)
      /\ Matches("bge", w) <=> Holds(w, "func3", 5) /\ Holds(w, "opcode", 99)
      /\ Matches("bgeu", w) <=> Holds(w, "func3", 7) /\ Holds(w, "opcode", 99)
      /\ Matches("blt", w) <=> Holds(w, "func3", 4) /\ Holds(w, "opcode", 99)
      /\ Matches("bltu", w) <=> Holds(w, "func3", 6) /\ Holds(w, "opcode", 99)
      /\ Matches("bne", w) <=> Holds(w, "func3", 1) /\ Holds(w, "opcode", 99)
  BY BranchRows DEF Matches, Other, Holds
<1> QED
  BY <1>1, Numbers DEF Holds

LEMMA StoreMatches ==
    ASSUME NEW w
    PROVE  /\ Matches("sb", w) <=> Funct3(w) = 0 /\ Major(w) = 35
           /\ Matches("sh", w) <=> Funct3(w) = 1 /\ Major(w) = 35
           /\ Matches("sw", w) <=> Funct3(w) = 2 /\ Major(w) = 35
<1>1. /\ Matches("sb", w) <=> Holds(w, "func3", 0) /\ Holds(w, "opcode", 35)
      /\ Matches("sh", w) <=> Holds(w, "func3", 1) /\ Holds(w, "opcode", 35)
      /\ Matches("sw", w) <=> Holds(w, "func3", 2) /\ Holds(w, "opcode", 35)
  BY StoreRows DEF Matches, Other, Holds
<1> QED
  BY <1>1, Numbers DEF Holds

LEMMA LoadMatches ==
    ASSUME NEW w
    PROVE  /\ Matches("lb", w) <=> Funct3(w) = 0 /\ Major(w) = 3
           /\ Matches("lbu", w) <=> Funct3(w) = 4 /\ Major(w) = 3
           /\ Matches("lh", w) <=> Funct3(w) = 1 /\ Major(w) = 3
           /\ Matches("lhu", w) <=> Funct3(w) = 5 /\ Major(w) = 3
           /\ Matches("lw", w) <=> Funct3(w) = 2 /\ Major(w) = 3
<1>1. /\ Matches("lb", w) <=> Holds(w, "func3", 0) /\ Holds(w, "opcode", 3)
      /\ Matches("lbu", w) <=> Holds(w, "func3", 4) /\ Holds(w, "opcode", 3)
      /\ Matches("lh", w) <=> Holds(w, "func3", 1) /\ Holds(w, "opcode", 3)
      /\ Matches("lhu", w) <=> Holds(w, "func3", 5) /\ Holds(w, "opcode", 3)
      /\ Matches("lw", w) <=> Holds(w, "func3", 2) /\ Holds(w, "opcode", 3)
  BY LoadRows DEF Matches, Other, Holds
<1> QED
  BY <1>1, Numbers DEF Holds

LEMMA OtherMatches ==
    ASSUME NEW w
    PROVE  /\ Matches("auipc", w) <=> Major(w) = 23
           /\ Matches("lui", w) <=> Major(w) = 55
           /\ Matches("jal", w) <=> Major(w) = 111
           /\ Matches("jalr", w) <=> Funct3(w) = 0 /\ Major(w) = 103
           /\ Matches("fence", w) <=> Funct3(w) = 0 /\ Major(w) = 15
<1>1. /\ Matches("auipc", w) <=> Holds(w, "opcode", 23)
      /\ Matches("lui", w) <=> Holds(w, "opcode", 55)
      /\ Matches("jal", w) <=> Holds(w, "opcode", 111)
      /\ Matches("jalr", w) <=> Holds(w, "func3", 0) /\ Holds(w, "opcode", 103)
      /\ Matches("fence", w) <=> Holds(w, "func3", 0) /\ Holds(w, "opcode", 15)
  BY OtherRows DEF Matches, UType, Other, Holds
<1> QED
  BY <1>1, Numbers DEF Holds

LEMMA CsrsMatches ==
    ASSUME NEW w
    PROVE  Matches("csrs", w) <=> Funct3(w) = 2 /\ Major(w) = 115 /\ Rs1Num(w) # 0
<1>1. Matches("csrs", w) <=> /\ Holds(w, "func3", 2) /\ Holds(w, "opcode", 115)
                             /\ Extract(w, FieldOf["rs1"]) # {}
  BY SystemRows DEF Matches, Other, Holds, FieldOf
<1>2. Bits(0) = {}
  BY DEF Bits, Powers
<1> QED
  BY <1>1, <1>2, Numbers DEF Holds

(* A word that is an instruction to the manual matches its entry. *)
LEMMA SpecifiedMatches ==
    ASSUME NEW w \in Word, Specified(w) # "none"
    PROVE  Specified(w) \in Opcode /\ Matches(Specified(w), w)
<1>1. CASE Major(w) = 51
  BY Funct3Range, <1>1, OpMatches, SpecifiedBy, OpcodeIs DEF OpLeft
<1>2. CASE Major(w) = 19
  BY Funct3Range, <1>2, ShiftMatches, OpImmMatches, SpecifiedBy, OpcodeIs
  DEF OpImmLeft
<1>3. CASE Major(w) = 99
  BY Funct3Range, <1>3, BranchMatches, SpecifiedBy, OpcodeIs DEF BRANCH
<1>4. CASE Major(w) = 35
  BY Funct3Range, <1>4, StoreMatches, SpecifiedBy, OpcodeIs DEF STORE
<1>5. CASE Major(w) = 3
  BY Funct3Range, <1>5, LoadMatches, SpecifiedBy, OpcodeIs DEF LOAD
<1>6. CASE Major(w) \in {55, 23, 111, 103, 15}
  BY <1>6, OtherMatches, SpecifiedBy, OpcodeIs
<1>7. CASE Major(w) = 115
  BY <1>7, MatchEbreak, CsrsMatches, MatchCsr, SpecifiedBy, OpcodeIs
<1> QED
  BY <1>1, <1>2, <1>3, <1>4, <1>5, <1>6, <1>7, SpecifiedBy

(* The decoder takes every word for what the manual takes it for. *)
LEMMA SameOpcode ==
    ASSUME NEW w \in Word
    PROVE  DecodeRiscVInst32(w) = Specified(w)
<1>1. ASSUME NEW o \in Opcode, Matches(o, w)
      PROVE  Specified(w) = o
  <2>1. CASE o \in {"add", "and", "or", "sll", "sltu", "sub", "xor"}
    BY <1>1, <2>1, OpMatches, SpecifiedBy DEF OpLeft
  <2>2. CASE o \in {"slli", "srai", "srli"}
    BY <1>1, <2>2, ShiftMatches, SpecifiedBy DEF OpImmLeft
  <2>3. CASE o \in {"addi", "andi", "ori", "xori"}
    BY <1>1, <2>3, OpImmMatches, SpecifiedBy DEF OpImmLeft
  <2>4. CASE o \in {"beq", "bge", "bgeu", "blt", "bltu", "bne"}
    BY <1>1, <2>4, BranchMatches, SpecifiedBy DEF BRANCH
  <2>5. CASE o \in {"sb", "sh", "sw"}
    BY <1>1, <2>5, StoreMatches, SpecifiedBy DEF STORE
  <2>6. CASE o \in {"lb", "lbu", "lh", "lhu", "lw"}
    BY <1>1, <2>6, LoadMatches, SpecifiedBy DEF LOAD
  <2>7. CASE o \in {"auipc", "lui", "jal", "jalr", "fence"}
    BY <1>1, <2>7, OtherMatches, SpecifiedBy
  <2>8. CASE o \in {"ebreak", "csrs", "csrw_nr", "csrs_nw"}
    BY <1>1, <2>8, MatchEbreak, CsrsMatches, MatchCsr, SpecifiedBy
  <2> QED
    BY <2>1, <2>2, <2>3, <2>4, <2>5, <2>6, <2>7, <2>8, OpcodeIs
<1>2. CASE Matching(w) = {}
  BY <1>2, SpecifiedMatches DEF Matching, DecodeRiscVInst32
<1>3. CASE Matching(w) # {}
  <2>1. DecodeRiscVInst32(w) \in Matching(w)
    BY <1>3 DEF DecodeRiscVInst32
  <2> QED
    BY <1>1, <2>1 DEF Matching
<1> QED
  BY <1>2, <1>3

-----------------------------------------------------------------------------
(* Immediates.  Joining the parts of an overlay. *)
Cat(s, t) == s \o t

Joined(c, s, t) ==
    /\ c \in Seq(Nat)
    /\ Len(c) = Len(s) + Len(t)
    /\ \A i \in 1..Len(s) : c[i] = s[i]
    /\ \A i \in 1..Len(t) : c[i + Len(s)] = t[i]

LEMMA CatIs ==
    ASSUME NEW s \in Seq(Nat), NEW t \in Seq(Nat)
    PROVE  Joined(Cat(s, t), s, t)
<1>1. /\ s \o t \in Seq(Nat) /\ Len(s \o t) = Len(s) + Len(t)
      /\ \A i \in 1..(Len(s) + Len(t)) :
             (s \o t)[i] = IF i <= Len(s) THEN s[i] ELSE t[i - Len(s)]
  BY ConcatProperties
<1>2. Len(s) \in Nat /\ Len(t) \in Nat
  BY LenProperties
<1>3. \A i \in 1..Len(s) : i \in 1..(Len(s) + Len(t)) /\ i <= Len(s)
  BY <1>2
<1>4. \A i \in 1..Len(t) : /\ i + Len(s) \in 1..(Len(s) + Len(t))
                           /\ ~(i + Len(s) <= Len(s))
                           /\ (i + Len(s)) - Len(s) = i
  BY <1>2
<1> QED
  BY <1>1, <1>3, <1>4 DEF Cat, Joined

(* Where each bit of an immediate operand comes from. *)
LEMMA SPositions ==
    /\ Len(s_imm) = 12 /\ DOMAIN s_imm = 1..12
    /\ \A j \in 0..11 : s_imm[12 - j] = IF j < 5 THEN j + 7 ELSE j + 20
<1> DEFINE hi7 == Field(31, 25)
           lo5 == Field(11, 7)
<1>1. hi7 \in Seq(Nat) /\ Len(hi7) = 7 /\ \A i \in 1..7 : hi7[i] = 32 - i
  BY DEF Field
<1>2. lo5 \in Seq(Nat) /\ Len(lo5) = 5 /\ \A i \in 1..5 : lo5[i] = 12 - i
  BY DEF Field
<1>3. s_imm = Cat(hi7, lo5)
  BY DEF s_imm, Cat
<1> HIDE DEF hi7, lo5
<1>4. Joined(s_imm, hi7, lo5)
  BY <1>1, <1>2, <1>3, CatIs
<1>5. /\ s_imm \in Seq(Nat) /\ Len(s_imm) = 12
      /\ \A i \in 1..7 : s_imm[i] = 32 - i
      /\ \A i \in 1..5 : s_imm[i + 7] = 12 - i
  BY <1>1, <1>2, <1>4 DEF Joined
<1>6. ASSUME NEW j \in 0..4
      PROVE  s_imm[12 - j] = j + 7
  <2>1. 5 - j \in 1..5 /\ (5 - j) + 7 = 12 - j /\ 12 - (5 - j) = j + 7
    OBVIOUS
  <2> QED
    BY <1>5, <2>1
<1>7. ASSUME NEW j \in 5..11
      PROVE  s_imm[12 - j] = j + 20
  <2>1. 12 - j \in 1..7 /\ 32 - (12 - j) = j + 20
    OBVIOUS
  <2> QED
    BY <1>5, <2>1
<1>8. DOMAIN s_imm = 1..12
  BY <1>5, LenProperties
<1> QED
  BY <1>5, <1>6, <1>7, <1>8

LEMMA UPositions ==
    /\ Len(uimm32) = 32 /\ DOMAIN uimm32 = 1..32
    /\ \A j \in 0..31 : uimm32[32 - j] = IF j < 12 THEN 32 ELSE j
<1> DEFINE top == Field(31, 12)
           low == [i \in 1..12 |-> Low]
<1>1. top \in Seq(Nat) /\ Len(top) = 20 /\ \A i \in 1..20 : top[i] = 32 - i
  BY DEF Field
<1>2. low \in Seq(Nat) /\ Len(low) = 12 /\ \A i \in 1..12 : low[i] = 32
  BY DEF Low
<1>3. uimm32 = Cat(top, low)
  BY DEF uimm32, Cat
<1> HIDE DEF top, low
<1>4. Joined(uimm32, top, low)
  BY <1>1, <1>2, <1>3, CatIs
<1>5. /\ uimm32 \in Seq(Nat) /\ Len(uimm32) = 32
      /\ \A i \in 1..20 : uimm32[i] = 32 - i
      /\ \A i \in 1..12 : uimm32[i + 20] = 32
  BY <1>1, <1>2, <1>4 DEF Joined
<1>6. ASSUME NEW j \in 0..11
      PROVE  uimm32[32 - j] = 32
  <2>1. 12 - j \in 1..12 /\ (12 - j) + 20 = 32 - j
    OBVIOUS
  <2> QED
    BY <1>5, <2>1
<1>7. ASSUME NEW j \in 12..31
      PROVE  uimm32[32 - j] = j
  <2>1. 32 - j \in 1..20 /\ 32 - (32 - j) = j
    OBVIOUS
  <2> QED
    BY <1>5, <2>1
<1>8. DOMAIN uimm32 = 1..32
  BY <1>5, LenProperties
<1> QED
  BY <1>5, <1>6, <1>7, <1>8

LEMMA BPositions ==
    /\ Len(b_imm) = 13 /\ DOMAIN b_imm = 1..13
    /\ \A j \in 0..12 : b_imm[13 - j] = IF j = 0 THEN 32
                                        ELSE IF j < 5 THEN j + 7
                                        ELSE IF j < 11 THEN j + 20
                                        ELSE IF j = 11 THEN 7 ELSE 31
<1> DEFINE imm7 == Field(31, 25)
           imm5 == Field(11, 7)
           a == Slice(imm7, 6, 6)
           b == Slice(imm5, 0, 0)
           c == Slice(imm7, 5, 0)
           d == Slice(imm5, 4, 1)
           ab == Cat(a, b)
           abc == Cat(ab, c)
           abcd == Cat(abc, d)
           z == <<Low>>
<1>1. /\ imm7 \in [1..7 -> Nat] /\ Len(imm7) = 7
      /\ \A i \in 1..7 : imm7[i] = 32 - i
  BY DEF Field
<1>2. /\ imm5 \in [1..5 -> Nat] /\ Len(imm5) = 5
      /\ \A i \in 1..5 : imm5[i] = 12 - i
  BY DEF Field
<1>3. b_imm = Cat(abcd, z)
  BY DEF b_imm, Cat
<1> HIDE DEF imm7, imm5
<1>4. a \in Seq(Nat) /\ Len(a) = 1 /\ \A i \in 1..1 : a[i] = 31
  BY <1>1 DEF Slice
<1>5. b \in Seq(Nat) /\ Len(b) = 1 /\ \A i \in 1..1 : b[i] = 7
  BY <1>2 DEF Slice
<1>6. c \in Seq(Nat) /\ Len(c) = 6 /\ \A i \in 1..6 : c[i] = 31 - i
  BY <1>1 DEF Slice
<1>7. d \in Seq(Nat) /\ Len(d) = 4 /\ \A i \in 1..4 : d[i] = 12 - i
  BY <1>2 DEF Slice
<1>8. z \in Seq(Nat) /\ Len(z) = 1 /\ \A i \in 1..1 : z[i] = 32
  BY DEF Low
<1> HIDE DEF a, b, c, d, z
<1>9. Joined(ab, a, b)
  BY <1>4, <1>5, CatIs
<1> HIDE DEF ab
<1>10. /\ ab \in Seq(Nat) /\ Len(ab) = 2
       /\ \A i \in 1..1 : ab[i] = 31
       /\ \A i \in 1..1 : ab[i + 1] = 7
  BY <1>4, <1>5, <1>9 DEF Joined
<1>11. Joined(abc, ab, c)
  BY <1>6, <1>10, CatIs
<1> HIDE DEF abc
<1>12. /\ abc \in Seq(Nat) /\ Len(abc) = 8
       /\ \A i \in 1..2 : abc[i] = ab[i]
       /\ \A i \in 1..6 : abc[i + 2] = 31 - i
  BY <1>6, <1>10, <1>11 DEF Joined
<1>13. Joined(abcd, abc, d)
  BY <1>7, <1>12, CatIs
<1> HIDE DEF abcd
<1>14. /\ abcd \in Seq(Nat) /\ Len(abcd) = 12
       /\ \A i \in 1..8 : abcd[i] = abc[i]
       /\ \A i \in 1..4 : abcd[i + 8] = 12 - i
  BY <1>7, <1>12, <1>13 DEF Joined
<1>15. Joined(b_imm, abcd, z)
  BY <1>3, <1>8, <1>14, CatIs
<1>16. /\ b_imm \in Seq(Nat) /\ Len(b_imm) = 13
       /\ \A i \in 1..12 : b_imm[i] = abcd[i]
       /\ \A i \in 1..1 : b_imm[i + 12] = 32
  BY <1>8, <1>14, <1>15 DEF Joined
<1>17. b_imm[13] = 32
  <2>1. 1 \in 1..1 /\ 1 + 12 = 13
    OBVIOUS
  <2> QED
    BY <1>16, <2>1
<1>18. b_imm[1] = 31 /\ b_imm[2] = 7
  <2>1. 1 \in 1..1 /\ 1 + 1 = 2 /\ 1 \in 1..12 /\ 2 \in 1..12 /\ 1 \in 1..8
        /\ 2 \in 1..8 /\ 1 \in 1..2 /\ 2 \in 1..2
    OBVIOUS
  <2> QED
    BY <1>10, <1>12, <1>14, <1>16, <2>1
<1>19. ASSUME NEW j \in 5..10
       PROVE  b_imm[13 - j] = j + 20
  <2>1. /\ 11 - j \in 1..6 /\ (11 - j) + 2 = 13 - j /\ 31 - (11 - j) = j + 20
        /\ 13 - j \in 1..8 /\ 13 - j \in 1..12
    OBVIOUS
  <2>2. abc[13 - j] = j + 20
    BY <1>12, <2>1
  <2>3. abcd[13 - j] = abc[13 - j] /\ b_imm[13 - j] = abcd[13 - j]
    BY <1>14, <1>16, <2>1
  <2> QED
    BY <2>2, <2>3
<1>20. ASSUME NEW j \in 1..4
       PROVE  b_imm[13 - j] = j + 7
  <2>1. /\ 5 - j \in 1..4 /\ (5 - j) + 8 = 13 - j /\ 12 - (5 - j) = j + 7
        /\ 13 - j \in 1..12
    OBVIOUS
  <2> QED
    BY <1>14, <1>16, <2>1
<1>21. DOMAIN b_imm = 1..13
  BY <1>16, LenProperties
<1> QED
  BY <1>16, <1>17, <1>18, <1>19, <1>20, <1>21

LEMMA JPositions ==
    /\ Len(j_imm) = 21 /\ DOMAIN j_imm = 1..21
    /\ \A j \in 0..20 : j_imm[21 - j] = IF j = 0 THEN 32
                                        ELSE IF j < 11 THEN j + 20
                                        ELSE IF j = 11 THEN 20
                                        ELSE IF j < 20 THEN j ELSE 31
<1> DEFINE imm20 == Field(31, 12)
           a == Slice(imm20, 19, 19)
           b == Slice(imm20, 7, 0)
           c == Slice(imm20, 8, 8)
           d == Slice(imm20, 18, 9)
           ab == Cat(a, b)
           abc == Cat(ab, c)
           abcd == Cat(abc, d)
           z == <<Low>>
<1>1. /\ imm20 \in [1..20 -> Nat] /\ Len(imm20) = 20
      /\ \A i \in 1..20 : imm20[i] = 32 - i
  BY DEF Field
<1>2. j_imm = Cat(abcd, z)
  BY DEF j_imm, Cat
<1> HIDE DEF imm20
<1>3. a \in Seq(Nat) /\ Len(a) = 1 /\ \A i \in 1..1 : a[i] = 31
  BY <1>1 DEF Slice
<1>4. b \in Seq(Nat) /\ Len(b) = 8 /\ \A i \in 1..8 : b[i] = 20 - i
  BY <1>1 DEF Slice
<1>5. c \in Seq(Nat) /\ Len(c) = 1 /\ \A i \in 1..1 : c[i] = 20
  BY <1>1 DEF Slice
<1>6. d \in Seq(Nat) /\ Len(d) = 10 /\ \A i \in 1..10 : d[i] = 31 - i
  BY <1>1 DEF Slice
<1>7. z \in Seq(Nat) /\ Len(z) = 1 /\ \A i \in 1..1 : z[i] = 32
  BY DEF Low
<1> HIDE DEF a, b, c, d, z
<1>8. Joined(ab, a, b)
  BY <1>3, <1>4, CatIs
<1> HIDE DEF ab
<1>9. /\ ab \in Seq(Nat) /\ Len(ab) = 9
      /\ \A i \in 1..1 : ab[i] = 31
      /\ \A i \in 1..8 : ab[i + 1] = 20 - i
  BY <1>3, <1>4, <1>8 DEF Joined
<1>10. Joined(abc, ab, c)
  BY <1>5, <1>9, CatIs
<1> HIDE DEF abc
<1>11. /\ abc \in Seq(Nat) /\ Len(abc) = 10
       /\ \A i \in 1..9 : abc[i] = ab[i]
       /\ \A i \in 1..1 : abc[i + 9] = 20
  BY <1>5, <1>9, <1>10 DEF Joined
<1>12. Joined(abcd, abc, d)
  BY <1>6, <1>11, CatIs
<1> HIDE DEF abcd
<1>13. /\ abcd \in Seq(Nat) /\ Len(abcd) = 20
       /\ \A i \in 1..10 : abcd[i] = abc[i]
       /\ \A i \in 1..10 : abcd[i + 10] = 31 - i
  BY <1>6, <1>11, <1>12 DEF Joined
<1>14. Joined(j_imm, abcd, z)
  BY <1>2, <1>7, <1>13, CatIs
<1>15. /\ j_imm \in Seq(Nat) /\ Len(j_imm) = 21
       /\ \A i \in 1..20 : j_imm[i] = abcd[i]
       /\ \A i \in 1..1 : j_imm[i + 20] = 32
  BY <1>7, <1>13, <1>14 DEF Joined
<1>16. j_imm[21] = 32
  <2>1. 1 \in 1..1 /\ 1 + 20 = 21
    OBVIOUS
  <2> QED
    BY <1>15, <2>1
<1>17. j_imm[1] = 31
  <2>1. 1 \in 1..1 /\ 1 \in 1..9 /\ 1 \in 1..10 /\ 1 \in 1..20
    OBVIOUS
  <2> QED
    BY <1>9, <1>11, <1>13, <1>15, <2>1
<1>18. j_imm[10] = 20
  <2>1. 1 \in 1..1 /\ 1 + 9 = 10 /\ 10 \in 1..10 /\ 10 \in 1..20
    OBVIOUS
  <2> QED
    BY <1>11, <1>13, <1>15, <2>1
<1>19. ASSUME NEW j \in 1..10
       PROVE  j_imm[21 - j] = j + 20
  <2>1. /\ 11 - j \in 1..10 /\ (11 - j) + 10 = 21 - j
        /\ 31 - (11 - j) = j + 20 /\ 21 - j \in 1..20
    OBVIOUS
  <2> QED
    BY <1>13, <1>15, <2>1
<1>20. ASSUME NEW j \in 12..19
       PROVE  j_imm[21 - j] = j
  <2>1. /\ 20 - j \in 1..8 /\ (20 - j) + 1 = 21 - j /\ 20 - (20 - j) = j
        /\ 21 - j \in 1..9 /\ 21 - j \in 1..10 /\ 21 - j \in 1..20
    OBVIOUS
  <2>2. ab[21 - j] = j
    BY <1>9, <2>1
  <2>3. abc[21 - j] = ab[21 - j]
    BY <1>11, <2>1
  <2>4. abcd[21 - j] = abc[21 - j] /\ j_imm[21 - j] = abcd[21 - j]
    BY <1>13, <1>15, <2>1
  <2> QED
    BY <2>2, <2>3, <2>4
<1>21. DOMAIN j_imm = 1..21
  BY <1>15, LenProperties
<1> QED
  BY <1>15, <1>16, <1>17, <1>18, <1>19, <1>20, <1>21

(* Bit k of a sign-extended operand of n bits. *)
LEMMA SignedBit ==
    ASSUME NEW w, NEW n \in 1..31, NEW f, Len(f) = n, DOMAIN f = 1..n, NEW k
    PROVE  k \in ExtractSigned(w, f) <=>
               \/ k \in 0..(n - 1) /\ f[n - k] \in w
               \/ k \in n..31 /\ f[1] \in w
<1>1. n - 1 \in Extract(w, f) <=> f[1] \in w
  <2>1. n - 1 \in Extract(w, f) <=> n - 1 \in 0..(n - 1) /\ f[n - (n - 1)] \in w
    BY ExtractBit
  <2>2. n - 1 \in 0..(n - 1) /\ n - (n - 1) = 1
    OBVIOUS
  <2> QED
    BY <2>1, <2>2
<1>2. k \in Extract(w, f) <=> k \in 0..(n - 1) /\ f[n - k] \in w
  <2>1. n \in Nat
    OBVIOUS
  <2> QED
    BY <2>1, ExtractBit, Zenon
<1>3. k \in ExtractSigned(w, f) <=>
          k \in Extract(w, f) \/ (n - 1 \in Extract(w, f) /\ k \in n..31)
  <2> HIDE DEF Extract
  <2> QED
    BY DEF ExtractSigned, SignExtend
<1> QED
  BY <1>1, <1>2, <1>3

LEMMA ImmediateBit ==
    ASSUME NEW w \in Word, NEW k
    PROVE  /\ k \in Immediate("I", w) <=> \/ k \in 0..10 /\ k + 20 \in w
                                          \/ k \in 11..31 /\ 31 \in w
           /\ k \in Immediate("S", w) <=> \/ k \in 0..4 /\ k + 7 \in w
                                          \/ k \in 5..10 /\ k + 20 \in w
                                          \/ k \in 11..31 /\ 31 \in w
           /\ k \in Immediate("B", w) <=> \/ k \in 1..4 /\ k + 7 \in w
                                          \/ k \in 5..10 /\ k + 20 \in w
                                          \/ k = 11 /\ 7 \in w
                                          \/ k \in 12..31 /\ 31 \in w
           /\ k \in Immediate("U", w) <=> \/ k \in 12..30 /\ k \in w
                                          \/ k = 31 /\ 31 \in w
           /\ k \in Immediate("J", w) <=> \/ k \in 1..10 /\ k + 20 \in w
                                          \/ k = 11 /\ 20 \in w
                                          \/ k \in 12..19 /\ k \in w
                                          \/ k \in 20..31 /\ 31 \in w
           /\ k \in Immediate("shamt", w) <=> k \in 0..4 /\ k + 20 \in w
<1>1. k \in Immediate("I", w) <=> \/ k \in 0..10 /\ k + 20 \in w
                                  \/ k \in 11..31 /\ 31 \in w
  BY DEF Immediate, ImmediateBits, TopBit
<1>2. k \in Immediate("S", w) <=> \/ k \in 0..4 /\ k + 7 \in w
                                  \/ k \in 5..10 /\ k + 20 \in w
                                  \/ k \in 11..31 /\ 31 \in w
  BY DEF Immediate, ImmediateBits, TopBit
<1>3. k \in Immediate("B", w) <=> \/ k \in 1..4 /\ k + 7 \in w
                                  \/ k \in 5..10 /\ k + 20 \in w
                                  \/ k = 11 /\ 7 \in w
                                  \/ k \in 12..31 /\ 31 \in w
  BY DEF Immediate, ImmediateBits, TopBit
<1>4. k \in Immediate("U", w) <=> \/ k \in 12..30 /\ k \in w
                                  \/ k = 31 /\ 31 \in w
  BY DEF Immediate, ImmediateBits, TopBit
<1>5. k \in Immediate("J", w) <=> \/ k \in 1..10 /\ k + 20 \in w
                                  \/ k = 11 /\ 20 \in w
                                  \/ k \in 12..19 /\ k \in w
                                  \/ k \in 20..31 /\ 31 \in w
  BY DEF Immediate, ImmediateBits, TopBit
<1>6. k \in Immediate("shamt", w) <=> k \in 0..4 /\ k + 20 \in w
  BY DEF Immediate, ImmediateBits, TopBit
<1> QED
  BY <1>1, <1>2, <1>3, <1>4, <1>5, <1>6

(* The value of each immediate operand is the manual's. *)
LEMMA SameImmediate ==
    ASSUME NEW w \in Word
    PROVE  /\ ExtractSigned(w, imm12) = Immediate("I", w)
           /\ ExtractSigned(w, s_imm) = Immediate("S", w)
           /\ ExtractSigned(w, b_imm) = Immediate("B", w)
           /\ Extract(w, uimm32) = Immediate("U", w)
           /\ ExtractSigned(w, j_imm) = Immediate("J", w)
           /\ Extract(w, uimm5) = Immediate("shamt", w)
<1>1. 32 \notin w
  BY DEF Word
<1>2. ASSUME NEW k
      PROVE  k \in ExtractSigned(w, imm12) <=> k \in Immediate("I", w)
  <2>1. /\ Len(imm12) = 12 /\ DOMAIN imm12 = 1..12
        /\ \A i \in 1..12 : imm12[i] = 32 - i
    BY DEF imm12, Field
  <2>2. k \in ExtractSigned(w, imm12) <=>
            \/ k \in 0..11 /\ imm12[12 - k] \in w
            \/ k \in 12..31 /\ imm12[1] \in w
    BY <2>1, SignedBit
  <2>3. imm12[1] = 31 /\ (k \in 0..11 => imm12[12 - k] = k + 20)
    BY <2>1
  <2> QED
    BY <2>2, <2>3, ImmediateBit
<1>3. ASSUME NEW k
      PROVE  k \in ExtractSigned(w, s_imm) <=> k \in Immediate("S", w)
  <2>1. k \in ExtractSigned(w, s_imm) <=>
            \/ k \in 0..11 /\ s_imm[12 - k] \in w
            \/ k \in 12..31 /\ s_imm[1] \in w
    BY SPositions, SignedBit
  <2>2. s_imm[1] = 31
    <3>1. 11 \in 0..11 /\ 12 - 11 = 1 /\ ~(11 < 5) /\ 11 + 20 = 31
      OBVIOUS
    <3> QED
      BY <3>1, SPositions
  <2>3. k \in 0..11 => s_imm[12 - k] = IF k < 5 THEN k + 7 ELSE k + 20
    BY SPositions
  <2> QED
    BY <2>1, <2>2, <2>3, ImmediateBit
<1>4. ASSUME NEW k
      PROVE  k \in ExtractSigned(w, b_imm) <=> k \in Immediate("B", w)
  <2>1. k \in ExtractSigned(w, b_imm) <=>
            \/ k \in 0..12 /\ b_imm[13 - k] \in w
            \/ k \in 13..31 /\ b_imm[1] \in w
    BY BPositions, SignedBit
  <2>2. b_imm[1] = 31
    <3>1. 12 \in 0..12 /\ 13 - 12 = 1
      OBVIOUS
    <3> QED
      BY <3>1, BPositions
  <2>3. k \in 0..12 => b_imm[13 - k] = IF k = 0 THEN 32
                                       ELSE IF k < 5 THEN k + 7
                                       ELSE IF k < 11 THEN k + 20
                                       ELSE IF k = 11 THEN 7 ELSE 31
    BY BPositions
  <2> QED
    BY <1>1, <2>1, <2>2, <2>3, ImmediateBit
<1>5. ASSUME NEW k
      PROVE  k \in Extract(w, uimm32) <=> k \in Immediate("U", w)
  <2>1. k \in Extract(w, uimm32) <=> k \in 0..31 /\ uimm32[32 - k] \in w
    <3>1. 32 \in Nat /\ 32 - 1 = 31
      OBVIOUS
    <3>2. k \in Extract(w, uimm32) <=>
              k \in 0..(32 - 1) /\ uimm32[32 - k] \in w
      BY <3>1, UPositions, ExtractBit, Zenon
    <3> QED
      BY <3>1, <3>2
  <2>2. k \in 0..31 => uimm32[32 - k] = IF k < 12 THEN 32 ELSE k
    BY UPositions
  <2> QED
    BY <1>1, <2>1, <2>2, ImmediateBit
<1>6. ASSUME NEW k
      PROVE  k \in ExtractSigned(w, j_imm) <=> k \in Immediate("J", w)
  <2>1. k \in ExtractSigned(w, j_imm) <=>
            \/ k \in 0..20 /\ j_imm[21 - k] \in w
            \/ k \in 21..31 /\ j_imm[1] \in w
    BY JPositions, SignedBit
  <2>2. j_imm[1] = 31
    <3>1. 20 \in 0..20 /\ 21 - 20 = 1
      OBVIOUS
    <3> QED
      BY <3>1, JPositions
  <2>3. k \in 0..20 => j_imm[21 - k] = IF k = 0 THEN 32
                                       ELSE IF k < 11 THEN k + 20
                                       ELSE IF k = 11 THEN 20
                                       ELSE IF k < 20 THEN k ELSE 31
    BY JPositions
  <2> QED
    BY <1>1, <2>1, <2>2, <2>3, ImmediateBit
<1>7. ASSUME NEW k
      PROVE  k \in Extract(w, uimm5) <=> k \in Immediate("shamt", w)
  <2>1. uimm5 = Field(24, 20)
    BY DEF uimm5, rs2_field
  <2>2. k \in Extract(w, uimm5) <=> k \in 0..4 /\ k + 20 \in w
    BY <2>1, FieldBit
  <2> QED
    BY <2>2, ImmediateBit
<1> HIDE DEF ExtractSigned, Extract, Immediate
<1> QED
  BY <1>2, <1>3, <1>4, <1>5, <1>6, <1>7

-----------------------------------------------------------------------------
(* Operands.  What one operand adds to the registers and the immediates of *)
(* its instruction.                                                        *)
RegPart(x) == IF x[1] = "x" THEN {x[2]} ELSE {}
ImmPart(x) == IF x[1] = "imm" THEN {x[2]} ELSE {}

ImmediatesOf(operands) ==
    {operands[i][2] : i \in {k \in DOMAIN operands : operands[k][1] = "imm"}}

LEMMA PartsOf ==
    ASSUME NEW a, NEW b
    PROVE  /\ RegistersOf(<< >>) = {} /\ ImmediatesOf(<< >>) = {}
           /\ RegistersOf(<<a>>) = RegPart(a)
           /\ ImmediatesOf(<<a>>) = ImmPart(a)
           /\ RegistersOf(<<a, b>>) = RegPart(a) \cup RegPart(b)
           /\ ImmediatesOf(<<a, b>>) = ImmPart(a) \cup ImmPart(b)
<1>1. RegistersOf(<< >>) = {} /\ ImmediatesOf(<< >>) = {}
  BY DEF RegistersOf, ImmediatesOf
<1>2. RegistersOf(<<a>>) = RegPart(a)
  BY DEF RegistersOf, RegPart
<1>3. ImmediatesOf(<<a>>) = ImmPart(a)
  BY DEF ImmediatesOf, ImmPart
<1>4. RegistersOf(<<a, b>>) = RegPart(a) \cup RegPart(b)
  BY DEF RegistersOf, RegPart
<1>5. ImmediatesOf(<<a, b>>) = ImmPart(a) \cup ImmPart(b)
  BY DEF ImmediatesOf, ImmPart
<1> QED
  BY <1>1, <1>2, <1>3, <1>4, <1>5

LEMMA PartsOfThree ==
    ASSUME NEW a, NEW b, NEW c
    PROVE  /\ RegistersOf(<<a, b, c>>) =
                  RegPart(a) \cup RegPart(b) \cup RegPart(c)
           /\ ImmediatesOf(<<a, b, c>>) =
                  ImmPart(a) \cup ImmPart(b) \cup ImmPart(c)
<1>1. RegistersOf(<<a, b, c>>) = RegPart(a) \cup RegPart(b) \cup RegPart(c)
  BY DEF RegistersOf, RegPart
<1>2. ImmediatesOf(<<a, b, c>>) = ImmPart(a) \cup ImmPart(b) \cup ImmPart(c)
  BY DEF ImmediatesOf, ImmPart
<1> QED
  BY <1>1, <1>2

LEMMA RegisterField ==
    ASSUME NEW w \in Word, NEW hi \in 0..31, NEW lo \in 0..31, lo <= hi
    PROVE  FieldIsRegister(w, hi, lo) = {Extract(w, Field(hi, lo))} \ {{}}
<1> DEFINE R == {k - lo : k \in w \cap (lo..hi)}
<1>1. ASSUME NEW j
      PROVE  j \in R <=> j \in Extract(w, Field(hi, lo))
  <2>1. j \in Extract(w, Field(hi, lo)) <=> j \in 0..(hi - lo) /\ j + lo \in w
    BY FieldBit
  <2>2. ASSUME j \in R PROVE j \in 0..(hi - lo) /\ j + lo \in w
    BY <2>2
  <2>3. ASSUME j \in 0..(hi - lo), j + lo \in w PROVE j \in R
    <3>1. j + lo \in lo..hi /\ (j + lo) - lo = j
      BY <2>3
    <3> QED
      BY <2>3, <3>1
  <2> QED
    BY <2>1, <2>2, <2>3
<1> HIDE DEF R
<1>2. R = Extract(w, Field(hi, lo))
  <2> HIDE DEF Extract
  <2> QED
    BY <1>1
<1>3. FieldIsRegister(w, hi, lo) = {R} \ {{}}
  BY DEF FieldIsRegister, R
<1> QED
  BY <1>2, <1>3

LEMMA RegisterParts ==
    ASSUME NEW w \in Word
    PROVE  /\ RegPart(GetSource("rs1", w)) = FieldIsRegister(w, 19, 15)
           /\ ImmPart(GetSource("rs1", w)) = {}
           /\ RegPart(GetSource("rs2", w)) = FieldIsRegister(w, 24, 20)
           /\ ImmPart(GetSource("rs2", w)) = {}
           /\ RegPart(GetSource("csr", w)) = {}
           /\ ImmPart(GetSource("csr", w)) = {}
           /\ RegPart(GetDestination("rd", w)) = FieldIsRegister(w, 11, 7)
           /\ RegPart(GetDestination("next_pc", w)) = {}
           /\ RegPart(GetDestination("csr", w)) = {}
<1>1. ASSUME NEW f, NEW z \in {"zero", "null"}
      PROVE  /\ RegPart(XReg(w, f, z)) = {Extract(w, f)} \ {{}}
             /\ ImmPart(XReg(w, f, z)) = {}
  <2> DEFINE E == Extract(w, f)
  <2> HIDE DEF E
  <2>1. XReg(w, f, z) = IF E = {} THEN <<z>> ELSE <<"x", E>>
    BY DEF XReg, E
  <2>2. RegPart(XReg(w, f, z)) = {E} \ {{}} /\ ImmPart(XReg(w, f, z)) = {}
    BY <2>1 DEF RegPart, ImmPart
  <2> QED
    BY <2>2 DEF E
<1>2. /\ GetSource("rs1", w) = XReg(w, rs1_field, "zero")
      /\ GetSource("rs2", w) = XReg(w, rs2_field, "zero")
      /\ GetSource("csr", w) = <<"CSR">>
      /\ GetDestination("rd", w) = XReg(w, rd_field, "null")
      /\ GetDestination("next_pc", w) = <<"pc">>
      /\ GetDestination("csr", w) = <<"CSR">>
  BY DEF GetSource, GetDestination
<1>3. /\ FieldIsRegister(w, 19, 15) = {Extract(w, rs1_field)} \ {{}}
      /\ FieldIsRegister(w, 24, 20) = {Extract(w, rs2_field)} \ {{}}
      /\ FieldIsRegister(w, 11, 7) = {Extract(w, rd_field)} \ {{}}
  BY RegisterField DEF rs1_field, rs2_field, rd_field
<1>4. /\ RegPart(<<"CSR">>) = {} /\ ImmPart(<<"CSR">>) = {}
      /\ RegPart(<<"pc">>) = {}
  BY DEF RegPart, ImmPart
<1>5. /\ RegPart(GetSource("rs1", w)) = FieldIsRegister(w, 19, 15)
      /\ ImmPart(GetSource("rs1", w)) = {}
      /\ RegPart(GetSource("rs2", w)) = FieldIsRegister(w, 24, 20)
      /\ ImmPart(GetSource("rs2", w)) = {}
      /\ RegPart(GetDestination("rd", w)) = FieldIsRegister(w, 11, 7)
  BY <1>1, <1>2, <1>3
<1> QED
  BY <1>2, <1>4, <1>5

LEMMA ImmediateParts ==
    ASSUME NEW w \in Word
    PROVE  /\ RegPart(GetSource("imm12", w)) = {}
           /\ ImmPart(GetSource("imm12", w)) = {Immediate("I", w)}
           /\ RegPart(GetSource("uimm5", w)) = {}
           /\ ImmPart(GetSource("uimm5", w)) = {Immediate("shamt", w)}
           /\ RegPart(GetSource("uimm20", w)) = {}
           /\ ImmPart(GetSource("uimm20", w)) = {Immediate("U", w)}
           /\ RegPart(GetSource("bimm12", w)) = {}
           /\ ImmPart(GetSource("bimm12", w)) = {Immediate("B", w)}
           /\ RegPart(GetSource("jimm20", w)) = {}
           /\ ImmPart(GetSource("jimm20", w)) = {Immediate("J", w)}
           /\ RegPart(GetSource("simm12", w)) = {}
           /\ ImmPart(GetSource("simm12", w)) = {Immediate("S", w)}
<1>1. ASSUME NEW v
      PROVE  RegPart(<<"imm", v>>) = {} /\ ImmPart(<<"imm", v>>) = {v}
  BY DEF RegPart, ImmPart
<1> HIDE DEF Immediate, Extract, ExtractSigned
<1>2. /\ GetSource("imm12", w) = <<"imm", ExtractSigned(w, imm12)>>
      /\ GetSource("uimm5", w) = <<"imm", Extract(w, uimm5)>>
      /\ GetSource("uimm20", w) = <<"imm", Extract(w, uimm32)>>
      /\ GetSource("bimm12", w) = <<"imm", ExtractSigned(w, b_imm)>>
      /\ GetSource("jimm20", w) = <<"imm", ExtractSigned(w, j_imm)>>
      /\ GetSource("simm12", w) = <<"imm", ExtractSigned(w, s_imm)>>
  BY DEF GetSource
<1> QED
  BY <1>1, <1>2, SameImmediate, Zenon

(* The operands of an instruction object, by the operands of its opcode. *)
LEMMA SourcesOf ==
    ASSUME NEW o, NEW w, NEW a, NEW b, NEW c
    PROVE  /\ Sources(o) = << >> => Decode(o, w).sources = << >>
           /\ Sources(o) = <<a>> => Decode(o, w).sources = <<GetSource(a, w)>>
           /\ Sources(o) = <<a, b>> =>
                  Decode(o, w).sources = <<GetSource(a, w), GetSource(b, w)>>
           /\ Sources(o) = <<a, b, c>> =>
                  Decode(o, w).sources =
                      <<GetSource(a, w), GetSource(b, w), GetSource(c, w)>>
<1> DEFINE S == Sources(o)
<1>1. Decode(o, w).sources = [i \in DOMAIN S |-> GetSource(S[i], w)]
  BY DEF Decode
<1> HIDE DEF S
<1>2. S = << >> => Decode(o, w).sources = << >>
  BY <1>1
<1>3. S = <<a>> => Decode(o, w).sources = <<GetSource(a, w)>>
  BY <1>1
<1>4. S = <<a, b>> =>
          Decode(o, w).sources = <<GetSource(a, w), GetSource(b, w)>>
  BY <1>1
<1>5. S = <<a, b, c>> =>
          Decode(o, w).sources =
              <<GetSource(a, w), GetSource(b, w), GetSource(c, w)>>
  BY <1>1
<1> QED
  BY <1>2, <1>3, <1>4, <1>5 DEF S

LEMMA DestinationsOf ==
    ASSUME NEW o, NEW w, NEW a, NEW b
    PROVE  /\ Destinations(o) = << >> => Decode(o, w).destinations = << >>
           /\ Destinations(o) = <<a>> =>
                  Decode(o, w).destinations = <<GetDestination(a, w)>>
           /\ Destinations(o) = <<a, b>> =>
                  Decode(o, w).destinations =
                      <<GetDestination(a, w), GetDestination(b, w)>>
<1> DEFINE S == Destinations(o)
<1>1. Decode(o, w).destinations = [i \in DOMAIN S |-> GetDestination(S[i], w)]
  BY DEF Decode
<1> HIDE DEF S
<1>2. S = << >> => Decode(o, w).destinations = << >>
  BY <1>1
<1>3. S = <<a>> => Decode(o, w).destinations = <<GetDestination(a, w)>>
  BY <1>1
<1>4. S = <<a, b>> =>
          Decode(o, w).destinations =
              <<GetDestination(a, w), GetDestination(b, w)>>
  BY <1>1
<1> QED
  BY <1>2, <1>3, <1>4 DEF S

(* The registers and the immediates of an instruction object. *)
LEMMA SourceOperands ==
    ASSUME NEW o, NEW w \in Word
    PROVE  LET regs == RegistersOf(Decode(o, w).sources)
               imms == ImmediatesOf(Decode(o, w).sources)
               rs1  == FieldIsRegister(w, 19, 15)
               rs2  == FieldIsRegister(w, 24, 20)
           IN
           /\ Sources(o) = << >> => regs = {} /\ imms = {}
           /\ Sources(o) = <<"rs1", "rs2">> => regs = rs1 \cup rs2 /\ imms = {}
           /\ Sources(o) = <<"rs1", "imm12">> =>
                  regs = rs1 /\ imms = {Immediate("I", w)}
           /\ Sources(o) = <<"rs1", "uimm5">> =>
                  regs = rs1 /\ imms = {Immediate("shamt", w)}
           /\ Sources(o) = <<"uimm20">> =>
                  regs = {} /\ imms = {Immediate("U", w)}
           /\ Sources(o) = <<"rs1", "rs2", "bimm12">> =>
                  regs = rs1 \cup rs2 /\ imms = {Immediate("B", w)}
           /\ Sources(o) = <<"jimm20">> =>
                  regs = {} /\ imms = {Immediate("J", w)}
           /\ Sources(o) = <<"rs1", "simm12", "rs2">> =>
                  regs = rs1 \cup rs2 /\ imms = {Immediate("S", w)}
           /\ Sources(o) = <<"imm12">> =>
                  regs = {} /\ imms = {Immediate("I", w)}
           /\ Sources(o) = <<"rs1", "csr">> => regs = rs1 /\ imms = {}
           /\ Sources(o) = <<"rs1">> => regs = rs1 /\ imms = {}
           /\ Sources(o) = <<"csr">> => regs = {} /\ imms = {}
<1> DEFINE regs == RegistersOf(Decode(o, w).sources)
           imms == ImmediatesOf(Decode(o, w).sources)
           rs1  == FieldIsRegister(w, 19, 15)
           rs2  == FieldIsRegister(w, 24, 20)
           R(s) == RegPart(GetSource(s, w))
           I(s) == ImmPart(GetSource(s, w))
<1>1. ASSUME NEW a, Sources(o) = <<a>>
      PROVE  regs = R(a) /\ imms = I(a)
  <2>1. Decode(o, w).sources =
            <<GetSource(a, w)>>
    BY <1>1, SourcesOf
  <2>2. /\ RegistersOf(<<GetSource(a, w)>>) =
               R(a)
        /\ ImmediatesOf(<<GetSource(a, w)>>) =
               I(a)
    BY PartsOf
  <2> QED
    BY <2>1, <2>2
<1>2. ASSUME NEW a, NEW b, Sources(o) = <<a, b>>
      PROVE  regs = R(a) \cup R(b) /\ imms = I(a) \cup I(b)
  <2>1. Decode(o, w).sources =
            <<GetSource(a, w), GetSource(b, w)>>
    BY <1>2, SourcesOf
  <2>2. /\ RegistersOf(<<GetSource(a, w), GetSource(b, w)>>) =
               R(a) \cup R(b)
        /\ ImmediatesOf(<<GetSource(a, w), GetSource(b, w)>>) =
               I(a) \cup I(b)
    BY PartsOf
  <2> QED
    BY <2>1, <2>2
<1>3. ASSUME NEW a, NEW b, NEW c, Sources(o) = <<a, b, c>>
      PROVE  /\ regs = R(a) \cup R(b) \cup R(c)
             /\ imms = I(a) \cup I(b) \cup I(c)
  <2>1. Decode(o, w).sources =
            <<GetSource(a, w), GetSource(b, w), GetSource(c, w)>>
    BY <1>3, SourcesOf
  <2>2. /\ RegistersOf(<<GetSource(a, w), GetSource(b, w), GetSource(c, w)>>) =
               R(a) \cup R(b) \cup R(c)
        /\ ImmediatesOf(<<GetSource(a, w), GetSource(b, w), GetSource(c, w)>>) =
               I(a) \cup I(b) \cup I(c)
    BY PartsOfThree
  <2> QED
    BY <2>1, <2>2
<1>4. Sources(o) = << >> => regs = {} /\ imms = {}
  BY SourcesOf, PartsOf, Zenon
<1>5. /\ R("rs1") = rs1 /\ I("rs1") = {} /\ R("rs2") = rs2 /\ I("rs2") = {}
      /\ R("csr") = {} /\ I("csr") = {}
  BY RegisterParts
<1>6. /\ R("imm12") = {} /\ I("imm12") = {Immediate("I", w)}
      /\ R("uimm5") = {} /\ I("uimm5") = {Immediate("shamt", w)}
      /\ R("uimm20") = {} /\ I("uimm20") = {Immediate("U", w)}
      /\ R("bimm12") = {} /\ I("bimm12") = {Immediate("B", w)}
      /\ R("jimm20") = {} /\ I("jimm20") = {Immediate("J", w)}
      /\ R("simm12") = {} /\ I("simm12") = {Immediate("S", w)}
  BY ImmediateParts
<1> HIDE DEF regs, imms, rs1, rs2, R, I
<1>7. Sources(o) = <<"rs1", "rs2">> =>
          regs = rs1 \cup rs2 /\ imms = {}
  BY <1>2, <1>5, <1>6
<1>8. Sources(o) = <<"rs1", "imm12">> =>
          regs = rs1 /\ imms = {Immediate("I", w)}
  BY <1>2, <1>5, <1>6
<1>9. Sources(o) = <<"rs1", "uimm5">> =>
          regs = rs1 /\ imms = {Immediate("shamt", w)}
  BY <1>2, <1>5, <1>6
<1>10. Sources(o) = <<"uimm20">> =>
          regs = {} /\ imms = {Immediate("U", w)}
  BY <1>1, <1>5, <1>6
<1>11. Sources(o) = <<"rs1", "rs2", "bimm12">> =>
          regs = rs1 \cup rs2 /\ imms = {Immediate("B", w)}
  BY <1>3, <1>5, <1>6
<1>12. Sources(o) = <<"jimm20">> =>
          regs = {} /\ imms = {Immediate("J", w)}
  BY <1>1, <1>5, <1>6
<1>13. Sources(o) = <<"rs1", "simm12", "rs2">> =>
          regs = rs1 \cup rs2 /\ imms = {Immediate("S", w)}
  BY <1>3, <1>5, <1>6
<1>14. Sources(o) = <<"imm12">> =>
          regs = {} /\ imms = {Immediate("I", w)}
  BY <1>1, <1>5, <1>6
<1>15. Sources(o) = <<"rs1", "csr">> =>
          regs = rs1 /\ imms = {}
  BY <1>2, <1>5, <1>6
<1>16. Sources(o) = <<"rs1">> =>
          regs = rs1 /\ imms = {}
  BY <1>1, <1>5, <1>6
<1>17. Sources(o) = <<"csr">> =>
          regs = {} /\ imms = {}
  BY <1>1, <1>5, <1>6
<1> QED
  BY <1>4, <1>7, <1>8, <1>9, <1>10, <1>11, <1>12, <1>13, <1>14, <1>15, <1>16, <1>17
  DEF regs, imms, rs1, rs2

LEMMA DestinationOperands ==
    ASSUME NEW o, NEW w \in Word
    PROVE  LET regs == RegistersOf(Decode(o, w).destinations)
               rd   == FieldIsRegister(w, 11, 7)
           IN
           /\ Destinations(o) = << >> => regs = {}
           /\ Destinations(o) = <<"rd">> => regs = rd
           /\ Destinations(o) = <<"next_pc">> => regs = {}
           /\ Destinations(o) = <<"csr">> => regs = {}
           /\ Destinations(o) = <<"next_pc", "rd">> => regs = rd
           /\ Destinations(o) = <<"rd", "csr">> => regs = rd
<1> DEFINE regs == RegistersOf(Decode(o, w).destinations)
           rd   == FieldIsRegister(w, 11, 7)
           R(s) == RegPart(GetDestination(s, w))
<1>1. ASSUME NEW a, Destinations(o) = <<a>>
      PROVE  regs = R(a)
  <2>1. Decode(o, w).destinations =
            <<GetDestination(a, w)>>
    BY <1>1, DestinationsOf
  <2>2. RegistersOf(<<GetDestination(a, w)>>) =
            R(a)
    BY PartsOf
  <2> QED
    BY <2>1, <2>2
<1>2. ASSUME NEW a, NEW b, Destinations(o) = <<a, b>>
      PROVE  regs = R(a) \cup R(b)
  <2>1. Decode(o, w).destinations =
            <<GetDestination(a, w), GetDestination(b, w)>>
    BY <1>2, DestinationsOf
  <2>2. RegistersOf(<<GetDestination(a, w), GetDestination(b, w)>>) =
            R(a) \cup R(b)
    BY PartsOf
  <2> QED
    BY <2>1, <2>2
<1>3. Destinations(o) = << >> => regs = {}
  BY DestinationsOf, PartsOf, Zenon
<1>4. R("rd") = rd /\ R("next_pc") = {} /\ R("csr") = {}
  BY RegisterParts
<1> HIDE DEF regs, rd, R
<1>5. /\ Destinations(o) = <<"rd">> => regs = rd
      /\ Destinations(o) = <<"next_pc">> => regs = {}
      /\ Destinations(o) = <<"csr">> => regs = {}
  BY <1>1, <1>4
<1>6. /\ Destinations(o) = <<"next_pc", "rd">> => regs = rd
      /\ Destinations(o) = <<"rd", "csr">> => regs = rd
  BY <1>2, <1>4
<1> QED
  BY <1>3, <1>5, <1>6 DEF regs, rd

(* The operands of riscv32i.isa, and the type of the immediate. *)
LEMMA OperandsOf ==
    ASSUME NEW o
    PROVE  /\ o \in {"add", "and", "or", "sll", "sltu", "sub", "xor"} =>
                  /\ Sources(o) = <<"rs1", "rs2">>
                  /\ Destinations(o) = <<"rd">>
                  /\ ImmediateType(o) = "no"
           /\ o \in {"addi", "andi", "ori", "xori", "lb", "lbu", "lh", "lhu", "lw"} =>
                  /\ Sources(o) = <<"rs1", "imm12">>
                  /\ Destinations(o) = <<"rd">>
                  /\ ImmediateType(o) = "I"
           /\ o \in {"jalr"} =>
                  /\ Sources(o) = <<"rs1", "imm12">>
                  /\ Destinations(o) = <<"next_pc", "rd">>
                  /\ ImmediateType(o) = "I"
           /\ o \in {"slli", "srai", "srli"} =>
                  /\ Sources(o) = <<"rs1", "uimm5">>
                  /\ Destinations(o) = <<"rd">>
                  /\ ImmediateType(o) = "shamt"
           /\ o \in {"auipc", "lui"} =>
                  /\ Sources(o) = <<"uimm20">>
                  /\ Destinations(o) = <<"rd">>
                  /\ ImmediateType(o) = "U"
           /\ o \in {"beq", "bge", "bgeu", "blt", "bltu", "bne"} =>
                  /\ Sources(o) = <<"rs1", "rs2", "bimm12">>
                  /\ Destinations(o) = <<"next_pc">>
                  /\ ImmediateType(o) = "B"
           /\ o \in {"jal"} =>
                  /\ Sources(o) = <<"jimm20">>
                  /\ Destinations(o) = <<"next_pc", "rd">>
                  /\ ImmediateType(o) = "J"
           /\ o \in {"sb", "sh", "sw"} =>
                  /\ Sources(o) = <<"rs1", "simm12", "rs2">>
                  /\ Destinations(o) = << >>
                  /\ ImmediateType(o) = "S"
           /\ o \in {"fence"} =>
                  /\ Sources(o) = <<"imm12">>
                  /\ Destinations(o) = << >>
                  /\ ImmediateType(o) = "I"
           /\ o \in {"csrs"} =>
                  /\ Sources(o) = <<"rs1", "csr">>
                  /\ Destinations(o) = <<"rd", "csr">>
                  /\ ImmediateType(o) = "no"
           /\ o \in {"csrw_nr"} =>
                  /\ Sources(o) = <<"rs1">>
                  /\ Destinations(o) = <<"csr">>
                  /\ ImmediateType(o) = "no"
           /\ o \in {"csrs_nw"} =>
                  /\ Sources(o) = <<"csr">>
                  /\ Destinations(o) = <<"rd", "csr">>
                  /\ ImmediateType(o) = "no"
           /\ o \in {"ebreak", "none"} =>
                  /\ Sources(o) = << >>
                  /\ Destinations(o) = << >>
                  /\ ImmediateType(o) = "no"
<1>1. CASE o \in {"add", "and", "or", "sll", "sltu", "sub", "xor"}
  BY <1>1 DEF Sources, Destinations, ImmediateType
<1>2. CASE o \in {"addi", "andi", "ori", "xori", "lb", "lbu", "lh", "lhu", "lw"}
  BY <1>2 DEF Sources, Destinations, ImmediateType
<1>3. CASE o \in {"jalr"}
  BY <1>3 DEF Sources, Destinations, ImmediateType
<1>4. CASE o \in {"slli", "srai", "srli"}
  BY <1>4 DEF Sources, Destinations, ImmediateType
<1>5. CASE o \in {"auipc", "lui"}
  BY <1>5 DEF Sources, Destinations, ImmediateType
<1>6. CASE o \in {"beq", "bge", "bgeu", "blt", "bltu", "bne"}
  BY <1>6 DEF Sources, Destinations, ImmediateType
<1>7. CASE o \in {"jal"}
  BY <1>7 DEF Sources, Destinations, ImmediateType
<1>8. CASE o \in {"sb", "sh", "sw"}
  BY <1>8 DEF Sources, Destinations, ImmediateType
<1>9. CASE o \in {"fence"}
  BY <1>9 DEF Sources, Destinations, ImmediateType
<1>10. CASE o \in {"csrs"}
  BY <1>10 DEF Sources, Destinations, ImmediateType
<1>11. CASE o \in {"csrw_nr"}
  BY <1>11 DEF Sources, Destinations, ImmediateType
<1>12. CASE o \in {"csrs_nw"}
  BY <1>12 DEF Sources, Destinations, ImmediateType
<1>13. CASE o \in {"ebreak", "none"}
  BY <1>13 DEF Sources, Destinations, ImmediateType
<1> QED
  BY <1>1, <1>2, <1>3, <1>4, <1>5, <1>6, <1>7, <1>8,
     <1>9, <1>10, <1>11, <1>12, <1>13

(* Only the instructions of two registers have their major opcode. *)
LEMMA TwoRegisters ==
    ASSUME NEW w \in Word, Specified(w) # "none"
    PROVE  Major(w) = 51 <=>
               Specified(w) \in {"add", "and", "or", "sll", "sltu", "sub", "xor"}
<1> DEFINE o == Specified(w)
<1>1. o \in Opcode /\ Matches(o, w)
  BY SpecifiedMatches
<1> HIDE DEF o
<1>2. CASE o \in {"add", "and", "or", "sll", "sltu", "sub", "xor"}
  BY <1>1, <1>2, OpMatches DEF o
<1>3. CASE o \in {"slli", "srai", "srli", "addi", "andi", "ori", "xori"}
  BY <1>1, <1>3, ShiftMatches, OpImmMatches DEF o
<1>4. CASE o \in {"beq", "bge", "bgeu", "blt", "bltu", "bne"}
  BY <1>1, <1>4, BranchMatches DEF o
<1>5. CASE o \in {"sb", "sh", "sw"}
  BY <1>1, <1>5, StoreMatches DEF o
<1>6. CASE o \in {"lb", "lbu", "lh", "lhu", "lw"}
  BY <1>1, <1>6, LoadMatches DEF o
<1>7. CASE o \in {"auipc", "lui", "jal", "jalr", "fence"}
  BY <1>1, <1>7, OtherMatches DEF o
<1>8. CASE o \in {"ebreak", "csrs", "csrw_nr", "csrs_nw"}
  BY <1>1, <1>8, MatchEbreak, CsrsMatches, MatchCsr DEF o
<1> QED
  BY <1>1, <1>2, <1>3, <1>4, <1>5, <1>6, <1>7, <1>8, OpcodeIs

(* The instruction object of a word is the manual's. *)
LEMMA SameOperands ==
    ASSUME NEW w \in Word
    PROVE  LET o == Specified(w)
               inst == Decode(o, w)
               type == ImmediateType(o)
           IN
           /\ inst.opcode = o
           /\ Immediates(inst) = IF type = "no" THEN {} ELSE {Immediate(type, w)}
           /\ RegistersOf(inst.sources) = ReadRegisters(w)
           /\ RegistersOf(inst.destinations) = WrittenRegisters(w)
<1> DEFINE o == Specified(w)
           regs == RegistersOf(Decode(o, w).sources)
           imms == ImmediatesOf(Decode(o, w).sources)
           dests == RegistersOf(Decode(o, w).destinations)
           rs1 == FieldIsRegister(w, 19, 15)
           rs2 == FieldIsRegister(w, 24, 20)
           rd == FieldIsRegister(w, 11, 7)
           type == ImmediateType(o)
           Imm == IF type = "no" THEN {} ELSE {Immediate(type, w)}
<1>1. Decode(o, w).opcode = o /\ Immediates(Decode(o, w)) = imms
  BY DEF Decode, Immediates, ImmediatesOf
<1>2. o \in Opcode \cup {"none"}
  BY SpecifiedMatches
<1>3. ReadRegisters(w) =
          (IF o \in {"lui", "auipc", "jal", "fence", "ebreak", "csrs_nw", "none"}
           THEN {} ELSE rs1)
          \cup (IF type \in {"S", "B"} \/ (Major(w) = 51 /\ o # "none")
                THEN rs2 ELSE {})
  BY DEF ReadRegisters, Major
<1>4. WrittenRegisters(w) =
          IF type \in {"S", "B"} \/ o \in {"fence", "ebreak", "csrw_nr", "none"}
          THEN {} ELSE rd
  BY DEF WrittenRegisters
<1>5. o # "none" =>
          (Major(w) = 51 <=> o \in {"add", "and", "or", "sll", "sltu", "sub", "xor"})
  BY TwoRegisters
<1> DEFINE Same == /\ imms = Imm /\ regs = ReadRegisters(w)
                   /\ dests = WrittenRegisters(w)
<1> HIDE DEF o
<1>6. ASSUME o \in {"add", "and", "or", "sll", "sltu", "sub", "xor"} PROVE Same
  <2>1. Sources(o) = <<"rs1", "rs2">> /\ Destinations(o) = <<"rd">> /\ type = "no"
    BY <1>6, OperandsOf
  <2>2. regs = rs1 \cup rs2 /\ imms = {}
    BY <2>1, SourceOperands
  <2>3. dests = rd
    BY <2>1, DestinationOperands
  <2> HIDE DEF regs, imms, dests, rs1, rs2, rd, type
  <2> QED
    BY <1>3, <1>4, <1>5, <1>6, <2>1, <2>2, <2>3
<1>7. ASSUME o \in {"addi", "andi", "ori", "xori", "lb", "lbu", "lh", "lhu", "lw"} PROVE Same
  <2>1. Sources(o) = <<"rs1", "imm12">> /\ Destinations(o) = <<"rd">> /\ type = "I"
    BY <1>7, OperandsOf
  <2>2. regs = rs1 /\ imms = {Immediate("I", w)}
    BY <2>1, SourceOperands
  <2>3. dests = rd
    BY <2>1, DestinationOperands
  <2> HIDE DEF regs, imms, dests, rs1, rs2, rd, type
  <2> QED
    BY <1>3, <1>4, <1>5, <1>7, <2>1, <2>2, <2>3
<1>8. ASSUME o \in {"jalr"} PROVE Same
  <2>1. Sources(o) = <<"rs1", "imm12">> /\ Destinations(o) = <<"next_pc", "rd">> /\ type = "I"
    BY <1>8, OperandsOf
  <2>2. regs = rs1 /\ imms = {Immediate("I", w)}
    BY <2>1, SourceOperands
  <2>3. dests = rd
    BY <2>1, DestinationOperands
  <2> HIDE DEF regs, imms, dests, rs1, rs2, rd, type
  <2> QED
    BY <1>3, <1>4, <1>5, <1>8, <2>1, <2>2, <2>3
<1>9. ASSUME o \in {"slli", "srai", "srli"} PROVE Same
  <2>1. Sources(o) = <<"rs1", "uimm5">> /\ Destinations(o) = <<"rd">> /\ type = "shamt"
    BY <1>9, OperandsOf
  <2>2. regs = rs1 /\ imms = {Immediate("shamt", w)}
    BY <2>1, SourceOperands
  <2>3. dests = rd
    BY <2>1, DestinationOperands
  <2> HIDE DEF regs, imms, dests, rs1, rs2, rd, type
  <2> QED
    BY <1>3, <1>4, <1>5, <1>9, <2>1, <2>2, <2>3
<1>10. ASSUME o \in {"auipc", "lui"} PROVE Same
  <2>1. Sources(o) = <<"uimm20">> /\ Destinations(o) = <<"rd">> /\ type = "U"
    BY <1>10, OperandsOf
  <2>2. regs = {} /\ imms = {Immediate("U", w)}
    BY <2>1, SourceOperands
  <2>3. dests = rd
    BY <2>1, DestinationOperands
  <2> HIDE DEF regs, imms, dests, rs1, rs2, rd, type
  <2> QED
    BY <1>3, <1>4, <1>5, <1>10, <2>1, <2>2, <2>3
<1>11. ASSUME o \in {"beq", "bge", "bgeu", "blt", "bltu", "bne"} PROVE Same
  <2>1. Sources(o) = <<"rs1", "rs2", "bimm12">> /\ Destinations(o) = <<"next_pc">> /\ type = "B"
    BY <1>11, OperandsOf
  <2>2. regs = rs1 \cup rs2 /\ imms = {Immediate("B", w)}
    BY <2>1, SourceOperands
  <2>3. dests = {}
    BY <2>1, DestinationOperands
  <2> HIDE DEF regs, imms, dests, rs1, rs2, rd, type
  <2> QED
    BY <1>3, <1>4, <1>5, <1>11, <2>1, <2>2, <2>3
<1>12. ASSUME o \in {"jal"} PROVE Same
  <2>1. Sources(o) = <<"jimm20">> /\ Destinations(o) = <<"next_pc", "rd">> /\ type = "J"
    BY <1>12, OperandsOf
  <2>2. regs = {} /\ imms = {Immediate("J", w)}
    BY <2>1, SourceOperands
  <2>3. dests = rd
    BY <2>1, DestinationOperands
  <2> HIDE DEF regs, imms, dests, rs1, rs2, rd, type
  <2> QED
    BY <1>3, <1>4, <1>5, <1>12, <2>1, <2>2, <2>3
<1>13. ASSUME o \in {"sb", "sh", "sw"} PROVE Same
  <2>1. Sources(o) = <<"rs1", "simm12", "rs2">> /\ Destinations(o) = << >> /\ type = "S"
    BY <1>13, OperandsOf
  <2>2. regs = rs1 \cup rs2 /\ imms = {Immediate("S", w)}
    BY <2>1, SourceOperands
  <2>3. dests = {}
    BY <2>1, DestinationOperands
  <2> HIDE DEF regs, imms, dests, rs1, rs2, rd, type
  <2> QED
    BY <1>3, <1>4, <1>5, <1>13, <2>1, <2>2, <2>3
<1>14. ASSUME o \in {"fence"} PROVE Same
  <2>1. Sources(o) = <<"imm12">> /\ Destinations(o) = << >> /\ type = "I"
    BY <1>14, OperandsOf
  <2>2. regs = {} /\ imms = {Immediate("I", w)}
    BY <2>1, SourceOperands
  <2>3. dests = {}
    BY <2>1, DestinationOperands
  <2> HIDE DEF regs, imms, dests, rs1, rs2, rd, type
  <2> QED
    BY <1>3, <1>4, <1>5, <1>14, <2>1, <2>2, <2>3
<1>15. ASSUME o \in {"csrs"} PROVE Same
  <2>1. Sources(o) = <<"rs1", "csr">> /\ Destinations(o) = <<"rd", "csr">> /\ type = "no"
    BY <1>15, OperandsOf
  <2>2. regs = rs1 /\ imms = {}
    BY <2>1, SourceOperands
  <2>3. dests = rd
    BY <2>1, DestinationOperands
  <2> HIDE DEF regs, imms, dests, rs1, rs2, rd, type
  <2> QED
    BY <1>3, <1>4, <1>5, <1>15, <2>1, <2>2, <2>3
<1>16. ASSUME o \in {"csrw_nr"} PROVE Same
  <2>1. Sources(o) = <<"rs1">> /\ Destinations(o) = <<"csr">> /\ type = "no"
    BY <1>16, OperandsOf
  <2>2. regs = rs1 /\ imms = {}
    BY <2>1, SourceOperands
  <2>3. dests = {}
    BY <2>1, DestinationOperands
  <2> HIDE DEF regs, imms, dests, rs1, rs2, rd, type
  <2> QED
    BY <1>3, <1>4, <1>5, <1>16, <2>1, <2>2, <2>3
<1>17. ASSUME o \in {"csrs_nw"} PROVE Same
  <2>1. Sources(o) = <<"csr">> /\ Destinations(o) = <<"rd", "csr">> /\ type = "no"
    BY <1>17, OperandsOf
  <2>2. regs = {} /\ imms = {}
    BY <2>1, SourceOperands
  <2>3. dests = rd
    BY <2>1, DestinationOperands
  <2> HIDE DEF regs, imms, dests, rs1, rs2, rd, type
  <2> QED
    BY <1>3, <1>4, <1>5, <1>17, <2>1, <2>2, <2>3
<1>18. ASSUME o \in {"ebreak", "none"} PROVE Same
  <2>1. Sources(o) = << >> /\ Destinations(o) = << >> /\ type = "no"
    BY <1>18, OperandsOf
  <2>2. regs = {} /\ imms = {}
    BY <2>1, SourceOperands
  <2>3. dests = {}
    BY <2>1, DestinationOperands
  <2> HIDE DEF regs, imms, dests, rs1, rs2, rd, type
  <2> QED
    BY <1>3, <1>4, <1>5, <1>18, <2>1, <2>2, <2>3
<1>19. Same
  BY <1>2, <1>6, <1>7, <1>8, <1>9, <1>10, <1>11, <1>12, <1>13, <1>14, <1>15, <1>16, <1>17, <1>18, OpcodeIs
<1> QED
  BY <1>1, <1>19 DEF o

-----------------------------------------------------------------------------
(* The words in memory are words and do not change. *)
LEMMA WordsStay ==
    Spec => [](\A t \in Caller : memory[t] \in Word)
<1> DEFINE Inv == \A t \in Caller : memory[t] \in Word
<1>1. Init => Inv
  BY DecoderAssumption DEF Init, Caller
<1>2. ASSUME [Next]_vars
      PROVE  UNCHANGED memory
  BY <1>2 DEF Next, vars, GetDisassembly, GetInstruction, Run, RunFetch,
     RunHalted, Load, ParseInstruction, BuildInstruction, Return
<1>3. Inv /\ [Next]_vars => Inv'
  BY <1>2
<1> QED
  BY <1>1, <1>3, PTL DEF Spec

(* Every instruction object that a call of DecodeInstruction returns has   *)
(* the opcode, the immediate and the registers that the RISC-V manual      *)
(* gives the word at the address asked about: for each of the 2^32 words,  *)
(* where a run decodes a sample of them.  Words to which the manual gives  *)
(* no instruction, or one of the twelve in Unimplemented, are decoded as   *)
(* illegal; decodes that overlap one by GetInstruction on a running core   *)
(* are excepted, as for OwnWordSafe.                                       *)
THEOREM DecodedSafe == Spec => []DecodedAsSpecified
<1>1. ASSUME OwnWordDecoded, \A t \in Caller : memory[t] \in Word
      PROVE  DecodedAsSpecified
  <2> SUFFICES ASSUME NEW t \in Caller \ raced, call[t].at = "done"
               PROVE  LET inst == call[t].inst
                          w    == memory[t]
                          type == ImmediateType(inst.opcode)
                      IN
                      /\ inst.opcode = Specified(w)
                      /\ Immediates(inst) =
                             IF type = "no" THEN {} ELSE {Immediate(type, w)}
                      /\ RegistersOf(inst.sources) = ReadRegisters(w)
                      /\ RegistersOf(inst.destinations) = WrittenRegisters(w)
    BY Zenon DEF DecodedAsSpecified
  <2> DEFINE w == memory[t]
  <2>1. w \in Word
    BY <1>1
  <2>2. call[t].inst = Decode(DecodeRiscVInst32(w), w)
    BY <1>1 DEF OwnWordDecoded
  <2> HIDE DEF w
  <2>3. call[t].inst = Decode(Specified(w), w)
    BY <2>1, <2>2, SameOpcode
  <2>4. Decode(Specified(w), w).opcode = Specified(w)
    BY DEF Decode
  <2> QED
    BY <2>1, <2>3, <2>4, SameOperands, Zenon DEF w
<1>2. Spec => []OwnWordDecoded
  BY OwnWordSafe
<1> QED
  BY <1>1, <1>2, WordsStay, PTL

=============================================================================
