-------------------------------- MODULE Isa ---------------------------------
(***************************************************************************)
(* What an RV32I hart promises, in the terms of the RISC-V manual: a       *)
(* machine with signed registers, byte memory and a pc, that executes one  *)
(* instruction at a time, and whose registers a debugger may set.  The     *)
(* width is a parameter: a byte has ByteBits bits and a word four bytes.   *)
(***************************************************************************)
EXTENDS Integers

CONSTANTS
    ByteBits,        \* bits in a byte
    Reg,             \* register numbers, x0 included
    DataAddr,        \* addresses of the bytes of data memory
    Instr,           \* instructions
    DebugReg,        \* registers a debugger writes to
    DebugData,       \* bytes of memory a debugger writes to
    DebugValue,      \* and the values it writes
    JalrClearsBit0   \* TRUE in the manual: jalr makes its target even

VARIABLES
    x, mem, pc,
    last             \* the instruction executed last

vars == <<x, mem, pc, last>>

WordBits == 4 * ByteBits
Signed(n) == ((n + 2^(WordBits - 1)) % 2^WordBits) - 2^(WordBits - 1)
Unsigned(n) == n % 2^WordBits

(* The bit set of a value, and the value of a bit set. *)
BitSet(n) == {k \in 0..(WordBits - 1) : (Unsigned(n) \div 2^k) % 2 = 1}
ValueOf(S) ==
    LET sum[k \in 0..WordBits] ==
            IF k = 0 THEN 0
            ELSE sum[k - 1] + IF k - 1 \in S THEN 2^(k - 1) ELSE 0
    IN  Signed(sum[WordBits])

(* A value of n bytes at address a, the lowest byte first. *)
Bytes(a, n) ==
    LET sum[k \in 0..n] ==
            IF k = 0 THEN 0
            ELSE sum[k - 1] + mem[a + k - 1] * 2^(ByteBits * (k - 1))
    IN  sum[n]

SignExtended(v, bits) == IF v >= 2^(bits - 1) THEN v - 2^bits ELSE v

(* An operand of an instruction: a register or a constant. *)
Operand(i, k) ==
    IF i.src[k][1] = "x" THEN x[i.src[k][2]] ELSE Signed(i.src[k][2])

Effective(i) == Unsigned(Operand(i, 1) + Operand(i, 2))
Shamt(i) == Unsigned(Operand(i, 2)) % WordBits

Size == [Lb |-> 1, Lbu |-> 1, Lh |-> 2, Lhu |-> 2, Lw |-> 4,
         Sb |-> 1, Sh |-> 2, Sw |-> 4]

(* The result of an instruction that only computes. *)
Result(i) ==
    LET a == Operand(i, 1)
        b == Operand(i, 2)
    IN  CASE i.func = "Add"   -> Signed(a + b)
          [] i.func = "Sub"   -> Signed(a - b)
          [] i.func = "And"   -> ValueOf(BitSet(a) \cap BitSet(b))
          [] i.func = "Or"    -> ValueOf(BitSet(a) \cup BitSet(b))
          [] i.func = "Xor"   -> ValueOf((BitSet(a) \cup BitSet(b))
                                             \ (BitSet(a) \cap BitSet(b)))
          [] i.func = "Sll"   -> ValueOf({k \in 0..(WordBits - 1) :
                                              k - Shamt(i) \in BitSet(a)})
          [] i.func = "Srl"   -> ValueOf({k \in 0..(WordBits - 1) :
                                              k + Shamt(i) \in BitSet(a)})
          [] i.func = "Sra"   -> a \div 2^Shamt(i)
          [] i.func = "Sltu"  -> IF Unsigned(a) < Unsigned(b) THEN 1 ELSE 0
          [] i.func = "Lui"   -> a
          [] i.func = "Auipc" -> Signed(pc + a)

Taken(i) ==
    LET a == Operand(i, 1)
        b == Operand(i, 2)
    IN  CASE i.func = "Beq"  -> a = b
          [] i.func = "Bne"  -> a # b
          [] i.func = "Blt"  -> a < b
          [] i.func = "Bge"  -> a >= b
          [] i.func = "Bltu" -> Unsigned(a) < Unsigned(b)
          [] i.func = "Bgeu" -> Unsigned(a) >= Unsigned(b)

Accessible(i) ==
    Effective(i)..(Effective(i) + Size[i.func] - 1) \subseteq DataAddr

Computes == {"Add", "Sub", "And", "Or", "Xor", "Sll", "Srl", "Sra", "Sltu",
             "Lui", "Auipc"}
Branches == {"Beq", "Bne", "Blt", "Bge", "Bltu", "Bgeu"}

(* x0 is always zero. *)
Written(rd, v) == [x EXCEPT ![rd] = IF rd = 0 THEN 0 ELSE v]

Compute(i) ==
    /\ i.func \in Computes
    /\ x' = Written(i.rd, Result(i))
    /\ pc' = Unsigned(pc + 4)
    /\ UNCHANGED mem

Branch(i) ==
    /\ i.func \in Branches
    /\ pc' = Unsigned(pc + IF Taken(i) THEN Operand(i, 3) ELSE 4)
    /\ UNCHANGED <<x, mem>>

JalrTarget(i) ==
    Effective(i) - (IF JalrClearsBit0 THEN Effective(i) % 2 ELSE 0)

Jump(i) ==
    /\ \/ i.func = "Jal" /\ pc' = Unsigned(pc + Operand(i, 1))
       \/ i.func = "Jalr" /\ pc' = JalrTarget(i)
    /\ x' = Written(i.rd, Signed(pc + 4))
    /\ UNCHANGED mem

Load(i) ==
    /\ i.func \in {"Lb", "Lbu", "Lh", "Lhu", "Lw"}
    /\ Accessible(i)
    /\ LET v == Bytes(Effective(i), Size[i.func]) IN
       x' = Written(i.rd, IF i.func \in {"Lbu", "Lhu"} THEN v
                          ELSE SignExtended(v, ByteBits * Size[i.func]))
    /\ pc' = Unsigned(pc + 4)
    /\ UNCHANGED mem

Store(i) ==
    /\ i.func \in {"Sb", "Sh", "Sw"}
    /\ Accessible(i)
    /\ mem' = [a \in DataAddr |->
                  LET k == a - Effective(i) IN
                  IF k \in 0..(Size[i.func] - 1)
                  THEN (Unsigned(Operand(i, 3)) \div 2^(ByteBits * k))
                           % 2^ByteBits
                  ELSE mem[a]]
    /\ pc' = Unsigned(pc + 4)
    /\ UNCHANGED x

(* fence; ebreak and illegal instructions nobody handles; and CSR accesses *)
(* of a hart that has no CSRs.                                             *)
NoEffect(i) ==
    /\ i.func \in {"Fence", "Ebreak", "Illegal",
                   "ZiCsrs", "ZiCsrwNr", "ZiCsrsNw"}
    /\ pc' = Unsigned(pc + 4)
    /\ UNCHANGED <<x, mem>>

DebugWrite ==
    /\ UNCHANGED last
    /\ \E v \in DebugValue :
        \/ \E r \in DebugReg : x' = Written(r, Signed(v)) /\ UNCHANGED <<mem, pc>>
        \/ pc' = v /\ UNCHANGED <<x, mem>>
        \/ \E a \in DebugData : mem' = [mem EXCEPT ![a] = v % 2^ByteBits]
                                /\ UNCHANGED <<x, pc>>

Init == x[0] = 0

Next ==
    \/ /\ last' \in Instr
       /\ LET i == last' IN
          Compute(i) \/ Branch(i) \/ Jump(i) \/ Load(i) \/ Store(i)
              \/ NoEffect(i)
    \/ DebugWrite

Spec == Init /\ [][Next]_vars

=============================================================================
