------------------------- MODULE RegisterFileProofs -------------------------
(***************************************************************************)
(* Proofs that all who refer to a register mean the same one: the names    *)
(* the disassembly shows, the operands in the decode cache, the debugger   *)
(* and the run loop's own pointer to the pc, for every set of instructions *)
(* and every width of the registers.                                       *)
(***************************************************************************)
EXTENDS RegisterFile, SequenceTheorems, TLAPS

Alias(n) == kRegisterAliases[n + 1]

(* Objects are numbered in the order of their creation: the pc is 1, xN is *)
(* N + 2, and the CSR, which the first instruction to name it creates, 34. *)
(* k is the number of x registers that have been filed.                    *)
Filed(registers, value, k) ==
    /\ value \in Seq(Value)
    /\ Len(value) = IF "CSR" \in DOMAIN registers THEN 34 ELSE k + 1
    /\ "pc" \in DOMAIN registers /\ registers["pc"] = 1
    /\ "CSR" \in DOMAIN registers => registers["CSR"] = 34 /\ k = 32
    /\ \A n \in 0..31 : n < k =>
           /\ XName(n) \in DOMAIN registers /\ registers[XName(n)] = n + 2
           /\ Alias(n) \in DOMAIN registers /\ registers[Alias(n)] = n + 2
    /\ \A name \in DOMAIN registers :
           \/ name \in {"pc", "CSR"}
           \/ \E n \in 0..31 : n < k /\ name \in {XName(n), Alias(n)}

IsFile(f) == f = [registers |-> f.registers, value |-> f.value]

FileInv(f) == IsFile(f) /\ Filed(f.registers, f.value, i)

(* A register holds what the instruction set says it holds; x0 is only the *)
(* debugger's.                                                             *)
Holds(value) ==
    /\ value[1] = arch[32]
    /\ \A n \in 1..31 : arch[n] = IF n < i THEN value[n + 2] ELSE 0

ArchInv ==
    /\ arch \in [0..32 -> Value]
    /\ arch[0] = 0
    /\ Holds(file.value)

(* What decoding makes of an instruction, whenever it is decoded. *)
RightOperands(inst) ==
    [rd   |-> IF inst.rd = 0 THEN [reg |-> 0, name |-> ""]
              ELSE [reg |-> inst.rd + 2, name |-> Alias(inst.rd)],
     rs1  |-> IF inst.rs1 = 0 THEN [reg |-> 0, name |-> Alias(0)]
              ELSE [reg |-> inst.rs1 + 2, name |-> Alias(inst.rs1)],
     also |-> CASE inst.does = "alu"  -> [reg |-> 0, name |-> ""]
                [] inst.does = "jump" -> [reg |-> 1, name |-> "pc"]
                [] inst.does = "csr"  -> [reg |-> 34, name |-> "CSR"]]

OperandInv ==
    /\ operands = [inst \in Instr |-> operands[inst]]
    /\ \A inst \in Instr :
           operands[inst] # {} =>
               /\ operands[inst] = {RightOperands(inst)}
               /\ i = 32
               /\ inst.does = "csr" => "CSR" \in DOMAIN file.registers

RegInv ==
    /\ i \in 0..32 /\ pc_ \in {0, 1} /\ (i # 0 => pc_ = 1)
    /\ FileInv(file)
    /\ ArchInv
    /\ OperandInv

-----------------------------------------------------------------------------
(* Names.  The tables of RV32ITop and of the encoding are those of the     *)
(* calling convention, and no two registers share a name.                  *)

LEMMA NamesDiffer ==
    ASSUME NEW m \in 0..31, NEW n \in 0..31
    PROVE  /\ XName(m) = XName(n) => m = n
           /\ Alias(m) = Alias(n) => m = n
           /\ XName(m) # Alias(n)
<1>1. XName(m) = XName(n) => m = n
  BY DEF XName, kXNames
<1>2. Alias(m) = Alias(n) => m = n
  BY DEF Alias, kRegisterAliases
<1>3. XName(m) # Alias(n)
  BY DEF XName, kXNames, Alias, kRegisterAliases
<1> QED
  BY <1>1, <1>2, <1>3

LEMMA NamesReserved ==
    ASSUME NEW n \in 0..31
    PROVE  XName(n) \notin {"pc", "CSR"} /\ Alias(n) \notin {"pc", "CSR"}
BY DEF XName, kXNames, Alias, kRegisterAliases

LEMMA TablesAgree ==
    ASSUME NEW n \in 0..31
    PROVE  xreg_alias_[n + 1] = Alias(n) /\ AbiName(n) = Alias(n)
<1>1. xreg_alias_[n + 1] = Alias(n)
  BY DEF xreg_alias_, Alias, kRegisterAliases
<1>2. AbiName(n) = Alias(n)
  BY DEF AbiName, Alias, kRegisterAliases
<1> QED
  BY <1>1, <1>2

LEMMA NamesAre ==
    /\ \A n \in 0..31 : NamesOf(n) = {XName(n), Alias(n)}
    /\ NamesOf(32) = {"pc"}
BY TablesAgree DEF NamesOf, kPcName

-----------------------------------------------------------------------------
(* Values. *)

LEMMA ZeroIsValue == 0 \in Value
BY RegisterFileAssumption DEF Value

LEMMA WrapType ==
    ASSUME NEW v \in Nat
    PROVE  Wrap(v) \in Value
BY RegisterFileAssumption DEF Wrap, Value

LEMMA SetIs ==
    ASSUME NEW value \in Seq(Value), NEW reg \in 0..Len(value), NEW v \in Value
    PROVE  /\ Set(value, reg, v) \in Seq(Value)
           /\ Len(Set(value, reg, v)) = Len(value)
           /\ \A k \in 1..Len(value) :
                  Set(value, reg, v)[k] = IF k = reg THEN v ELSE value[k]
<1>1. CASE reg = 0
  BY <1>1 DEF Set
<1>2. CASE reg # 0
  BY <1>2, ExceptSeq DEF Set
<1> QED
  BY <1>1, <1>2

(* One register is written. *)
Written(w, v, reg, x) ==
    \A k \in 1..33 : w[k] = IF k = reg THEN x ELSE v[k]

LEMMA WriteOne ==
    ASSUME NEW r, NEW v, Filed(r, v, 32), NEW x \in Value,
           NEW reg \in 0..34, reg = 34 => "CSR" \in DOMAIN r
    PROVE  /\ Filed(r, Set(v, reg, x), 32)
           /\ Written(Set(v, reg, x), v, reg, x)
<1> DEFINE w == Set(v, reg, x)
<1>1. v \in Seq(Value) /\ Len(v) \in Nat /\ 33 <= Len(v) /\ reg <= Len(v)
  <2>1. /\ v \in Seq(Value)
        /\ Len(v) = IF "CSR" \in DOMAIN r THEN 34 ELSE 32 + 1
    BY Zenon DEF Filed
  <2> QED
    BY <2>1
<1>2. reg \in 0..Len(v) /\ 1..33 \subseteq 1..Len(v)
  BY <1>1
<1>3. /\ w \in Seq(Value) /\ Len(w) = Len(v)
      /\ \A k \in 1..Len(v) : w[k] = IF k = reg THEN x ELSE v[k]
  BY <1>1, <1>2, SetIs
<1> HIDE DEF w
<1>4. Written(w, v, reg, x)
  BY <1>2, <1>3, Zenon DEF Written
<1>5. Filed(r, w, 32)
  BY <1>3, Zenon DEF Filed
<1> QED
  BY <1>4, <1>5 DEF w

(* The objects hold what the instruction set says the registers hold. *)
Agree(v, a) ==
    /\ a \in [0..32 -> Value]
    /\ a[0] = 0
    /\ v[1] = a[32]
    /\ \A n \in 1..31 : v[n + 2] = a[n]

LEMMA AgreeIs ==
    ASSUME i = 32
    PROVE  ArchInv <=> Agree(file.value, arch)
BY DEF ArchInv, Holds, Agree

(* The object that stands for xN; x0 has none. *)
XReg(n) == IF n = 0 THEN 0 ELSE n + 2

LEMMA WriteX ==
    ASSUME NEW r, NEW v, Filed(r, v, 32), NEW a, Agree(v, a),
           NEW n \in 0..31, NEW x \in Value
    PROVE  /\ Filed(r, Set(v, XReg(n), x), 32)
           /\ Agree(Set(v, XReg(n), x), IF n = 0 THEN a ELSE [a EXCEPT ![n] = x])
<1> DEFINE w == Set(v, XReg(n), x)
           b == [a EXCEPT ![n] = x]
<1>1. CASE n = 0
  BY <1>1 DEF Set, XReg
<1>2. CASE n # 0
  <2>1. XReg(n) \in 0..34 /\ XReg(n) # 34 /\ XReg(n) = n + 2
    BY <1>2 DEF XReg
  <2>2. /\ Filed(r, w, 32)
        /\ \A k \in 1..33 : w[k] = IF k = n + 2 THEN x ELSE v[k]
    <3> DEFINE q == XReg(n)
    <3>1. q \in 0..34 /\ q # 34 /\ q = n + 2
      BY <2>1
    <3> HIDE DEF q
    <3>2. Filed(r, Set(v, q, x), 32) /\ Written(Set(v, q, x), v, q, x)
      BY <3>1, WriteOne, Zenon
    <3>3. w = Set(v, q, x)
      BY DEF q
    <3> HIDE DEF w
    <3> QED
      BY <3>1, <3>2, <3>3, Zenon DEF Written
  <2> HIDE DEF w
  <2>3. /\ b \in [0..32 -> Value] /\ b[n] = x
        /\ \A k \in 0..32 : k # n => b[k] = a[k]
    BY DEF Agree
  <2> HIDE DEF b
  <2>4. b[0] = 0 /\ w[1] = b[32]
    BY <1>2, <2>2, <2>3 DEF Agree
  <2>5. ASSUME NEW k \in 1..31
        PROVE  w[k + 2] = b[k]
    <3>1. k + 2 \in 1..33 /\ (k + 2 = n + 2 <=> k = n) /\ k \in 0..32
      OBVIOUS
    <3>2. v[k + 2] = a[k]
      BY Zenon DEF Agree
    <3> QED
      BY <2>2, <2>3, <3>1, <3>2, Zenon
  <2>6. Agree(w, b)
    BY <2>3, <2>4, <2>5 DEF Agree
  <2> QED
    BY <1>2, <2>2, <2>6 DEF w, b
<1> QED
  BY <1>1, <1>2

LEMMA WritePc ==
    ASSUME NEW r, NEW v, Filed(r, v, 32), NEW a, Agree(v, a), NEW x \in Value
    PROVE  /\ Filed(r, Set(v, 1, x), 32)
           /\ Agree(Set(v, 1, x), [a EXCEPT ![32] = x])
<1> DEFINE w == Set(v, 1, x)
           b == [a EXCEPT ![32] = x]
<1>1. 1 \in 0..34 /\ 1 # 34
  OBVIOUS
<1>2. /\ Filed(r, w, 32)
      /\ \A k \in 1..33 : w[k] = IF k = 1 THEN x ELSE v[k]
  BY <1>1, WriteOne DEF Written
<1> HIDE DEF w
<1>3. /\ b \in [0..32 -> Value] /\ b[32] = x /\ b[0] = 0
      /\ \A k \in 1..31 : b[k] = a[k]
  BY DEF Agree
<1> HIDE DEF b
<1>4. w[1] = b[32]
  BY <1>2, <1>3
<1>5. ASSUME NEW k \in 1..31
      PROVE  w[k + 2] = b[k]
  <2>1. k + 2 \in 1..33 /\ k + 2 # 1
    OBVIOUS
  <2>2. v[k + 2] = a[k]
    BY Zenon DEF Agree
  <2> QED
    BY <1>2, <1>3, <2>1, <2>2, Zenon
<1>6. Agree(w, b)
  BY <1>3, <1>4, <1>5 DEF Agree
<1> QED
  BY <1>2, <1>6 DEF w, b

-----------------------------------------------------------------------------
(* The register map. *)

LEMMA BindIs ==
    ASSUME NEW r, NEW name, NEW reg
    PROVE  /\ DOMAIN Bind(r, name, reg) = DOMAIN r \cup {name}
           /\ Bind(r, name, reg)[name] = reg
           /\ \A n \in DOMAIN r : n # name => Bind(r, name, reg)[n] = r[n]
BY DEF Bind

LEMMA Appended ==
    ASSUME NEW value \in Seq(Value)
    PROVE  /\ Append(value, 0) \in Seq(Value)
           /\ Len(Append(value, 0)) = Len(value) + 1
           /\ \A k \in 1..Len(value) : Append(value, 0)[k] = value[k]
           /\ Append(value, 0)[Len(value) + 1] = 0
BY ZeroIsValue, AppendProperties

(* Once the constructor is done every lookup by name finds a register,     *)
(* except the first one of the CSR, which creates it behind the others.    *)
LEMMA NewCsr ==
    ASSUME NEW r, NEW value, Filed(r, value, 32), "CSR" \notin DOMAIN r
    PROVE  Filed(Bind(r, "CSR", Len(value) + 1), Append(value, 0), 32)
<1> DEFINE s == Bind(r, "CSR", Len(value) + 1)
           w == Append(value, 0)
<1>1. value \in Seq(Value) /\ Len(value) = 33
  BY DEF Filed
<1>2. w \in Seq(Value) /\ Len(w) = 34
  <2>1. w \in Seq(Value) /\ Len(w) = Len(value) + 1
    BY <1>1, Appended, Zenon
  <2> QED
    BY <1>1, <2>1
<1>3. /\ DOMAIN s = DOMAIN r \cup {"CSR"}
      /\ s["CSR"] = 34
      /\ \A n \in DOMAIN r : s[n] = r[n]
  BY <1>1 DEF Bind
<1> HIDE DEF s, w
<1>4. "pc" \in DOMAIN s /\ s["pc"] = 1
  BY <1>3 DEF Filed
<1>5. ASSUME NEW n \in 0..31
      PROVE  /\ XName(n) \in DOMAIN s /\ s[XName(n)] = n + 2
             /\ Alias(n) \in DOMAIN s /\ s[Alias(n)] = n + 2
  <2>1. n < 32
    OBVIOUS
  <2>2. /\ XName(n) \in DOMAIN r /\ r[XName(n)] = n + 2
        /\ Alias(n) \in DOMAIN r /\ r[Alias(n)] = n + 2
    BY <2>1, Zenon DEF Filed
  <2> QED
    BY <1>3, <2>2, Zenon
<1>6. ASSUME NEW name \in DOMAIN s
      PROVE  \/ name \in {"pc", "CSR"}
             \/ \E n \in 0..31 : n < 32 /\ name \in {XName(n), Alias(n)}
  BY <1>3 DEF Filed
<1>7. Filed(s, w, 32)
  BY <1>2, <1>3, <1>4, <1>5, <1>6 DEF Filed
<1> QED
  BY <1>7 DEF s, w

LEMMA Found ==
    ASSUME NEW f, FileInv(f)
    PROVE  /\ GetRegister(f, "pc") = f
           /\ i = 32 => \A n \in 0..31 : GetRegister(f, XName(n)) = f
<1>1. GetRegister(f, "pc") = f
  BY DEF FileInv, Filed, GetRegister
<1>2. ASSUME i = 32, NEW n \in 0..31
      PROVE  GetRegister(f, XName(n)) = f
  <2>1. n < i
    BY <1>2
  <2>2. XName(n) \in DOMAIN f.registers
    BY <2>1, Zenon DEF FileInv, Filed
  <2> QED
    BY <2>2 DEF GetRegister
<1> QED
  BY <1>1, <1>2

(* Decoding leaves the registers as they are and points at the right ones. *)
LEMMA DecodeIs ==
    ASSUME RegInv, i = 32, NEW inst \in Instr
    PROVE  LET g == FileWith(inst) IN
           /\ FileInv(g)
           /\ \A k \in 1..33 : g.value[k] = file.value[k]
           /\ "CSR" \in DOMAIN file.registers => "CSR" \in DOMAIN g.registers
           /\ inst.does = "csr" => "CSR" \in DOMAIN g.registers
           /\ OperandsOf(inst) = {RightOperands(inst)}
<1> DEFINE g == FileWith(inst)
<1>1. /\ inst.does \in {"alu", "jump", "csr"}
      /\ inst.rd \in 0..31 /\ inst.rs1 \in 0..31
  BY RegisterFileAssumption
<1>2. FileInv(file)
  BY DEF RegInv
<1>3. CASE Decoded(inst)
  BY <1>2, <1>3 DEF RegInv, OperandInv, Decoded, FileWith, OperandsOf
<1>4. CASE ~Decoded(inst)
  <2>1. \/ g = file /\ (inst.does = "csr" => "CSR" \in DOMAIN file.registers)
        \/ g = AddRegister(file, "CSR") /\ "CSR" \notin DOMAIN file.registers
    BY <1>1, <1>2, <1>4, Found
    DEF FileWith, RegistersFor, GetRegister, kPcName
  <2>2. /\ FileInv(g)
        /\ \A k \in 1..33 : g.value[k] = file.value[k]
        /\ "CSR" \in DOMAIN file.registers => "CSR" \in DOMAIN g.registers
        /\ inst.does = "csr" => "CSR" \in DOMAIN g.registers
    <3>1. CASE /\ g = file
               /\ inst.does = "csr" => "CSR" \in DOMAIN file.registers
      <4> HIDE DEF g
      <4> QED
        BY <1>2, <3>1
    <3>2. CASE g = AddRegister(file, "CSR") /\ "CSR" \notin DOMAIN file.registers
      <4> DEFINE r == file.registers
                 v == file.value
                 s == Bind(r, "CSR", Len(v) + 1)
                 w == Append(v, 0)
      <4>1. g = [registers |-> s, value |-> w]
        BY <3>2 DEF AddRegister
      <4>2. Filed(r, v, 32) /\ v \in Seq(Value) /\ Len(v) = 33
        BY <1>2, <3>2 DEF FileInv, Filed
      <4>3. Filed(s, w, 32)
        BY <3>2, <4>2, NewCsr
      <4>4. \A k \in 1..33 : w[k] = v[k]
        BY <4>2, Appended
      <4>5. "CSR" \in DOMAIN s
        BY DEF Bind
      <4> HIDE DEF g, s, w
      <4> QED
        BY <4>1, <4>3, <4>4, <4>5 DEF FileInv, IsFile
    <3> QED
      BY <2>1, <3>1, <3>2
  <2> HIDE DEF g
  <2>3. /\ g.registers["pc"] = 1
        /\ inst.does = "csr" => g.registers["CSR"] = 34
        /\ \A n \in 0..31 : g.registers[XName(n)] = n + 2
    BY <2>2 DEF FileInv, Filed
  <2>4. XDestination(g, inst.rd) = RightOperands(inst).rd
    <3>1. CASE inst.rd = 0
      BY <3>1 DEF XDestination, RightOperands
    <3>2. CASE inst.rd # 0
      <4>1. /\ g.registers[XName(inst.rd)] = inst.rd + 2
            /\ xreg_alias_[inst.rd + 1] = Alias(inst.rd)
        BY <1>1, <2>3, TablesAgree
      <4> QED
        BY <3>2, <4>1 DEF XDestination, Operand, RightOperands
    <3> QED
      BY <3>1, <3>2
  <2>7. XSource(g, inst.rs1) = RightOperands(inst).rs1
    <3>1. CASE inst.rs1 = 0
      <4>1. xreg_alias_[1] = Alias(0)
        BY DEF xreg_alias_, Alias, kRegisterAliases
      <4> QED
        BY <3>1, <4>1 DEF XSource, RightOperands
    <3>2. CASE inst.rs1 # 0
      <4>1. /\ g.registers[XName(inst.rs1)] = inst.rs1 + 2
            /\ xreg_alias_[inst.rs1 + 1] = Alias(inst.rs1)
        BY <1>1, <2>3, TablesAgree
      <4> QED
        BY <3>2, <4>1 DEF XSource, Operand, RightOperands
    <3> QED
      BY <3>1, <3>2
  <2>5. DecodedOperands(g, inst) = RightOperands(inst)
    BY <1>1, <2>3, <2>4, <2>7 DEF DecodedOperands, RightOperands, Operand, kPcName
  <2>6. OperandsOf(inst) = {RightOperands(inst)}
    BY <1>4, <2>5 DEF OperandsOf, g
  <2> QED
    BY <2>2, <2>6 DEF g
<1> QED
  BY <1>3, <1>4

(* The constructor files the next x register under its two names. *)
LEMMA NewX ==
    ASSUME NEW r, NEW value, NEW k \in 0..31, Filed(r, value, k)
    PROVE  /\ Filed(Bind(Bind(r, XName(k), k + 2), Alias(k), k + 2),
                    Append(value, 0), k + 1)
           /\ Len(value) = k + 1
<1> DEFINE s == Bind(Bind(r, XName(k), k + 2), Alias(k), k + 2)
           w == Append(value, 0)
<1>1. value \in Seq(Value) /\ Len(value) = k + 1 /\ "CSR" \notin DOMAIN r
  BY DEF Filed
<1>2. w \in Seq(Value) /\ Len(w) = k + 2
  <2>1. w \in Seq(Value) /\ Len(w) = Len(value) + 1
    BY <1>1, Appended, Zenon
  <2> QED
    BY <1>1, <2>1
<1>3. /\ DOMAIN s = DOMAIN r \cup {XName(k), Alias(k)}
      /\ s[XName(k)] = k + 2 /\ s[Alias(k)] = k + 2
      /\ \A n \in DOMAIN r : n \notin {XName(k), Alias(k)} => s[n] = r[n]
  BY DEF Bind
<1> HIDE DEF s, w
<1>4. "CSR" \notin DOMAIN s /\ "pc" \in DOMAIN s /\ s["pc"] = 1
  <2>1. "pc" \in DOMAIN r /\ r["pc"] = 1
    BY DEF Filed
  <2>2. /\ XName(k) # "pc" /\ Alias(k) # "pc"
        /\ XName(k) # "CSR" /\ Alias(k) # "CSR"
    BY NamesReserved
  <2> QED
    BY <1>1, <1>3, <2>1, <2>2, Zenon
<1>5. ASSUME NEW n \in 0..31, n < k + 1
      PROVE  /\ XName(n) \in DOMAIN s /\ s[XName(n)] = n + 2
             /\ Alias(n) \in DOMAIN s /\ s[Alias(n)] = n + 2
  <2>1. CASE n = k
    BY <1>3, <2>1
  <2>2. CASE n # k
    <3>1. n < k
      BY <1>5, <2>2
    <3>2. /\ XName(n) \in DOMAIN r /\ r[XName(n)] = n + 2
          /\ Alias(n) \in DOMAIN r /\ r[Alias(n)] = n + 2
      BY <3>1, Zenon DEF Filed
    <3>3. /\ XName(n) # XName(k) /\ XName(n) # Alias(k)
          /\ Alias(n) # XName(k) /\ Alias(n) # Alias(k)
      BY <2>2, NamesDiffer
    <3> QED
      BY <1>3, <3>2, <3>3, Zenon
  <2> QED
    BY <2>1, <2>2
<1>6. ASSUME NEW name \in DOMAIN s
      PROVE  \/ name \in {"pc", "CSR"}
             \/ \E n \in 0..31 : n < k + 1 /\ name \in {XName(n), Alias(n)}
  <2>1. CASE name \in DOMAIN r
    <3>1. \A n \in 0..31 : n < k => n < k + 1
      OBVIOUS
    <3> QED
      BY <2>1, <3>1, Zenon DEF Filed
  <2>2. CASE name \in {XName(k), Alias(k)}
    <3>1. k < k + 1
      OBVIOUS
    <3> QED
      BY <2>2, <3>1, Zenon
  <2> QED
    BY <1>3, <2>1, <2>2
<1>7. k + 2 = (k + 1) + 1
  OBVIOUS
<1>8. Filed(s, w, k + 1)
  BY <1>2, <1>4, <1>5, <1>6, <1>7, Zenon DEF Filed
<1> QED
  BY <1>1, <1>8 DEF s, w

-----------------------------------------------------------------------------
(* The inductive invariant. *)

LEMMA RegInit == Init => RegInv
<1> SUFFICES ASSUME Init PROVE RegInv
  OBVIOUS
<1> USE DEF Init
<1> DEFINE e == [n \in {} |-> 0]
           r == Bind(e, "pc", 1)
<1>1. DOMAIN r = {"pc"} /\ r["pc"] = 1
  BY DEF Bind
<1>2. file = [registers |-> r, value |-> <<0>>]
  <2>1. StateFile = AddRegister([registers |-> e, value |-> <<>>], "pc")
    BY DEF StateFile, GetRegister, kPcName
  <2>2. AddRegister([registers |-> e, value |-> <<>>], "pc")
            = [registers |-> r, value |-> <<0>>]
    BY DEF AddRegister
  <2> QED
    BY <2>1, <2>2
<1> HIDE DEF r
<1>3. Filed(r, <<0>>, 0)
  <2>1. <<0>> \in Seq(Value) /\ Len(<<0>>) = 1
    BY ZeroIsValue
  <2> QED
    BY <1>1, <2>1 DEF Filed
<1>4. FileInv(file)
  BY <1>2, <1>3 DEF FileInv, IsFile
<1>5. ArchInv
  BY <1>2, ZeroIsValue DEF ArchInv, Holds
<1>6. OperandInv
  BY DEF OperandInv
<1> QED
  BY <1>4, <1>5, <1>6 DEF RegInv

LEMMA FindPcStep ==
    ASSUME RegInv, FindPc
    PROVE  RegInv'
<1>1. file' = file
  BY Found DEF RegInv, FindPc, kPcName
<1>2. pc_' = 1 /\ i' = i /\ operands' = operands /\ arch' = arch
  BY <1>1 DEF RegInv, FindPc, FileInv, Filed, kPcName
<1> QED
  BY <1>1, <1>2 DEF RegInv, FileInv, ArchInv, Holds, OperandInv

LEMMA AddXRegisterStep ==
    ASSUME RegInv, AddXRegister
    PROVE  RegInv'
<1> DEFINE r == file.registers
           v == file.value
           s == Bind(Bind(r, XName(i), i + 2), Alias(i), i + 2)
           w == Append(v, 0)
<1>1. /\ i \in 0..31 /\ pc_ = 1 /\ i' = i + 1
      /\ pc_' = pc_ /\ operands' = operands /\ arch' = arch
  BY DEF RegInv, AddXRegister
<1>2. Filed(r, v, i) /\ v \in Seq(Value)
  BY DEF RegInv, FileInv, Filed
<1>3. Filed(s, w, i + 1) /\ Len(v) = i + 1
  BY <1>1, <1>2, NewX, Zenon
<1>4. file' = [registers |-> s, value |-> w]
  <2> DEFINE b == Bind(r, XName(i), i + 2)
  <2>1. AddRegister(file, XName(i)) = [registers |-> b, value |-> w]
    BY <1>1, <1>3 DEF AddRegister
  <2>2. XName(i) \in DOMAIN b /\ b[XName(i)] = i + 2
    BY DEF Bind
  <2> HIDE DEF b, w
  <2>3. file' = [registers |-> Bind(b, Alias(i), b[XName(i)]), value |-> w]
    BY <2>1, <2>2 DEF AddXRegister, AddRegisterAlias, Alias
  <2> QED
    BY <2>2, <2>3 DEF b
<1>5. (\A k \in 1..(i + 1) : w[k] = v[k]) /\ w[i + 2] = 0
  <2>1. /\ \A k \in 1..Len(v) : w[k] = v[k]
        /\ w[Len(v) + 1] = 0
    BY <1>2, Appended, Zenon
  <2> HIDE DEF v, w
  <2> QED
    BY <1>1, <1>3, <2>1
<1> HIDE DEF r, v, s, w
<1>6. FileInv(file)'
  BY <1>1, <1>3, <1>4 DEF FileInv, IsFile
<1>7. ArchInv'
  <2>1. Holds(v)
    BY DEF RegInv, ArchInv, v
  <2>2. file'.value = w
    BY <1>4
  <2>3. w[1] = arch[32]
    BY <1>1, <1>5, <2>1 DEF Holds
  <2>4. ASSUME NEW n \in 1..31
        PROVE  arch[n] = IF n < i + 1 THEN w[n + 2] ELSE 0
    BY <1>1, <1>5, <2>1 DEF Holds
  <2> QED
    BY <1>1, <2>2, <2>3, <2>4 DEF RegInv, ArchInv, Holds
<1>8. OperandInv'
  BY <1>1 DEF RegInv, OperandInv
<1> QED
  BY <1>1, <1>6, <1>7, <1>8 DEF RegInv

LEMMA GetInstructionStep ==
    ASSUME RegInv, NEW inst \in Instr, GetInstruction(inst)
    PROVE  RegInv'
<1> DEFINE g == FileWith(inst)
<1>1. /\ i = 32 /\ i' = i /\ pc_' = pc_ /\ arch' = arch
      /\ file' = g
      /\ operands' = [operands EXCEPT ![inst] = OperandsOf(inst)]
  BY DEF GetInstruction, Constructed
<1>2. /\ FileInv(g)
      /\ \A k \in 1..33 : g.value[k] = file.value[k]
      /\ "CSR" \in DOMAIN file.registers => "CSR" \in DOMAIN g.registers
      /\ inst.does = "csr" => "CSR" \in DOMAIN g.registers
      /\ OperandsOf(inst) = {RightOperands(inst)}
  BY <1>1, DecodeIs
<1> HIDE DEF g
<1>3. FileInv(file)'
  BY <1>1, <1>2 DEF FileInv
<1>4. ArchInv'
  BY <1>1, <1>2 DEF RegInv, ArchInv, Holds
<1>5. OperandInv'
  BY <1>1, <1>2 DEF RegInv, OperandInv
<1> QED
  BY <1>1, <1>3, <1>4, <1>5 DEF RegInv

LEMMA EvictStep ==
    ASSUME RegInv, NEW inst \in Instr, Evict(inst)
    PROVE  RegInv'
<1>1. /\ i' = i /\ pc_' = pc_ /\ arch' = arch /\ file' = file
      /\ operands' = [operands EXCEPT ![inst] = {}]
  BY DEF Evict
<1>2. OperandInv'
  BY <1>1 DEF RegInv, OperandInv
<1> QED
  BY <1>1, <1>2 DEF RegInv, FileInv, ArchInv, Holds

(* A step after the construction that gives the registers new values. *)
LEMMA NewValues ==
    ASSUME RegInv, i = 32, i' = i, pc_' = pc_,
           NEW f, FileInv(f),
           "CSR" \in DOMAIN file.registers => "CSR" \in DOMAIN f.registers,
           NEW w, Filed(f.registers, w, 32),
           file' = [f EXCEPT !.value = w],
           Agree(w, arch')
    PROVE  /\ file'.registers = f.registers
           /\ OperandInv' => RegInv'
           /\ operands' = operands => RegInv'
<1> DEFINE r == f.registers
           v == f.value
<1>1. f = [registers |-> r, value |-> v]
  BY DEF FileInv, IsFile
<1> HIDE DEF r, v
<1>2. file' = [registers |-> r, value |-> w]
  BY <1>1
<1>3. file'.registers = r /\ file'.value = w /\ IsFile(file)'
  <2>1. file'.registers = r /\ file'.value = w
    BY <1>2
  <2>2. file' = [registers |-> file'.registers, value |-> file'.value]
    BY <1>2
  <2> QED
    BY <2>1, <2>2, Zenon DEF IsFile
<1>4. FileInv(file)'
  BY <1>3 DEF FileInv, IsFile, r
<1>5. ArchInv'
  BY <1>3 DEF ArchInv, Holds, Agree
<1>6. OperandInv' => RegInv'
  BY <1>4, <1>5 DEF RegInv
<1>7. operands' = operands => OperandInv'
  BY <1>3 DEF RegInv, OperandInv, r
<1> QED
  BY <1>3, <1>6, <1>7 DEF r

LEMMA SavePcStep ==
    ASSUME RegInv, NEW next_pc \in Value, SavePc(next_pc)
    PROVE  RegInv'
<1> DEFINE w == Set(file.value, 1, next_pc)
<1>1. /\ i = 32 /\ i' = i /\ pc_ = 1 /\ pc_' = pc_ /\ operands' = operands
      /\ arch' = [arch EXCEPT ![32] = next_pc]
      /\ file' = [file EXCEPT !.value = w]
  BY DEF RegInv, SavePc, Constructed
<1>2. FileInv(file) /\ Filed(file.registers, file.value, 32)
  BY <1>1 DEF RegInv, FileInv
<1>3. Agree(file.value, arch)
  BY <1>1, AgreeIs DEF RegInv
<1>4. Filed(file.registers, w, 32) /\ Agree(w, arch')
  BY <1>1, <1>2, <1>3, WritePc, Zenon
<1> HIDE DEF w
<1> QED
  BY <1>1, <1>2, <1>4, NewValues, Zenon

LEMMA OperandsPoint ==
    ASSUME NEW inst \in Instr
    PROVE  /\ RightOperands(inst).rd.reg = XReg(inst.rd)
           /\ RightOperands(inst).rs1.reg = XReg(inst.rs1)
           /\ inst.does = "jump" => RightOperands(inst).also.reg = 1
BY DEF RightOperands, XReg

LEMMA ExecuteStep ==
    ASSUME RegInv, NEW inst \in Instr, NEW return_address \in Value,
           Execute(inst, return_address)
    PROVE  RegInv'
<1> DEFINE g == FileWith(inst)
           v == g.value
           o == RightOperands(inst)
           src == Get(v, o.rs1.reg)
<1>1. /\ inst.does \in {"alu", "jump", "csr"}
      /\ inst.rd \in 0..31 /\ inst.rs1 \in 0..31
  BY RegisterFileAssumption
<1>2. /\ i = 32 /\ i' = i /\ pc_' = pc_
      /\ operands' = [operands EXCEPT ![inst] = OperandsOf(inst)]
  BY DEF Execute, Constructed
<1>3. /\ FileInv(g)
      /\ \A k \in 1..33 : v[k] = file.value[k]
      /\ "CSR" \in DOMAIN file.registers => "CSR" \in DOMAIN g.registers
      /\ inst.does = "csr" => "CSR" \in DOMAIN g.registers
      /\ OperandsOf(inst) = {o}
  BY <1>2, DecodeIs
<1>4. (CHOOSE p \in OperandsOf(inst) : TRUE) = o
  BY <1>3
<1>5. /\ inst.does = "alu" =>
             /\ file' = [g EXCEPT !.value = Set(v, o.rd.reg, Wrap(src + 1))]
             /\ arch' = IF inst.rd = 0 THEN arch
                        ELSE [arch EXCEPT ![inst.rd] = Wrap(arch[inst.rs1] + 1)]
      /\ inst.does = "jump" =>
             /\ file' = [g EXCEPT !.value = Set(Set(v, o.also.reg, src),
                                                o.rd.reg, return_address)]
             /\ arch' = IF inst.rd = 0 THEN [arch EXCEPT ![32] = arch[inst.rs1]]
                        ELSE [[arch EXCEPT ![32] = arch[inst.rs1]]
                                 EXCEPT ![inst.rd] = return_address]
      /\ inst.does = "csr" =>
             /\ file' = [g EXCEPT !.value = v]
             /\ arch' = arch
  BY <1>4 DEF Execute
<1>6. Filed(g.registers, v, 32)
  BY <1>2, <1>3 DEF FileInv
<1>7. Agree(v, arch)
  <2>1. Agree(file.value, arch)
    BY <1>2, AgreeIs DEF RegInv
  <2>2. 1 \in 1..33 /\ \A n \in 1..31 : n + 2 \in 1..33
    OBVIOUS
  <2> HIDE DEF g
  <2> QED
    BY <1>3, <2>1, <2>2, Zenon DEF Agree
<1>8. src = arch[inst.rs1] /\ src \in Value
  <2> HIDE DEF v
  <2>1. src = arch[inst.rs1]
    BY <1>1, <1>7, OperandsPoint DEF Get, XReg, Agree
  <2> QED
    BY <1>1, <1>7, <2>1 DEF Agree
<1>9. Wrap(src + 1) \in Value
  <2>1. src + 1 \in Nat
    BY <1>8, RegisterFileAssumption DEF Value
  <2> QED
    BY <2>1, WrapType
<1>10. \E w : /\ file' = [g EXCEPT !.value = w]
              /\ Filed(g.registers, w, 32) /\ Agree(w, arch')
  <2> HIDE DEF g, v, src
  <2>1. CASE inst.does = "alu"
    <3> DEFINE w == Set(v, XReg(inst.rd), Wrap(src + 1))
    <3>1. file' = [g EXCEPT !.value = w]
      BY <1>5, <2>1, OperandsPoint, Zenon
    <3>2. arch' = IF inst.rd = 0 THEN arch
                  ELSE [arch EXCEPT ![inst.rd] = Wrap(src + 1)]
      BY <1>5, <1>8, <2>1, Zenon
    <3>3. Filed(g.registers, w, 32) /\ Agree(w, arch')
      BY <1>1, <1>6, <1>7, <1>9, <3>2, WriteX, Zenon
    <3> QED
      BY <3>1, <3>3, Zenon
  <2>2. CASE inst.does = "jump"
    <3> DEFINE u == Set(v, 1, src)
               b == [arch EXCEPT ![32] = src]
               w == Set(u, XReg(inst.rd), return_address)
    <3>1. file' = [g EXCEPT !.value = w]
      BY <1>5, <2>2, OperandsPoint, Zenon
    <3>2. arch' = IF inst.rd = 0 THEN b
                  ELSE [b EXCEPT ![inst.rd] = return_address]
      BY <1>5, <1>8, <2>2, Zenon
    <3>3. Filed(g.registers, u, 32) /\ Agree(u, b)
      BY <1>6, <1>7, <1>8, WritePc, Zenon
    <3> HIDE DEF u, b
    <3>4. Filed(g.registers, w, 32) /\ Agree(w, arch')
      BY <1>1, <3>2, <3>3, WriteX, Zenon
    <3> QED
      BY <3>1, <3>4, Zenon
  <2>3. CASE inst.does = "csr"
    BY <1>5, <1>6, <1>7, <2>3, Zenon
  <2> QED
    BY <1>1, <2>1, <2>2, <2>3
<1> HIDE DEF g, o
<1>11. file'.registers = g.registers /\ (OperandInv' => RegInv')
  BY <1>2, <1>3, <1>10, NewValues, Zenon
<1>12. OperandInv'
  BY <1>2, <1>3, <1>11 DEF RegInv, OperandInv, o
<1> QED
  BY <1>11, <1>12

LEMMA WriteRegisterStep ==
    ASSUME RegInv, NEW name, NEW x \in Nat, WriteRegister(name, x)
    PROVE  RegInv'
<1> DEFINE r == file.registers
           v == file.value
           w == Set(v, r[name], Wrap(x))
<1>1. /\ i = 32 /\ i' = i /\ pc_' = pc_ /\ operands' = operands
      /\ name \in DOMAIN r
      /\ file' = [file EXCEPT !.value[r[name]] = Wrap(x)]
      /\ arch' = [n \in 0..32 |-> IF n # 0 /\ name \in NamesOf(n)
                                  THEN Wrap(x) ELSE arch[n]]
  BY DEF WriteRegister, Constructed, Wrap
<1>2. FileInv(file) /\ Filed(r, v, 32)
  BY <1>1 DEF RegInv, FileInv
<1>3. Agree(v, arch)
  BY <1>1, AgreeIs DEF RegInv
<1>4. Wrap(x) \in Value
  BY WrapType
<1>5. \/ name = "pc" /\ r[name] = 1
      \/ name = "CSR" /\ r[name] = 34
      \/ \E n \in 0..31 : name \in {XName(n), Alias(n)} /\ r[name] = n + 2
  BY <1>1, <1>2 DEF Filed
<1> HIDE DEF r, v
<1>6. r[name] \in 0..34 /\ r[name] # 0
  BY <1>5
<1>7. r[name] = 34 => "CSR" \in DOMAIN r
  BY <1>1, <1>5
<1>8. file' = [file EXCEPT !.value = w]
  BY <1>1, <1>6 DEF Set, v
<1>9. /\ Filed(r, w, 32)
      /\ \A k \in 1..33 : w[k] = IF k = r[name] THEN Wrap(x) ELSE v[k]
  <2>1. Filed(r, w, 32) /\ Written(w, v, r[name], Wrap(x))
    BY <1>2, <1>4, <1>6, <1>7, WriteOne, Zenon
  <2> QED
    BY <2>1, Zenon DEF Written
<1> HIDE DEF w
<1>10. arch' \in [0..32 -> Value] /\ arch'[0] = 0
  BY <1>1, <1>3, <1>4 DEF Agree
<1>11. w[1] = arch'[32]
  <2>1. name \in NamesOf(32) <=> r[name] = 1
    BY <1>5, NamesAre, NamesReserved
  <2>2. arch'[32] = IF r[name] = 1 THEN Wrap(x) ELSE arch[32]
    BY <1>1, <2>1
  <2>3. 1 \in 1..33
    OBVIOUS
  <2> QED
    BY <1>3, <1>9, <2>2, <2>3 DEF Agree
<1>12. ASSUME NEW n \in 1..31
       PROVE  w[n + 2] = arch'[n]
  <2>1. name \in NamesOf(n) <=> r[name] = n + 2
    <3>1. NamesOf(n) = {XName(n), Alias(n)}
      BY NamesAre
    <3>2. CASE name \in {"pc", "CSR"}
      BY <1>5, <3>1, <3>2, NamesReserved
    <3>3. CASE name \notin {"pc", "CSR"}
      <4>1. PICK m \in 0..31 : name \in {XName(m), Alias(m)} /\ r[name] = m + 2
        BY <1>5, <3>3
      <4>2. name \in {XName(n), Alias(n)} <=> m = n
        BY <4>1, NamesDiffer
      <4> QED
        BY <3>1, <4>1, <4>2
    <3> QED
      BY <3>2, <3>3
  <2>2. arch'[n] = IF r[name] = n + 2 THEN Wrap(x) ELSE arch[n]
    BY <1>1, <2>1
  <2>3. n + 2 \in 1..33
    OBVIOUS
  <2>4. v[n + 2] = arch[n]
    BY <1>3 DEF Agree
  <2> QED
    BY <1>9, <2>2, <2>3, <2>4
<1>13. Agree(w, arch')
  BY <1>10, <1>11, <1>12 DEF Agree
<1> QED
  BY <1>1, <1>2, <1>8, <1>9, <1>13, NewValues DEF r

LEMMA RegStep ==
    ASSUME RegInv, [Next]_vars
    PROVE  RegInv'
<1>1. CASE FindPc
  BY <1>1, FindPcStep
<1>2. CASE AddXRegister
  BY <1>2, AddXRegisterStep
<1>3. ASSUME NEW inst \in Instr, GetInstruction(inst) \/ Evict(inst)
      PROVE  RegInv'
  BY <1>3, GetInstructionStep, EvictStep
<1>4. ASSUME NEW inst \in Instr, NEW v \in Value, Execute(inst, v)
      PROVE  RegInv'
  BY <1>4, ExecuteStep
<1>5. ASSUME NEW v \in Value, SavePc(v)
      PROVE  RegInv'
  BY <1>5, SavePcStep
<1>6. ASSUME NEW name \in DebugName, NEW v \in 0..(2 * 2^Width - 1),
             WriteRegister(name, v)
      PROVE  RegInv'
  <2>1. v \in Nat
    BY RegisterFileAssumption
  <2> QED
    BY <1>6, <2>1, WriteRegisterStep, Zenon
<1>7. CASE UNCHANGED vars
  BY <1>7 DEF vars, RegInv, FileInv, ArchInv, Holds, OperandInv
<1> QED
  BY <1>1, <1>2, <1>3, <1>4, <1>5, <1>6, <1>7 DEF Next

LEMMA RegInvAlways == RegisterFileSpec => []RegInv
BY RegInit, RegStep, PTL DEF RegisterFileSpec

-----------------------------------------------------------------------------
(* What holds in every state. *)

LEMMA RegTypes == RegInv => TypeOK
<1> SUFFICES ASSUME RegInv PROVE TypeOK
  OBVIOUS
<1>1. Filed(file.registers, file.value, i) /\ i \in 0..32 /\ pc_ \in {0, 1}
  BY DEF RegInv, FileInv
<1> DEFINE r == file.registers
           v == file.value
<1> HIDE DEF r, v
<1>2. Filed(r, v, i)
  BY <1>1 DEF r, v
<1>3. v \in Seq(Value) /\ DOMAIN v = 1..Len(v)
  <2>1. v \in Seq(Value)
    BY <1>2, Zenon DEF Filed
  <2> QED
    BY <2>1, LenProperties
<1>4. Len(v) \in Nat /\ i + 1 <= Len(v) /\ ("CSR" \in DOMAIN r => Len(v) = 34)
  <2>1. Len(v) = IF "CSR" \in DOMAIN r THEN 34 ELSE i + 1
    BY <1>2, Zenon DEF Filed
  <2> QED
    BY <1>1, <2>1
<1>5. ASSUME NEW name \in DOMAIN r
      PROVE  r[name] \in DOMAIN v
  <2>1. \/ name = "pc" /\ r[name] = 1
        \/ name = "CSR" /\ r[name] = 34
        \/ \E n \in 0..31 : n < i /\ r[name] = n + 2
    BY <1>2 DEF Filed
  <2>2. CASE r[name] = 1
    BY <1>1, <1>3, <1>4, <2>2
  <2>3. CASE name = "CSR" /\ r[name] = 34
    <3>1. Len(v) = 34
      BY <1>4, <2>3, Zenon
    <3>2. 34 \in 1..34
      OBVIOUS
    <3> QED
      BY <1>3, <2>3, <3>1, <3>2, Zenon
  <2>4. CASE \E n \in 0..31 : n < i /\ r[name] = n + 2
    <3>1. PICK n \in 0..31 : n < i /\ r[name] = n + 2
      BY <2>4
    <3>2. n + 2 \in 1..Len(v)
      BY <1>1, <1>4, <3>1
    <3> QED
      BY <1>3, <3>1, <3>2
  <2> QED
    BY <2>1, <2>2, <2>3, <2>4
<1>6. pc_ \in 0..Len(v)
  BY <1>1, <1>4
<1> QED
  BY <1>1, <1>3, <1>5, <1>6 DEF TypeOK, RegInv, ArchInv, r, v

(* The type invariant of RegisterFile: whatever the constructor, the       *)
(* decoder and the debugger have filed, every name leads to a register     *)
(* object that exists and every register holds a value of its width.       *)
THEOREM TypeSafe == RegisterFileSpec => []TypeOK
BY RegInvAlways, RegTypes, PTL

(* SameRegister for every set of instructions, in whatever order they are  *)
(* decoded, dropped from the decode cache and decoded again.               *)
THEOREM SameRegisterSafe == RegisterFileSpec => []SameRegister
<1>1. RegInv => SameRegister
  <2> SUFFICES ASSUME RegInv, NEW inst \in Instr, NEW op \in operands[inst]
               PROVE  /\ op.rs1.name \in NamesOf(inst.rs1)
                      /\ inst.rd # 0 => op.rd.name \in NamesOf(inst.rd)
                      /\ \A o \in {op.rd, op.rs1, op.also} :
                             o.reg # 0 => o.reg = file.registers[o.name]
    BY DEF SameRegister
  <2> DEFINE r == file.registers
  <2>1. /\ inst.does \in {"alu", "jump", "csr"}
        /\ inst.rd \in 0..31 /\ inst.rs1 \in 0..31
    BY RegisterFileAssumption
  <2>2. /\ op = RightOperands(inst) /\ i = 32
        /\ inst.does = "csr" => "CSR" \in DOMAIN r
    BY DEF RegInv, OperandInv
  <2>3. Filed(r, file.value, 32)
    BY <2>2 DEF RegInv, FileInv
  <2> HIDE DEF r
  <2>4. r["pc"] = 1 /\ (inst.does = "csr" => r["CSR"] = 34)
    BY <2>2, <2>3 DEF Filed
  <2>5. \A n \in 0..31 : r[Alias(n)] = n + 2
    <3>1. \A n \in 0..31 : n < 32
      OBVIOUS
    <3> QED
      BY <2>3, <3>1, Zenon DEF Filed
  <2>6. /\ op.rs1.name \in NamesOf(inst.rs1)
        /\ inst.rd # 0 => op.rd.name \in NamesOf(inst.rd)
    BY <2>1, <2>2, NamesAre DEF RightOperands
  <2>7. op.rd.reg # 0 => op.rd.reg = r[op.rd.name]
    BY <2>1, <2>2, <2>5 DEF RightOperands
  <2>8. op.rs1.reg # 0 => op.rs1.reg = r[op.rs1.name]
    BY <2>1, <2>2, <2>5 DEF RightOperands
  <2>9. op.also.reg # 0 => op.also.reg = r[op.also.name]
    BY <2>1, <2>2, <2>4 DEF RightOperands
  <2> QED
    BY <2>6, <2>7, <2>8, <2>9 DEF r
<1> QED
  BY <1>1, RegInvAlways, PTL

(* RegisterView for every width and every set of instructions: what an     *)
(* instruction writes through its operand, the run loop through its        *)
(* pointer and the debugger by name is read back under every name.         *)
THEOREM RegisterViewSafe == RegisterFileSpec => []RegisterView
<1>1. RegInv => RegisterView
  <2> SUFFICES ASSUME RegInv, i = 32
               PROVE  /\ \A n \in 1..32 : \A name \in NamesOf(n) :
                             ReadRegister(name) = arch[n]
                      /\ arch[0] = 0
                      /\ Get(file.value, pc_) = arch[32]
    BY DEF RegisterView, Constructed
  <2> DEFINE r == file.registers
             v == file.value
  <2>1. Filed(r, v, 32) /\ pc_ = 1
    BY DEF RegInv, FileInv
  <2>2. Agree(v, arch)
    BY AgreeIs DEF RegInv
  <2> HIDE DEF r, v
  <2>3. ASSUME NEW n \in 1..31, NEW name \in NamesOf(n)
        PROVE  v[r[name]] = arch[n]
    <3>1. n \in 0..31 /\ n < 32
      OBVIOUS
    <3>2. r[XName(n)] = n + 2 /\ r[Alias(n)] = n + 2
      BY <2>1, <3>1, Zenon DEF Filed
    <3>3. r[name] = n + 2
      BY <3>1, <3>2, NamesAre
    <3> QED
      BY <2>2, <3>3 DEF Agree
  <2>4. ASSUME NEW name \in NamesOf(32)
        PROVE  v[r[name]] = arch[32]
    <3>1. r["pc"] = 1
      BY <2>1, Zenon DEF Filed
    <3> QED
      BY <2>2, <3>1, NamesAre DEF Agree
  <2>5. \A n \in 1..32 : n \in 1..31 \/ n = 32
    OBVIOUS
  <2>6. arch[0] = 0 /\ Get(v, pc_) = arch[32]
    BY <2>1, <2>2 DEF Agree, Get
  <2> QED
    BY <2>3, <2>4, <2>5, <2>6, Zenon DEF ReadRegister, r, v
<1> QED
  BY <1>1, RegInvAlways, PTL

=============================================================================
