--------------------------- MODULE DecoderProofs ----------------------------
(***************************************************************************)
(* Proofs about the decoder: for all words, no word has two opcodes, and   *)
(* every call of DecodeInstruction gives the instruction of the address    *)
(* asked about unless it overlaps one that GetInstruction makes while the  *)
(* core runs.                                                              *)
(***************************************************************************)
EXTENDS Decoder, FiniteSetTheorems, TLAPS

(* run_status_ separates the two callers: the run thread decodes while the *)
(* core runs, the user while it does not, except in GetInstruction.  When  *)
(* both are in the decoder, both are marked.                               *)
Separated ==
    /\ run_status \in {"kHalted", "kRunning"}
    /\ run_status = "kHalted" => call["run"].at = "none"
    /\ run_status = "kRunning" /\ InDecoder("user") =>
           call["user"].by = "GetInstruction"
    /\ InDecoder("user") /\ InDecoder("run") => raced = Caller

(* The instruction of the word at the address a caller asked about. *)
Right(t) == Decode(DecodeRiscVInst32(memory[t]), memory[t])

(* What calls DecodeInstruction. *)
Entry == {"GetDisassembly", "GetInstruction", "Run"}

(* A call's record by the step it is at. *)
Shape(t) ==
    \/ call[t] = [at |-> "none"]
    \/ \E a \in {"load", "parse", "decode"}, b \in Entry :
           call[t] = [at |-> a, by |-> b]
    \/ \E i : call[t] = [at |-> "done", inst |-> i]

(* What a call that is not marked has returned, and what the decoder's     *)
(* members hold for it while it uses them.                                 *)
Progress(t) ==
    t \notin raced =>
        /\ call[t].at = "parse" => inst_db = memory[t]
        /\ call[t].at = "decode" =>
               inst_word = memory[t] /\ opcode = DecodeRiscVInst32(memory[t])
        /\ call[t].at = "done" => call[t].inst = Right(t)

DecoderInv ==
    /\ call = [t \in Caller |-> call[t]]
    /\ Separated
    /\ \A t \in Caller : Shape(t) /\ Progress(t)

-----------------------------------------------------------------------------
(* Two callers in the decoder at once are marked. *)
LEMMA OtherCaller ==
    ASSUME Separated, NEW t \in Caller, NEW s \in Caller, s # t, InDecoder(t),
           s \notin raced
    PROVE  ~InDecoder(s)
BY DEF Separated, Caller

(* A step of caller t inside DecodeInstruction. *)
LEMMA DecodeStep ==
    ASSUME DecoderInv, NEW t \in Caller,
           Load(t) \/ ParseInstruction(t) \/ BuildInstruction(t)
    PROVE  DecoderInv'
<1>1. /\ UNCHANGED <<memory, run_status, raced>>
      /\ InDecoder(t)
  BY DEF Load, ParseInstruction, BuildInstruction, InDecoder
<1>2. PICK a \in {"load", "parse", "decode"}, b \in Entry :
          call[t] = [at |-> a, by |-> b]
  BY <1>1 DEF DecoderInv, Shape, InDecoder
<1>3. /\ call' = [s \in Caller |-> call'[s]]
      /\ \A s \in Caller : s # t => call'[s] = call[s]
      /\ Load(t) => call'[t] = [at |-> "parse", by |-> b]
      /\ ParseInstruction(t) => call'[t] = [at |-> "decode", by |-> b]
      /\ BuildInstruction(t) =>
             call'[t] = [at |-> "done", inst |-> Decode(opcode, inst_word)]
  <2> HIDE DEF Decode
  <2> QED
    BY <1>2 DEF DecoderInv, Load, ParseInstruction, BuildInstruction
<1>4. Separated'
  BY <1>1, <1>2, <1>3 DEF DecoderInv, Separated, InDecoder, Caller
<1>5. ASSUME NEW s \in Caller
      PROVE  Shape(s)'
  BY <1>3 DEF DecoderInv, Shape
<1>6. ASSUME NEW s \in Caller
      PROVE  Progress(s)'
  <2> SUFFICES ASSUME s \notin raced PROVE Progress(s)'
    BY <1>1 DEF Progress
  <2>1. CASE s # t
    <3>1. ~InDecoder(s)
      BY <1>1, <2>1, OtherCaller DEF DecoderInv
    <3> QED
      BY <1>1, <1>3, <2>1, <3>1 DEF DecoderInv, Progress, InDecoder, Right
  <2>2. CASE s = t
    <3>1. CASE Load(t)
      BY <1>1, <1>3, <2>2, <3>1 DEF Load, Progress
    <3>2. CASE ParseInstruction(t)
      BY <1>1, <1>3, <2>2, <3>2 DEF ParseInstruction, DecoderInv, Progress
    <3>3. CASE BuildInstruction(t)
      BY <1>1, <1>3, <2>2, <3>3 DEF BuildInstruction, DecoderInv, Progress,
         Right
    <3> QED
      BY <3>1, <3>2, <3>3
  <2> QED
    BY <2>1, <2>2
<1> QED
  BY <1>3, <1>4, <1>5, <1>6 DEF DecoderInv

(* A call begins. *)
LEMMA CallStep ==
    ASSUME DecoderInv, GetDisassembly \/ GetInstruction \/ RunFetch
    PROVE  DecoderInv'
<1>1. UNCHANGED <<memory, run_status, inst_db, inst_word, opcode>>
  BY DEF GetDisassembly, GetInstruction, RunFetch
<1>2. PICK t \in Caller, b \in Entry :
          /\ Begin(t, b)
          /\ \/ t = "user" /\ b = "GetInstruction"
             \/ t = "user" /\ run_status = "kHalted"
             \/ t = "run" /\ run_status = "kRunning"
  BY DEF GetDisassembly, CoreHalted, GetInstruction, RunFetch, Caller,
     Entry
<1>3. /\ call' = [s \in Caller |-> call'[s]]
      /\ \A s \in Caller : s # t => call'[s] = call[s]
      /\ call'[t] = [at |-> "load", by |-> b]
  BY <1>2 DEF DecoderInv, Begin
<1>4. raced' = Caller \/ raced' = raced \ {t}
  BY <1>2 DEF Begin
<1>5. \A s \in Caller : s # t /\ InDecoder(s) => raced' = Caller
  <2> SUFFICES ASSUME NEW s \in Caller, s # t, InDecoder(s)
               PROVE  Overlaps(t, b)
    BY <1>2 DEF Begin
  <2>1. "GetInstruction" \in {b, call[s].by}
    BY <1>2 DEF DecoderInv, Separated, InDecoder, Caller
  <2> QED
    BY <2>1 DEF Overlaps
<1>6. Separated'
  <2>1. (run_status = "kHalted" => call["run"].at = "none")'
    BY <1>1, <1>2, <1>3 DEF DecoderInv, Separated, Caller
  <2>2. (run_status = "kRunning" /\ InDecoder("user") =>
             call["user"].by = "GetInstruction")'
    BY <1>1, <1>2, <1>3 DEF DecoderInv, Separated, Caller, InDecoder
  <2>3. (InDecoder("user") /\ InDecoder("run") => raced = Caller)'
    BY <1>3, <1>5 DEF InDecoder, Caller
  <2> QED
    BY <1>1, <2>1, <2>2, <2>3 DEF DecoderInv, Separated
<1>7. \A s \in Caller : Shape(s)'
  BY <1>3 DEF DecoderInv, Shape
<1>8. \A s \in Caller : Progress(s)'
  BY <1>1, <1>3, <1>4 DEF DecoderInv, Progress, Right
<1> QED
  BY <1>3, <1>6, <1>7, <1>8 DEF DecoderInv

(* The result of a call is taken. *)
LEMMA ReturnStep ==
    ASSUME DecoderInv, NEW t \in Caller, Return(t)
    PROVE  DecoderInv'
<1>1. /\ UNCHANGED <<memory, run_status, inst_db, inst_word, opcode, raced>>
      /\ call' = [s \in Caller |-> call'[s]]
      /\ \A s \in Caller : s # t => call'[s] = call[s]
      /\ call'[t] = [at |-> "none"]
  BY DEF Return, NoCall, DecoderInv
<1>2. Separated'
  BY <1>1 DEF DecoderInv, Separated, InDecoder, Caller
<1>3. \A s \in Caller : Shape(s)'
  BY <1>1 DEF DecoderInv, Shape
<1>4. \A s \in Caller : Progress(s)'
  BY <1>1 DEF DecoderInv, Progress, Right
<1> QED
  BY <1>1, <1>2, <1>3, <1>4 DEF DecoderInv

LEMMA DecoderStep ==
    ASSUME DecoderInv, [Next]_vars
    PROVE  DecoderInv'
<1>1. CASE Run \/ RunHalted
  <2>1. /\ UNCHANGED <<memory, inst_db, inst_word, opcode, call, raced>>
        /\ \/ /\ call["user"].at \in {"none", "done"}
              /\ run_status' = "kRunning"
           \/ call["run"].at = "none" /\ run_status' = "kHalted"
    BY <1>1 DEF Run, RunHalted
  <2>2. Separated'
    BY <2>1 DEF DecoderInv, Separated, InDecoder
  <2> QED
    BY <2>1, <2>2 DEF DecoderInv, Shape, Progress, Right
<1>2. CASE UNCHANGED vars
  BY <1>2 DEF vars, DecoderInv, Separated, InDecoder, Shape, Progress, Right
<1> QED
  BY <1>1, <1>2, DecodeStep, CallStep, ReturnStep DEF Next

(* Each caller of DecodeInstruction gets the instruction of the word at    *)
(* the address it asked about, whatever the words and the interleaving,    *)
(* although the members that carry it are shared and unprotected.  The one *)
(* exception is a decode that overlaps one which GetInstruction, which     *)
(* does not check run_status_, makes on a running core.                    *)
THEOREM OwnWordSafe == Spec => []OwnWordDecoded
<1>1. Init => DecoderInv
  BY DEF Init, DecoderInv, Separated, Shape, Progress, NoCall, Caller,
     InDecoder
<1>2. DecoderInv /\ [Next]_vars => DecoderInv'
  BY DecoderStep
<1>3. DecoderInv => OwnWordDecoded
  BY DEF DecoderInv, Progress, OwnWordDecoded, Right
<1> QED
  BY <1>1, <1>2, <1>3, PTL DEF Spec

-----------------------------------------------------------------------------
LEMMA BitOf ==
    ASSUME NEW n \in Nat
    PROVE  /\ 0 \in Bits(n) <=> n % 2 = 1
           /\ 1 \in Bits(n) <=> (n \div 2) % 2 = 1
           /\ 2 \in Bits(n) <=> (n \div 4) % 2 = 1
           /\ 3 \in Bits(n) <=> (n \div 8) % 2 = 1
           /\ 4 \in Bits(n) <=> (n \div 16) % 2 = 1
           /\ 5 \in Bits(n) <=> (n \div 32) % 2 = 1
           /\ 6 \in Bits(n) <=> (n \div 64) % 2 = 1
BY DEF Bits, Powers

LEMMA FromBits ==
    ASSUME NEW n \in 0..127
    PROVE  n = (n % 2) + 2 * ((n \div 2) % 2) + 4 * ((n \div 4) % 2)
               + 8 * ((n \div 8) % 2) + 16 * ((n \div 16) % 2)
               + 32 * ((n \div 32) % 2) + 64 * ((n \div 64) % 2)
<1>1. n = (n % 2) + 2 * (n \div 2) /\ n \div 2 \in Nat
  OBVIOUS
<1>2. n \div 2 = ((n \div 2) % 2) + 2 * (n \div 4) /\ n \div 4 \in Nat
  OBVIOUS
<1>3. n \div 4 = ((n \div 4) % 2) + 2 * (n \div 8) /\ n \div 8 \in Nat
  OBVIOUS
<1>4. n \div 8 = ((n \div 8) % 2) + 2 * (n \div 16) /\ n \div 16 \in Nat
  OBVIOUS
<1>5. n \div 16 = ((n \div 16) % 2) + 2 * (n \div 32) /\ n \div 32 \in Nat
  OBVIOUS
<1>6. n \div 32 = ((n \div 32) % 2) + 2 * (n \div 64) /\ n \div 64 \in Nat
  OBVIOUS
<1>7. n \div 64 = (n \div 64) % 2
  OBVIOUS
<1> QED
  BY <1>1, <1>2, <1>3, <1>4, <1>5, <1>6, <1>7

LEMMA BitsDiffer ==
    ASSUME NEW m \in 0..127, NEW n \in 0..127, Bits(m) = Bits(n)
    PROVE  m = n
<1>1. /\ m % 2 = n % 2
      /\ (m \div 2) % 2 = (n \div 2) % 2
      /\ (m \div 4) % 2 = (n \div 4) % 2
      /\ (m \div 8) % 2 = (n \div 8) % 2
      /\ (m \div 16) % 2 = (n \div 16) % 2
      /\ (m \div 32) % 2 = (n \div 32) % 2
      /\ (m \div 64) % 2 = (n \div 64) % 2
  BY BitOf
<1> QED
  BY <1>1, FromBits, Zenon

(* The entries of the instruction group, by major opcode. *)
LEMMA OpRows ==
    /\ RiscVInst32["add"] = RType(0, 0, 51)
    /\ RiscVInst32["and"] = RType(0, 7, 51)
    /\ RiscVInst32["or"] = RType(0, 6, 51)
    /\ RiscVInst32["sll"] = RType(0, 1, 51)
    /\ RiscVInst32["sltu"] = RType(0, 3, 51)
    /\ RiscVInst32["sub"] = RType(32, 0, 51)
    /\ RiscVInst32["xor"] = RType(0, 4, 51)
BY DEF RiscVInst32

LEMMA OpImmRows ==
    /\ RiscVInst32["addi"] = Other(0, 19)
    /\ RiscVInst32["andi"] = Other(7, 19)
    /\ RiscVInst32["ori"] = Other(6, 19)
    /\ RiscVInst32["xori"] = Other(4, 19)
    /\ RiscVInst32["slli"] = RType(0, 1, 19)
    /\ RiscVInst32["srai"] = RType(32, 5, 19)
    /\ RiscVInst32["srli"] = RType(0, 5, 19)
BY DEF RiscVInst32

LEMMA BranchRows ==
    /\ RiscVInst32["beq"] = Other(0, 99)
    /\ RiscVInst32["bge"] = Other(5, 99)
    /\ RiscVInst32["bgeu"] = Other(7, 99)
    /\ RiscVInst32["blt"] = Other(4, 99)
    /\ RiscVInst32["bltu"] = Other(6, 99)
    /\ RiscVInst32["bne"] = Other(1, 99)
BY DEF RiscVInst32

LEMMA StoreRows ==
    /\ RiscVInst32["sb"] = Other(0, 35)
    /\ RiscVInst32["sh"] = Other(1, 35)
    /\ RiscVInst32["sw"] = Other(2, 35)
BY DEF RiscVInst32

LEMMA LoadRows ==
    /\ RiscVInst32["lb"] = Other(0, 3)
    /\ RiscVInst32["lbu"] = Other(4, 3)
    /\ RiscVInst32["lh"] = Other(1, 3)
    /\ RiscVInst32["lhu"] = Other(5, 3)
    /\ RiscVInst32["lw"] = Other(2, 3)
BY DEF RiscVInst32

LEMMA SystemRows ==
    /\ RiscVInst32["ebreak"] = [bits |-> 8192, opcode |-> 115]
    /\ RiscVInst32["csrs"] = Other(2, 115)
    /\ RiscVInst32["csrw_nr"] = [func3 |-> 1, rd |-> 0, opcode |-> 115]
    /\ RiscVInst32["csrs_nw"] = [func3 |-> 2, rs1 |-> 0, opcode |-> 115]
BY DEF RiscVInst32

LEMMA OtherRows ==
    /\ RiscVInst32["auipc"] = UType(23)
    /\ RiscVInst32["lui"] = UType(55)
    /\ RiscVInst32["jal"] = UType(111)
    /\ RiscVInst32["jalr"] = Other(0, 103)
    /\ RiscVInst32["fence"] = Other(0, 15)
BY DEF RiscVInst32

LEMMA OpcodeIs ==
    Opcode =
        {"add", "and", "or", "sll", "sltu", "sub", "xor", "addi", "andi",
         "ori", "xori", "slli", "srai", "srli", "beq", "bge", "bgeu", "blt",
         "bltu", "bne", "sb", "sh", "sw", "lb", "lbu", "lh", "lhu", "lw",
         "ebreak", "csrs", "csrw_nr", "csrs_nw", "auipc", "lui", "jal",
         "jalr", "fence"}
BY DEF Opcode, RiscVInst32

(* The major opcode of an entry tells its group. *)
LEMMA MajorOpcode ==
    ASSUME NEW o \in Opcode
    PROVE  LET major == RiscVInst32[o].opcode IN
           \/ major = 51 /\ o \in {"add", "and", "or", "sll", "sltu", "sub", "xor"}
           \/ major = 19 /\ o \in {"addi", "andi", "ori", "xori", "slli", "srai",
                                   "srli"}
           \/ major = 99 /\ o \in {"beq", "bge", "bgeu", "blt", "bltu", "bne"}
           \/ major = 35 /\ o \in {"sb", "sh", "sw"}
           \/ major = 3 /\ o \in {"lb", "lbu", "lh", "lhu", "lw"}
           \/ major = 115 /\ o \in {"ebreak", "csrs", "csrw_nr", "csrs_nw"}
           \/ major = 23 /\ o = "auipc"
           \/ major = 55 /\ o = "lui"
           \/ major = 111 /\ o = "jal"
           \/ major = 103 /\ o = "jalr"
           \/ major = 15 /\ o = "fence"
BY OpcodeIs, OpRows, OpImmRows, BranchRows, StoreRows, LoadRows, SystemRows,
   OtherRows DEF RType, Other, UType

LEMMA HasOpcode ==
    ASSUME NEW o \in Opcode
    PROVE  "opcode" \in DOMAIN RiscVInst32[o]
BY OpcodeIs, OpRows, OpImmRows, BranchRows, StoreRows, LoadRows, SystemRows,
   OtherRows DEF RType, Other, UType

(* Two entries that a word matches agree on every field both constrain. *)
LEMMA SameLiteral ==
    ASSUME NEW w, NEW o, NEW p, Matches(o, w), Matches(p, w),
           NEW f, f \in DOMAIN RiscVInst32[o], f \in DOMAIN RiscVInst32[p],
           RiscVInst32[o][f] \in 0..127, RiscVInst32[p][f] \in 0..127
    PROVE  RiscVInst32[o][f] = RiscVInst32[p][f]
<1>1. Bits(RiscVInst32[o][f]) = Bits(RiscVInst32[p][f])
  BY DEF Matches
<1> QED
  BY <1>1, BitsDiffer

(* The whole word of ebreak, whose bits above the opcode are a constraint  *)
(* of their own, has no bit in the field func3.                            *)
LEMMA EbreakWord ==
    ASSUME NEW w, Matches("ebreak", w)
    PROVE  12 \notin w /\ 13 \notin w
<1>1. Extract(w, bits_field) = Bits(8192)
  BY SystemRows DEF Matches, FieldOf
<1>2. 5 \notin Bits(8192) /\ 6 \notin Bits(8192)
  BY BitOf
<1>3. /\ 12 \in w => 5 \in Extract(w, bits_field)
      /\ 13 \in w => 6 \in Extract(w, bits_field)
  <2>1. Len(bits_field) = 25 /\ DOMAIN bits_field = 1..25
        /\ bits_field[20] = 12 /\ bits_field[19] = 13
    BY DEF bits_field, Field
  <2> QED
    BY <2>1 DEF Extract
<1> QED
  BY <1>1, <1>2, <1>3

LEMMA CsrWord ==
    ASSUME NEW w, NEW o \in {"csrs", "csrw_nr", "csrs_nw"}, Matches(o, w)
    PROVE  12 \in w \/ 13 \in w
<1>1. Extract(w, func3_field) = Bits(1) \/ Extract(w, func3_field) = Bits(2)
  BY SystemRows DEF Matches, FieldOf, Other
<1>2. 0 \in Bits(1) /\ 1 \in Bits(2)
  BY BitOf
<1>3. /\ 0 \in Extract(w, func3_field) => 12 \in w
      /\ 1 \in Extract(w, func3_field) => 13 \in w
  <2>1. Len(func3_field) = 3 /\ DOMAIN func3_field = 1..3
        /\ func3_field[3] = 12 /\ func3_field[2] = 13
    BY DEF func3_field, Field
  <2> QED
    BY <2>1 DEF Extract
<1> QED
  BY <1>1, <1>2, <1>3

LEMMA UniqueMatch ==
    ASSUME NEW w, NEW o \in Opcode, NEW p \in Opcode,
           Matches(o, w), Matches(p, w)
    PROVE  o = p
<1>1. RiscVInst32[o].opcode = RiscVInst32[p].opcode
  <2>1. RiscVInst32[o].opcode \in 0..127
    BY MajorOpcode
  <2>2. RiscVInst32[p].opcode \in 0..127
    BY MajorOpcode
  <2>3. "opcode" \in DOMAIN RiscVInst32[o] /\ "opcode" \in DOMAIN RiscVInst32[p]
    BY HasOpcode
  <2> QED
    BY <2>1, <2>2, <2>3, SameLiteral
<1>2. CASE o \in {"add", "and", "or", "sll", "sltu", "sub", "xor"}
  <2>1. p \in {"add", "and", "or", "sll", "sltu", "sub", "xor"}
    BY <1>1, <1>2, MajorOpcode
  <2>2. /\ RiscVInst32[o].func3 = RiscVInst32[p].func3
        /\ RiscVInst32[o].func7 = RiscVInst32[p].func7
    BY <1>2, <2>1, OpRows, SameLiteral DEF RType
  <2> QED
    BY <1>2, <2>1, <2>2, OpRows DEF RType
<1>3. CASE o \in {"addi", "andi", "ori", "xori", "slli", "srai", "srli"}
  <2>1. p \in {"addi", "andi", "ori", "xori", "slli", "srai", "srli"}
    BY <1>1, <1>3, MajorOpcode
  <2>2. RiscVInst32[o].func3 = RiscVInst32[p].func3
    BY <1>3, <2>1, OpImmRows, SameLiteral DEF RType, Other
  <2>3. o \in {"srai", "srli"} /\ p \in {"srai", "srli"} =>
            RiscVInst32[o].func7 = RiscVInst32[p].func7
    BY <1>3, <2>1, OpImmRows, SameLiteral DEF RType
  <2> QED
    BY <1>3, <2>1, <2>2, <2>3, OpImmRows DEF RType, Other
<1>4. CASE o \in {"beq", "bge", "bgeu", "blt", "bltu", "bne"}
  <2>1. p \in {"beq", "bge", "bgeu", "blt", "bltu", "bne"}
    BY <1>1, <1>4, MajorOpcode
  <2>2. RiscVInst32[o].func3 = RiscVInst32[p].func3
    BY <1>4, <2>1, BranchRows, SameLiteral DEF Other
  <2> QED
    BY <1>4, <2>1, <2>2, BranchRows DEF Other
<1>5. CASE o \in {"sb", "sh", "sw", "lb", "lbu", "lh", "lhu", "lw"}
  <2>1. \/ o \in {"sb", "sh", "sw"} /\ p \in {"sb", "sh", "sw"}
        \/ /\ o \in {"lb", "lbu", "lh", "lhu", "lw"}
           /\ p \in {"lb", "lbu", "lh", "lhu", "lw"}
    BY <1>1, <1>5, MajorOpcode
  <2>2. RiscVInst32[o].func3 = RiscVInst32[p].func3
    BY <2>1, StoreRows, LoadRows, SameLiteral DEF Other
  <2> QED
    BY <2>1, <2>2, StoreRows, LoadRows DEF Other
<1>6. CASE o \in {"ebreak", "csrs", "csrw_nr", "csrs_nw"}
  <2>1. p \in {"ebreak", "csrs", "csrw_nr", "csrs_nw"}
    BY <1>1, <1>6, MajorOpcode
  <2>2. o = "ebreak" <=> p = "ebreak"
    BY <1>6, <2>1, EbreakWord, CsrWord
  <2>3. o # "ebreak" => RiscVInst32[o].func3 = RiscVInst32[p].func3
    BY <1>6, <2>1, <2>2, SystemRows, SameLiteral DEF Other
  <2>4. Matches("csrs", w) => ~Matches("csrs_nw", w)
    <3>1. Bits(0) = {}
      BY DEF Bits, Powers
    <3> QED
      BY <3>1, SystemRows DEF Matches, FieldOf
  <2> QED
    BY <1>6, <2>1, <2>2, <2>3, <2>4, SystemRows DEF Other
<1>7. CASE o \in {"auipc", "lui", "jal", "jalr", "fence"}
  BY <1>1, <1>7, MajorOpcode
<1> QED
  BY <1>2, <1>3, <1>4, <1>5, <1>6, <1>7, OpcodeIs

(* No 32-bit word satisfies the constraints of two entries of RiscVInst32, *)
(* so the order in which the generated decoder tries them is irrelevant:   *)
(* for every word that memory may hold, not only for those a run decodes.  *)
THEOREM UnambiguousSafe == Spec => []Unambiguous
<1>1. ASSUME NEW w
      PROVE  Cardinality(Matching(w)) <= 1
  <2>1. Matching(w) = {} \/ \E o : Matching(w) = {o}
    BY UniqueMatch DEF Matching
  <2>2. CASE Matching(w) = {}
    BY <2>2, FS_EmptySet
  <2>3. ASSUME NEW o, Matching(w) = {o}
        PROVE  Cardinality(Matching(w)) <= 1
    <3>1. Cardinality({o}) = 1
      BY FS_Singleton
    <3> QED
      BY <2>3, <3>1
  <2> QED
    BY <2>1, <2>2, <2>3
<1>2. Unambiguous
  BY <1>1 DEF Unambiguous
<1> QED
  BY <1>2, PTL

=============================================================================
