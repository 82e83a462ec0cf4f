-------------------------------- MODULE Hart --------------------------------
(***************************************************************************)
(* The semantic functions of rv32i_instructions.cc, executed by the loop   *)
(* that Step() and the thread of Run() share.  An instruction tells the    *)
(* loop that it has jumped by giving the pc register another data buffer:  *)
(* the loop compares pointers, and buffers are recycled.  The width is a   *)
(* parameter, as in Isa; pc_db, next_pc and the members keep their names.  *)
(***************************************************************************)
EXTENDS Integers

CONSTANTS
    ByteBits,        \* bits in a byte
    Reg,             \* register numbers, x0 included
    DataAddr,        \* addresses of the bytes of data memory
    Instr,           \* decoded instructions: semantic function and operands
    Buffer,          \* data buffers of the factory
    InitReg,         \* contents the registers may start with
    InitPc,          \* contents the pc register may start with
    InitByte,        \* initial contents of memory
    DebugReg,        \* registers, besides the pc, the user writes to
    DebugData,       \* addresses of the bytes the user writes to
    DebugValue,      \* and the values the user writes
    MaxInstr         \* bound: instructions executed, after which nothing
                     \* but entering and leaving the loop is left

VARIABLES
    x,               \* contents of the registers x0, x1, ...
    mem,             \* memory_
    refs,            \* reference count of each data buffer
    contents,        \* the value in each data buffer
    pc_buffer,       \* pc_->data_buffer()
    loop,            \* is Step or Run in its loop?
    pc_db,           \* the loop's local pc_db
    next_pc,         \* the loop's local next_pc
    executed,        \* instructions executed (for the bound)
    last             \* history: the instruction executed last

loop_vars == <<loop, pc_db, next_pc>>
vars == <<x, mem, refs, contents, pc_buffer, loop_vars, executed, last>>

WordBits == 4 * ByteBits

(* Conversion to uint32_t and to int32_t. *)
Uint32(n) == n % 2^WordBits
Int32(n) ==
    IF Uint32(n) >= 2^(WordBits - 1) THEN Uint32(n) - 2^WordBits ELSE Uint32(n)

InstructionSize == 4

ASSUME HartAssumption ==
    /\ ByteBits \in Nat \ {0}
    /\ 0 \in Reg /\ Reg \subseteq Nat /\ DebugReg \subseteq Reg
    /\ DebugData \subseteq DataAddr
    /\ DataAddr \subseteq 0..(2^WordBits - 1)
    /\ MaxInstr \in Nat

Init ==
    /\ x \in InitReg
    /\ mem = InitByte
    /\ \E b \in Buffer, a \in InitPc :
           /\ refs = [d \in Buffer |-> IF d = b THEN 1 ELSE 0]
           /\ contents = [d \in Buffer |-> IF d = b THEN a ELSE 0]
           /\ pc_buffer = b
           /\ pc_db = b
           /\ next_pc = a
    /\ loop = FALSE
    /\ executed = 0
    /\ last = [func |-> "none"]

-----------------------------------------------------------------------------
(* Data buffers.  DecRef to zero returns a buffer to the factory, which    *)
(* hands it out again.                                                     *)

FreeBuffer == {b \in Buffer : refs[b] = 0}

Allocate(rc, b) == [rc EXCEPT ![b] = 1]
DecRef(rc, b) == [rc EXCEPT ![b] = @ - 1]

(* A LoadContext holds one reference through its value_db, a set of at     *)
(* most one buffer; ReleaseValue is "if (value_db) value_db->DecRef()".    *)
ReleaseValue(rc, value_db) ==
    [b \in Buffer |-> IF b \in value_db THEN rc[b] - 1 ELSE rc[b]]

(* Mutant: value_db is not cleared. *)
OnRefCountIsZeroKeeps(rc, value_db) ==
    [refs |-> ReleaseValue(rc, value_db), value_db |-> value_db]

OnRefCountIsZero(rc, value_db) ==
    [refs |-> ReleaseValue(rc, value_db), value_db |-> {}]

(* The last reference to a LoadContext goes: OnRefCountIsZero releases the *)
(* value, the base class deletes the object, and ~LoadContext releases     *)
(* what value_db still points at.                                          *)
ContextDecRef(rc, b) ==
    LET context == OnRefCountIsZero(rc, {b})
    IN  ReleaseValue(context.refs, context.value_db)

(* Submit on the pc register, latency 0: the register drops its buffer and *)
(* takes b, which holds v.                                                 *)
Submit(b, v) ==
    /\ b \in FreeBuffer
    /\ refs' = DecRef(Allocate(refs, b), pc_buffer)
    /\ contents' = [contents EXCEPT ![b] = v]
    /\ pc_buffer' = b

-----------------------------------------------------------------------------
(* Operands.  RiscV32IEncoding replaces x0 by the literal 0 as a source    *)
(* and by a DevNullOperand as a destination.                               *)

Source(i, k) ==
    LET operand == i.src[k] IN
    IF operand[1] = "x" /\ operand[2] # 0 THEN x[operand[2]]
    ELSE IF operand[1] = "x" THEN 0 ELSE operand[2]

Destination(rd, v) == IF rd = 0 THEN x ELSE [x EXCEPT ![rd] = v]

(* The address of the executing instruction, and of what it accesses. *)
Address == next_pc
MemoryAddress(i) == Uint32(Source(i, 1) + Source(i, 2))

Bit(n, k) == (n \div 2^k) % 2

(* A bitwise operator of C++ on uint32_t, one bit after the other. *)
BitByBit(op(_, _), a, b) ==
    LET acc[k \in 0..WordBits] ==
            IF k = 0 THEN 0
            ELSE acc[k - 1] + 2^(k - 1) * op(Bit(a, k - 1), Bit(b, k - 1))
    IN  acc[WordBits]

(* b & 0x1f *)
ShiftMask(b) == b % WordBits

BinaryOp(func, a, b) ==
    CASE func = "Add"  -> Uint32(a + b)
      [] func = "And"  -> BitByBit(LAMBDA p, q : p * q, a, b)
      [] func = "Or"   -> BitByBit(LAMBDA p, q : p + q - p * q, a, b)
      [] func = "Sll"  -> Uint32(a * 2^ShiftMask(b))
      [] func = "Sltu" -> IF a < b THEN 1 ELSE 0
      [] func = "Sra"  -> Uint32(Int32(a) \div 2^ShiftMask(b))
      [] func = "Srl"  -> a \div 2^ShiftMask(b)
      [] func = "Sub"  -> Uint32(a - b)
      [] func = "Xor"  -> BitByBit(LAMBDA p, q : (p + q) % 2, a, b)

BranchCondition(func, a, b) ==
    CASE func = "Beq"  -> a = b
      [] func = "Bge"  -> Int32(a) >= Int32(b)
      [] func = "Bgeu" -> a >= b
      [] func = "Blt"  -> Int32(a) < Int32(b)
      [] func = "Bltu" -> a < b
      [] func = "Bne"  -> a # b

(* The value types of the store and load templates. *)
ValueType ==
    LET type(size, signed) == [size |-> size, signed |-> signed] IN
    [Sw |-> type(4, FALSE), Sh |-> type(2, FALSE), Sb |-> type(1, FALSE),
     Lw |-> type(4, FALSE), Lh |-> type(2, TRUE), Lhu |-> type(2, FALSE),
     Lb |-> type(1, TRUE), Lbu |-> type(1, FALSE)]

Accessed(i) ==
    MemoryAddress(i)..(MemoryAddress(i) + ValueType[i.func].size - 1)

(* Memory keeps the bytes of a buffer, the least significant one first. *)
StoreBytes(i, v) ==
    [a \in DataAddr |->
        IF a \in Accessed(i)
        THEN (v \div 2^(ByteBits * (a - MemoryAddress(i)))) % 2^ByteBits
        ELSE mem[a]]

LoadBytes(i) ==
    LET sum[n \in 0..ValueType[i.func].size] ==
            IF n = 0 THEN 0
            ELSE sum[n - 1]
                 + mem[MemoryAddress(i) + n - 1] * 2^(ByteBits * (n - 1))
    IN  sum[ValueType[i.func].size]

(* static_cast<uint32_t>(Get<ValueType>(0)) *)
LoadedValue(type, v) ==
    LET bits == ByteBits * type.size IN
    IF type.signed /\ v >= 2^(bits - 1) THEN Uint32(v - 2^bits) ELSE v

-----------------------------------------------------------------------------
(* The loop of Step and Run. *)

(* pc_db and next_pc are set before the loop. *)
LoopBegin ==
    /\ ~loop
    /\ loop' = TRUE
    /\ pc_db' = pc_buffer
    /\ next_pc' = contents[pc_buffer]
    /\ UNCHANGED <<x, mem, refs, contents, pc_buffer, executed, last>>

(* Mutant: the loop goes on comparing with the buffer it started from. *)
NextPcStaleBuffer ==
    /\ next_pc' = IF pc_db # pc_buffer' THEN contents'[pc_buffer']
                  ELSE Uint32(next_pc + InstructionSize)
    /\ UNCHANGED pc_db

(* After an instruction: has it given the pc register another buffer? *)
NextPc ==
    /\ pc_db' = pc_buffer'
    /\ next_pc' = IF pc_db # pc_buffer' THEN contents'[pc_buffer']
                  ELSE Uint32(next_pc + InstructionSize)

Executes(i) ==
    /\ loop
    /\ executed < MaxInstr
    /\ executed' = executed + 1
    /\ last' = i
    /\ NextPc
    /\ UNCHANGED loop

ExecuteBinaryOp(i) ==
    /\ i.func \in {"Add", "And", "Or", "Sll", "Sltu", "Sra", "Srl", "Sub",
                   "Xor"}
    /\ x' = Destination(i.rd, BinaryOp(i.func, Source(i, 1), Source(i, 2)))
    /\ UNCHANGED <<mem, refs, contents, pc_buffer>>
    /\ Executes(i)

ExecuteLui(i) ==
    /\ i.func = "Lui"
    /\ x' = Destination(i.rd, Source(i, 1))
    /\ UNCHANGED <<mem, refs, contents, pc_buffer>>
    /\ Executes(i)

ExecuteAuipc(i) ==
    /\ i.func = "Auipc"
    /\ x' = Destination(i.rd, Uint32(Source(i, 1) + Address))
    /\ UNCHANGED <<mem, refs, contents, pc_buffer>>
    /\ Executes(i)

(* BranchConditional: an untaken branch leaves the pc register alone. *)
ExecuteBranch(i) ==
    /\ i.func \in {"Beq", "Bge", "Bgeu", "Blt", "Bltu", "Bne"}
    /\ IF BranchCondition(i.func, Source(i, 1), Source(i, 2))
       THEN \E b \in Buffer : Submit(b, Uint32(Source(i, 3) + Address))
       ELSE UNCHANGED <<refs, contents, pc_buffer>>
    /\ UNCHANGED <<x, mem>>
    /\ Executes(i)

ReturnAddress == Uint32(Address + InstructionSize)

ExecuteJal(i) ==
    /\ i.func = "Jal"
    /\ \E b \in Buffer : Submit(b, Uint32(Source(i, 1) + Address))
    /\ x' = Destination(i.rd, ReturnAddress)
    /\ UNCHANGED mem
    /\ Executes(i)

(* reg_base is read before rd, which may be the same register, is written; *)
(* the target is the sum as it is, odd or even.                            *)
ExecuteJalr(i) ==
    /\ i.func = "Jalr"
    /\ \E b \in Buffer : Submit(b, Uint32(Source(i, 2) + Source(i, 1)))
    /\ x' = Destination(i.rd, ReturnAddress)
    /\ UNCHANGED mem
    /\ Executes(i)

(* StoreValue: allocate a buffer, store it, release it. *)
ExecuteStore(i) ==
    /\ i.func \in {"Sw", "Sh", "Sb"}
    /\ Accessed(i) \subseteq DataAddr
    /\ \E b \in FreeBuffer : refs' = DecRef(Allocate(refs, b), b)
    /\ mem' = StoreBytes(i, Source(i, 3))
    /\ UNCHANGED <<x, contents, pc_buffer>>
    /\ Executes(i)

(* LoadValue, with LoadValueChild called from within LoadMemory, since the *)
(* buffer's latency is 0; then the LoadContext is released.                *)
ExecuteLoad(i) ==
    /\ i.func \in {"Lw", "Lh", "Lhu", "Lb", "Lbu"}
    /\ Accessed(i) \subseteq DataAddr
    /\ \E b \in FreeBuffer : refs' = ContextDecRef(Allocate(refs, b), b)
    /\ x' = Destination(i.rd, LoadedValue(ValueType[i.func], LoadBytes(i)))
    /\ UNCHANGED <<mem, contents, pc_buffer>>
    /\ Executes(i)

(* What has no effect on the machine: RiscVState::Fence is empty, EBreak   *)
(* without a breakpoint and an illegal instruction are reported and then   *)
(* ignored, and the CSR functions have no body yet.                        *)
ExecuteNop(i, functions) ==
    /\ i.func \in functions
    /\ UNCHANGED <<x, mem, refs, contents, pc_buffer>>
    /\ Executes(i)

ExecuteFence(i) == ExecuteNop(i, {"Fence"})
ExecuteEbreak(i) == ExecuteNop(i, {"Ebreak"})
ExecuteIllegal(i) == ExecuteNop(i, {"Illegal"})
ExecuteCsr(i) == ExecuteNop(i, {"ZiCsrs", "ZiCsrwNr", "ZiCsrsNw"})

(* Leaving the loop: the pc register can be read again. *)
LoopEnd ==
    /\ loop
    /\ contents' = [contents EXCEPT ![pc_db] = next_pc]
    /\ loop' = FALSE
    /\ UNCHANGED <<x, mem, refs, pc_buffer, pc_db, next_pc, executed, last>>

(* WriteRegister writes into the register's buffer, x0's included. *)
WriteRegister(r, v) ==
    /\ ~loop
    /\ executed < MaxInstr
    /\ x' = [x EXCEPT ![r] = v]
    /\ UNCHANGED <<mem, refs, contents, pc_buffer, loop_vars, executed, last>>

WritePc(v) ==
    /\ ~loop
    /\ executed < MaxInstr
    /\ contents' = [contents EXCEPT ![pc_buffer] = v]
    /\ UNCHANGED <<x, mem, refs, pc_buffer, loop_vars, executed, last>>

(* WriteMemory of one byte, through a buffer of RV32ITop's own factory. *)
WriteMemory(a, v) ==
    /\ ~loop
    /\ executed < MaxInstr
    /\ mem' = [mem EXCEPT ![a] = v % 2^ByteBits]
    /\ UNCHANGED <<x, refs, contents, pc_buffer, loop_vars, executed, last>>

Next ==
    \/ LoopBegin \/ LoopEnd
    \/ \E i \in Instr :
           \/ ExecuteBinaryOp(i) \/ ExecuteLui(i) \/ ExecuteAuipc(i)
           \/ ExecuteBranch(i) \/ ExecuteJal(i) \/ ExecuteJalr(i)
           \/ ExecuteStore(i) \/ ExecuteLoad(i) \/ ExecuteFence(i)
           \/ ExecuteEbreak(i) \/ ExecuteIllegal(i) \/ ExecuteCsr(i)
    \/ \E v \in DebugValue :
           \/ \E r \in DebugReg : WriteRegister(r, v)
           \/ WritePc(v)
           \/ \E a \in DebugData : WriteMemory(a, v)

Spec == Init /\ [][Next]_vars

-----------------------------------------------------------------------------
(* Properties. *)

(* Between instructions the only data buffer in use is the pc register's:  *)
(* loads, stores and jumps release what they allocate, once.               *)
BuffersBalanced ==
    \A b \in Buffer : refs[b] = IF b = pc_buffer THEN 1 ELSE 0

(* Where the semantic function of an instruction sends the program. *)
Successor(i) ==
    CASE i.func \in {"Beq", "Bge", "Bgeu", "Blt", "Bltu", "Bne"} ->
             IF BranchCondition(i.func, Source(i, 1), Source(i, 2))
             THEN Uint32(Source(i, 3) + Address)
             ELSE Uint32(Address + InstructionSize)
      [] i.func = "Jal"  -> Uint32(Source(i, 1) + Address)
      [] i.func = "Jalr" -> Uint32(Source(i, 2) + Source(i, 1))
      [] OTHER           -> Uint32(Address + InstructionSize)

(* The loop, which only compares pointers to buffers that are handed out   *)
(* again and again, notices every jump and takes nothing else for one; the *)
(* pc that it leaves in the register is the one it has reached, however    *)
(* many buffers the register has had since the loop began.                 *)
JumpsNoticed ==
    [][ /\ executed' # executed => next_pc' = Successor(last')
        /\ loop /\ ~loop' => contents'[pc_buffer'] = next_pc ]_vars

=============================================================================
