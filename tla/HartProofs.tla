----------------------------- MODULE HartProofs -----------------------------
(***************************************************************************)
(* The data buffers of Hart, for every width, program, set of registers    *)
(* and number of buffers.                                                  *)
(***************************************************************************)
EXTENDS Hart, TLAPS

(* BuffersBalanced is inductive once refs is a function on the buffers and *)
(* the pc register holds one of them, which the loop then knows.           *)
BufferInv ==
    /\ refs \in [Buffer -> Int]
    /\ pc_buffer \in Buffer
    /\ BuffersBalanced

(* A buffer that is allocated and released in one instruction is free      *)
(* again afterwards: StoreValue and LoadValue leave the counts alone.      *)
LEMMA TemporaryReleased ==
    ASSUME BufferInv, NEW b \in FreeBuffer
    PROVE  DecRef(Allocate(refs, b), b) = refs
<1> DEFINE after == DecRef(Allocate(refs, b), b)
<1>1. b \in Buffer /\ refs[b] = 0 /\ refs \in [Buffer -> Int]
  BY DEF FreeBuffer, BufferInv
<1>2. after \in [Buffer -> Int]
  BY <1>1 DEF DecRef, Allocate
<1>3. \A d \in Buffer : after[d] = refs[d]
  BY <1>1 DEF DecRef, Allocate
<1> HIDE DEF after
<1>4. after = refs
  BY <1>1, <1>2, <1>3
<1> QED
  BY <1>4 DEF after

(* The LoadContext releases its buffer in OnRefCountIsZero and finds       *)
(* nothing left to release in its destructor.                              *)
LEMMA ContextReleasesOnce ==
    ASSUME BufferInv, NEW b \in FreeBuffer
    PROVE  ContextDecRef(Allocate(refs, b), b) = refs
<1> DEFINE rc == Allocate(refs, b)
           once == ReleaseValue(rc, {b})
           twice == ReleaseValue(once, {})
<1>1. b \in Buffer /\ rc \in [Buffer -> Int]
  BY DEF FreeBuffer, BufferInv, Allocate
<1>2. once = DecRef(rc, b)
  BY <1>1 DEF ReleaseValue, DecRef
<1>3. twice = once
  BY <1>1 DEF ReleaseValue
<1>4. ContextDecRef(rc, b) = twice
  BY DEF ContextDecRef, OnRefCountIsZero
<1> QED
  BY <1>2, <1>3, <1>4, TemporaryReleased

(* A jump exchanges the pc register's buffer for a free one. *)
LEMMA SubmitBalanced ==
    ASSUME BufferInv, NEW b, NEW v, Submit(b, v)
    PROVE  BufferInv'
<1>1. /\ b \in Buffer /\ pc_buffer \in Buffer /\ b # pc_buffer
      /\ pc_buffer' = b
      /\ refs[pc_buffer] = 1
  BY DEF Submit, FreeBuffer, BufferInv, BuffersBalanced
<1>2. refs' = [refs EXCEPT ![b] = 1, ![pc_buffer] = 0]
  BY <1>1 DEF Submit, BufferInv, DecRef, Allocate
<1> QED
  BY <1>1, <1>2 DEF BufferInv, BuffersBalanced

(* The constructor leaves one buffer in use. *)
LEMMA BufferInvInit == Init => BufferInv
BY DEF Init, BufferInv, BuffersBalanced

(* Every operation of the loop and of the user keeps the balance. *)
LEMMA BufferInvStep ==
    ASSUME BufferInv, [Next]_vars
    PROVE  BufferInv'
<1>1. ASSUME UNCHANGED <<refs, pc_buffer>>
      PROVE  BufferInv'
  BY <1>1 DEF BufferInv, BuffersBalanced
<1>2. CASE UNCHANGED vars
  BY <1>1, <1>2 DEF vars
<1>3. CASE LoopBegin \/ LoopEnd
  BY <1>1, <1>3 DEF LoopBegin, LoopEnd
<1>4. ASSUME NEW v \in DebugValue,
             \/ \E r \in DebugReg : WriteRegister(r, v)
             \/ WritePc(v)
             \/ \E a \in DebugData : WriteMemory(a, v)
      PROVE  BufferInv'
  BY <1>1, <1>4 DEF WriteRegister, WritePc, WriteMemory
<1>5. ASSUME NEW i \in Instr,
             \/ ExecuteBinaryOp(i) \/ ExecuteLui(i) \/ ExecuteAuipc(i)
             \/ ExecuteFence(i) \/ ExecuteEbreak(i) \/ ExecuteIllegal(i)
             \/ ExecuteCsr(i)
      PROVE  BufferInv'
  BY <1>1, <1>5 DEF ExecuteBinaryOp, ExecuteLui, ExecuteAuipc, ExecuteNop,
     ExecuteFence, ExecuteEbreak, ExecuteIllegal, ExecuteCsr
<1>6. ASSUME NEW i \in Instr, ExecuteBranch(i)
      PROVE  BufferInv'
  BY <1>1, <1>6, SubmitBalanced DEF ExecuteBranch
<1>7. ASSUME NEW i \in Instr, ExecuteJal(i) \/ ExecuteJalr(i)
      PROVE  BufferInv'
  BY <1>7, SubmitBalanced DEF ExecuteJal, ExecuteJalr
<1>8. ASSUME NEW i \in Instr, ExecuteStore(i) \/ ExecuteLoad(i)
      PROVE  BufferInv'
  BY <1>1, <1>8, TemporaryReleased, ContextReleasesOnce
  DEF ExecuteStore, ExecuteLoad
<1> QED
  BY <1>2, <1>3, <1>4, <1>5, <1>6, <1>7, <1>8 DEF Next

(* Loads, stores and jumps leak no data buffer and release none twice: in  *)
(* every state the only buffer in use is the pc register's.                *)
THEOREM BuffersSafe == Spec => []BuffersBalanced
<1>1. Init => BufferInv
  BY BufferInvInit
<1>2. BufferInv /\ [Next]_vars => BufferInv'
  BY BufferInvStep
<1>3. BufferInv => BuffersBalanced
  BY DEF BufferInv
<1> QED
  BY <1>1, <1>2, <1>3, PTL DEF Spec

-----------------------------------------------------------------------------
(* Jumps.  In the loop pc_db is the buffer of the pc register, which is    *)
(* not free, so that a jump always gives the register another one.         *)
LoopInv ==
    /\ BufferInv
    /\ loop \in BOOLEAN
    /\ contents = [b \in Buffer |-> contents[b]]
    /\ executed \in Nat
    /\ loop => pc_db = pc_buffer

LEMMA SubmitNoticed ==
    ASSUME LoopInv, loop, NEW b, NEW v, Submit(b, v), NextPc
    PROVE  next_pc' = v /\ pc_db' = pc_buffer'
<1>1. b \in Buffer /\ b # pc_buffer /\ pc_buffer' = b
  BY DEF LoopInv, BufferInv, BuffersBalanced, Submit, FreeBuffer
<1>2. contents'[b] = v
  BY <1>1 DEF LoopInv, Submit
<1> QED
  BY <1>1, <1>2 DEF LoopInv, NextPc

LEMMA NoJump ==
    ASSUME LoopInv, loop, UNCHANGED pc_buffer, NextPc
    PROVE  next_pc' = Uint32(Address + InstructionSize) /\ pc_db' = pc_buffer'
BY DEF LoopInv, NextPc, Address

(* The body of JumpsNoticed. *)
Noticed ==
    /\ executed' # executed => next_pc' = Successor(last')
    /\ loop /\ ~loop' => contents'[pc_buffer'] = next_pc

LEMMA LoopInvInit == Init => LoopInv
<1> SUFFICES ASSUME Init PROVE LoopInv
  OBVIOUS
<1>1. contents = [b \in Buffer |-> contents[b]]
  <2>1. PICK b \in Buffer, a \in InitPc :
            contents = [d \in Buffer |-> IF d = b THEN a ELSE 0]
    BY DEF Init
  <2> QED
    BY <2>1
<1> QED
  BY <1>1, BufferInvInit DEF Init, LoopInv

(* An instruction: all that is left to show is where it goes. *)
LEMMA Executed ==
    ASSUME LoopInv, BufferInv', NEW i, Executes(i),
           contents' = [b \in Buffer |-> contents'[b]],
           next_pc' = Successor(i) /\ pc_db' = pc_buffer'
    PROVE  LoopInv' /\ Noticed
BY DEF LoopInv, Executes, Noticed

LEMMA LoopInvStep ==
    ASSUME LoopInv, [Next]_vars
    PROVE  LoopInv' /\ Noticed
<1>1. BufferInv'
  BY BufferInvStep DEF LoopInv
<1>2. CASE UNCHANGED vars
  BY <1>1, <1>2 DEF vars, loop_vars, LoopInv, Noticed
<1>3. CASE LoopBegin
  BY <1>1, <1>3 DEF LoopBegin, LoopInv, Noticed
<1>4. CASE LoopEnd
  <2>1. pc_db = pc_buffer /\ pc_buffer \in Buffer
    BY <1>4 DEF LoopEnd, LoopInv, BufferInv
  <2> QED
    BY <1>1, <1>4, <2>1 DEF LoopEnd, LoopInv, Noticed
<1>5. ASSUME NEW v \in DebugValue,
             \/ \E r \in DebugReg : WriteRegister(r, v)
             \/ WritePc(v)
             \/ \E a \in DebugData : WriteMemory(a, v)
      PROVE  LoopInv' /\ Noticed
  BY <1>1, <1>5 DEF WriteRegister, WritePc, WriteMemory, loop_vars, LoopInv,
     Noticed
<1>6. ASSUME NEW i \in Instr,
             \/ ExecuteBinaryOp(i) \/ ExecuteLui(i) \/ ExecuteAuipc(i)
             \/ ExecuteStore(i) \/ ExecuteLoad(i)
             \/ ExecuteFence(i) \/ ExecuteEbreak(i) \/ ExecuteIllegal(i)
             \/ ExecuteCsr(i)
      PROVE  LoopInv' /\ Noticed
  <2>1. /\ Executes(i) /\ loop /\ NextPc
        /\ UNCHANGED <<contents, pc_buffer>>
        /\ i.func \notin {"Beq", "Bge", "Bgeu", "Blt", "Bltu", "Bne", "Jal",
                          "Jalr"}
    BY <1>6 DEF ExecuteBinaryOp, ExecuteLui, ExecuteAuipc, ExecuteStore,
       ExecuteLoad, ExecuteNop, ExecuteFence, ExecuteEbreak, ExecuteIllegal,
       ExecuteCsr, Executes
  <2>2. Successor(i) = Uint32(Address + InstructionSize)
    BY <2>1 DEF Successor
  <2> QED
    BY <1>1, <2>1, <2>2, NoJump, Executed DEF LoopInv
<1>7. ASSUME NEW i \in Instr, ExecuteBranch(i)
      PROVE  LoopInv' /\ Noticed
  <2>1. Executes(i) /\ loop /\ NextPc
    BY <1>7 DEF ExecuteBranch, Executes
  <2>2. CASE BranchCondition(i.func, Source(i, 1), Source(i, 2))
    <3>1. PICK b \in Buffer : Submit(b, Uint32(Source(i, 3) + Address))
      BY <1>7, <2>2 DEF ExecuteBranch
    <3>2. Successor(i) = Uint32(Source(i, 3) + Address)
      BY <1>7, <2>2 DEF ExecuteBranch, Successor
    <3>3. next_pc' = Successor(i) /\ pc_db' = pc_buffer'
      BY <2>1, <3>1, <3>2, SubmitNoticed
    <3> QED
      BY <1>1, <2>1, <3>1, <3>3, Executed DEF LoopInv, Submit
  <2>3. CASE ~BranchCondition(i.func, Source(i, 1), Source(i, 2))
    <3>1. UNCHANGED <<contents, pc_buffer>>
      BY <1>7, <2>3 DEF ExecuteBranch
    <3>2. Successor(i) = Uint32(Address + InstructionSize)
      BY <1>7, <2>3 DEF ExecuteBranch, Successor
    <3> QED
      BY <1>1, <2>1, <3>1, <3>2, NoJump, Executed DEF LoopInv
  <2> QED
    BY <2>2, <2>3
<1>8. ASSUME NEW i \in Instr, ExecuteJal(i) \/ ExecuteJalr(i)
      PROVE  LoopInv' /\ Noticed
  <2>1. Executes(i) /\ loop /\ NextPc
    BY <1>8 DEF ExecuteJal, ExecuteJalr, Executes
  <2>2. PICK b \in Buffer : Submit(b, Successor(i))
    BY <1>8 DEF ExecuteJal, ExecuteJalr, Successor
  <2>3. next_pc' = Successor(i) /\ pc_db' = pc_buffer'
    BY <2>1, <2>2, SubmitNoticed
  <2> QED
    BY <1>1, <2>1, <2>2, <2>3, Executed DEF LoopInv, Submit
<1> QED
  BY <1>2, <1>3, <1>4, <1>5, <1>6, <1>7, <1>8 DEF Next

(* Every jump and every taken branch is noticed by the loop of Step and    *)
(* Run, and nothing else is taken for one, for every width, program and    *)
(* number of recycled data buffers.                                        *)
THEOREM JumpsSafe == Spec => JumpsNoticed
<1>1. LoopInv /\ [Next]_vars => [Noticed]_vars
  BY LoopInvStep
<1>2. LoopInv /\ [Next]_vars => LoopInv'
  BY LoopInvStep
<1>3. Spec => [][Noticed]_vars
  BY <1>1, <1>2, LoopInvInit, PTL DEF Spec
<1>4. [][Noticed]_vars => JumpsNoticed
  BY DEF Noticed, JumpsNoticed
<1> QED
  BY <1>3, <1>4

=============================================================================
