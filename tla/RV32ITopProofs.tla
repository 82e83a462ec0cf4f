--------------------------- MODULE RV32ITopProofs ---------------------------
(***************************************************************************)
(* Proofs about RV32ITop, for every program, every number of run threads   *)
(* and Halt() calls, and every behaviour of the user the constants allow.  *)
(***************************************************************************)
EXTENDS RV32ITop, TLAPS

(* A breakpoint in the map has an instruction to put back. *)
SavedKept(c) == \A a \in Addr : HasBreakpoint(c, a) => c.saved[a] # None

CodeInv(c) == c \in CodeType /\ SavedKept(c)

(* The user is inside Step, or inside Run before the thread is started. *)
InCall == user.at \in {"stepOver", "stepLoop", "runOver", "runStatus",
                       "runClear", "runSpawn"}

(* StateOwnership, strengthened: no run thread works on the machine state  *)
(* between the check of run_status_ in Run and the start of the thread.    *)
OneOwner ==
    /\ \A r, s \in RunThread : Owns(r) /\ Owns(s) => r = s
    /\ \A r \in RunThread : Owns(r) => ~InCall /\ run_status = "kRunning"

(* Where the address of the breakpoint is, when the core has stopped or is *)
(* about to stop at one.                                                   *)
SteppedOver ==
    user.at \in {"stepOver", "runOver"} => previous_pc # Uninit

BreakpointPc ==
    StoppedAtBreakpoint =>
        /\ user.at \notin {"runStatus", "runClear", "runSpawn"}
        /\ user.at = "stepLoop" => user.pc # Uninit
        /\ \A r \in RunThread : runner[r].at = "loop" => runner[r].pc # Uninit
        /\ \/ user.at = "stepLoop"
           \/ \E r \in RunThread : runner[r].at = "loop"
           \/ previous_pc # Uninit

(* What Step and Run have established where they are. *)
CallInv ==
    /\ user.at = "stepOver" => user.left > 0
    /\ user.at \in {"runClear", "runSpawn"} => run_status = "kRunning"

IndInv ==
    /\ TypeOK
    /\ SavedKept(code)
    /\ CallInv
    /\ OneOwner
    /\ SteppedOver
    /\ BreakpointPc
-----------------------------------------------------------------------------
(* The operations on the code keep it well formed. *)

LEMMA FetchedType ==
    ASSUME NEW c \in CodeType, NEW a \in Addr
    PROVE  Fetched(c, a) \in Op
BY DEF Fetched, CodeType, Op, None

LEMMA DecodeKeeps ==
    ASSUME NEW c, CodeInv(c), NEW a \in Addr
    PROVE  CodeInv(GetDecodedInstruction(c, a))
<1>1. Fetched(c, a) \in Op
  BY FetchedType DEF CodeInv
<1> QED
  BY <1>1 DEF CodeInv, CodeType, SavedKept, HasBreakpoint, GetDecodedInstruction

LEMMA StoreKeeps ==
    ASSUME NEW c, CodeInv(c), NEW a \in Addr, NEW op \in Op
    PROVE  CodeInv(Store(c, a, op)) /\ CodeInv(Patch(c, a, op))
BY DEF CodeInv, CodeType, SavedKept, HasBreakpoint, Store, Patch

LEMMA SetKeeps ==
    ASSUME NEW c, CodeInv(c), NEW a \in Addr
    PROVE  CodeInv(SetBreakpoint(c, a))
BY DEF CodeInv, CodeType, SavedKept, HasBreakpoint, Patch, SetBreakpoint, Op,
       None

LEMMA DisableKeeps ==
    ASSUME NEW c, CodeInv(c), NEW a \in Addr
    PROVE  CodeInv(DisableBreakpoint(c, a))
BY DEF CodeInv, CodeType, SavedKept, HasBreakpoint, Patch, DisableBreakpoint,
       Op, None

LEMMA EnableKeeps ==
    ASSUME NEW c, CodeInv(c), NEW a \in Addr
    PROVE  CodeInv(EnableBreakpoint(c, a))
BY DEF CodeInv, CodeType, SavedKept, HasBreakpoint, Patch, EnableBreakpoint,
       Op, None

LEMMA ClearKeeps ==
    ASSUME NEW c, CodeInv(c), NEW a \in Addr
    PROVE  CodeInv(ClearBreakpoint(c, a))
BY DEF CodeInv, CodeType, SavedKept, HasBreakpoint, Patch, ClearBreakpoint,
       Op, None

LEMMA ClearAllKeeps ==
    ASSUME NEW c, CodeInv(c)
    PROVE  CodeInv(ClearAllBreakpoints(c))
BY DEF CodeInv, CodeType, SavedKept, HasBreakpoint, ClearAllBreakpoints, Op,
       None

LEMMA NextPcType ==
    ASSUME NEW a \in Addr, NEW taken \in BOOLEAN
    PROVE  NextPc(a, taken) \in Addr
BY CodeAssumption DEF NextPc

LEMMA LoadedKeeps == CodeInv(LoadedCode)
BY CodeAssumption DEF CodeInv, CodeType, SavedKept, HasBreakpoint, LoadedCode,
                      None

-----------------------------------------------------------------------------
(* The inductive invariant. *)

LEMMA InitInd == Init => IndInv
<1> SUFFICES ASSUME Init PROVE IndInv
  OBVIOUS
<1>1. TypeOK /\ SavedKept(code)
  BY LoadedKeeps, TopAssumption
  DEF Init, CodeInv, TypeOK, RunStatus, HaltReason, AnyPc, Idle, NoThread,
      UserType, RunnerType, CounterType, UserAt, RunnerAt, Thread, Op
<1>2. CallInv /\ OneOwner /\ SteppedOver /\ BreakpointPc
  BY DEF Init, Idle, NoThread, CallInv, OneOwner, Owns, SteppedOver,
         BreakpointPc, StoppedAtBreakpoint
<1> QED
  BY <1>1, <1>2 DEF IndInv

(* Halt() writes no more than halt_reason_ and halted_. *)
LEMMA HaltInd ==
    ASSUME IndInv, NEW t \in Thread, HaltStep(t)
    PROVE  IndInv'
<1>1. CASE HaltCheck(t)
  <2>1. TypeOK'
    BY <1>1 DEF IndInv, TypeOK, HaltCheck, members, history
  <2> QED
    BY <1>1, <2>1 DEF IndInv, HaltCheck, members, history, SavedKept, CallInv,
       OneOwner, Owns, InCall, SteppedOver, BreakpointPc, StoppedAtBreakpoint
<1>2. CASE HaltSetReason(t)
  <2>1. TypeOK'
    BY <1>2 DEF IndInv, TypeOK, HaltSetReason, history, HaltReason
  <2> QED
    BY <1>2, <2>1 DEF IndInv, HaltSetReason, history, SavedKept, CallInv,
       OneOwner, Owns, InCall, SteppedOver, BreakpointPc, StoppedAtBreakpoint
<1>3. CASE HaltSetFlag(t)
  <2>1. TypeOK'
    BY <1>3 DEF IndInv, TypeOK, HaltSetFlag
  <2> QED
    BY <1>3, <2>1 DEF IndInv, HaltSetFlag, SavedKept, CallInv,
       OneOwner, Owns, InCall, SteppedOver, BreakpointPc, StoppedAtBreakpoint
<1> QED
  BY <1>1, <1>2, <1>3 DEF HaltStep

LEMMA StepBeginInd ==
    ASSUME IndInv, NEW num, num \in Nat, num > 0, StepBegin(num)
    PROVE  IndInv'
<1>2. \A r \in RunThread : ~Owns(r)
  BY DEF IndInv, OneOwner, StepBegin
<1>3. OneOwner'
  BY <1>2 DEF OneOwner, Owns, StepBegin
<1>4. CASE StoppedAtBreakpoint
  <2>1. user' = [at |-> "stepOver", left |-> num, pc |-> Uninit,
                 next_pc |-> ResetPc]
    BY <1>4 DEF StepBegin, Idle
  <2>2. previous_pc # Uninit
    BY <1>2, <1>4 DEF IndInv, StepBegin, At, BreakpointPc, Owns
  <2>3. TypeOK'
    <3>1. user' \in UserType
      BY <2>1, TopAssumption DEF UserType, UserAt, AnyPc
    <3> QED
      BY <3>1 DEF IndInv, TypeOK, StepBegin, RunStatus
  <2>4. CallInv' /\ SteppedOver' /\ BreakpointPc'
    BY <1>2, <2>1, <2>2
    DEF StepBegin, CallInv, SteppedOver, BreakpointPc, Owns
  <2> QED
    BY <1>3, <2>3, <2>4 DEF IndInv, StepBegin, SavedKept
<1>5. CASE ~StoppedAtBreakpoint
  <2>1. user' = [at |-> "stepLoop", left |-> num, pc |-> Uninit,
                 next_pc |-> pc]
    BY <1>5 DEF StepBegin, LoopStart
  <2>2. TypeOK'
    <3>1. user' \in UserType
      BY <2>1 DEF IndInv, TypeOK, UserType, UserAt, AnyPc
    <3> QED
      BY <3>1 DEF IndInv, TypeOK, StepBegin, RunStatus
  <2>3. CallInv' /\ SteppedOver' /\ BreakpointPc'
    BY <1>5, <2>1
    DEF StepBegin, CallInv, SteppedOver, BreakpointPc, StoppedAtBreakpoint
  <2> QED
    BY <1>3, <2>2, <2>3 DEF IndInv, StepBegin, SavedKept
<1> QED
  BY <1>4, <1>5

LEMMA StepBeginCallInd ==
    ASSUME IndInv, \E num \in 1..MaxStep : StepBegin(num)
    PROVE  IndInv'
<1>1. PICK num \in 1..MaxStep : StepBegin(num)
  OBVIOUS
<1>2. num \in Nat /\ num > 0
  BY TopAssumption
<1> QED
  BY <1>1, <1>2, StepBeginInd

LEMMA RunBeginInd ==
    ASSUME IndInv, RunBegin
    PROVE  IndInv'
<1>1. TypeOK'
  BY TopAssumption DEF IndInv, TypeOK, RunBegin, members, Idle, UserType,
     UserAt, AnyPc
<1>2. \A r \in RunThread : ~Owns(r)
  BY DEF IndInv, OneOwner, RunBegin, MayRun
<1>3. OneOwner'
  BY <1>2 DEF OneOwner, Owns, RunBegin
<1>4. CallInv' /\ SteppedOver' /\ BreakpointPc'
  BY <1>2, TopAssumption DEF IndInv, RunBegin, At, members, CallInv, Idle,
     SteppedOver, BreakpointPc, StoppedAtBreakpoint, Owns
<1> QED
  BY <1>1, <1>3, <1>4 DEF IndInv, RunBegin, members, SavedKept

(* What executing an instruction leaves behind, whoever executes it. *)
LEMMA IncrementType ==
    ASSUME counters \in CounterType, NEW op \in Op, Increment(op)
    PROVE  counters' \in CounterType
<1>1. CASE MaxCount = 0
  BY <1>1 DEF Increment
<1>2. CASE MaxCount # 0
  <2>1. /\ counters.num + 1 \in Nat
        /\ [counters.opcode EXCEPT ![op] = @ + 1] \in [Op -> Nat]
    BY DEF CounterType
  <2>2. counters' = [counters EXCEPT !.num = @ + 1, !.opcode[op] = @ + 1]
    BY <1>2 DEF Increment
  <2> QED
    BY <2>1, <2>2 DEF CounterType
<1> QED
  BY <1>1, <1>2

LEMMA RetireType ==
    ASSUME arch_pc \in Addr, retired \in [Op -> Nat],
           NEW c, NEW a \in Addr, NEW op \in Op, NEW taken \in BOOLEAN,
           Retire(c, a, op, taken)
    PROVE  arch_pc' \in Addr /\ retired' \in [Op -> Nat]
BY NextPcType DEF Retire

LEMMA RequestType ==
    ASSUME NEW c, NEW a, NEW op
    PROVE  HaltRequest(c, a, op) \in
               {None, "kSoftwareBreakpoint", "kSemihostHaltRequest"}
BY DEF HaltRequest

LEMMA ExecuteType ==
    ASSUME IndInv, NEW a \in Addr, NEW taken \in BOOLEAN, Execute(a, taken)
    PROVE  /\ code' \in CodeType /\ SavedKept(code')
           /\ halt_reason' \in HaltReason /\ halted' \in BOOLEAN
           /\ halt_due' \in BOOLEAN
           /\ pc' \in Addr
           /\ counters' \in CounterType
           /\ arch_pc' \in Addr /\ retired' \in [Op -> Nat]
<1> DEFINE op == Fetched(code, a)
<1>1. CodeInv(code)
  BY DEF IndInv, TypeOK, CodeInv
<1>2. op \in Op
  BY <1>1, FetchedType DEF CodeInv
<1>3. code' \in CodeType /\ SavedKept(code')
  BY <1>1, DecodeKeeps DEF Execute, CodeInv
<1>4. halt_reason' \in HaltReason /\ halted' \in BOOLEAN /\ halt_due' \in BOOLEAN
  BY RequestType DEF Execute, RequestHalt, HaltReason, IndInv, TypeOK
<1>5. pc' \in Addr
  BY CodeAssumption DEF Execute, IndInv, TypeOK
<1>6. counters' \in CounterType
  BY <1>2, IncrementType DEF Execute, IndInv, TypeOK
<1>7. arch_pc' \in Addr /\ retired' \in [Op -> Nat]
  BY <1>2, RetireType DEF Execute, IndInv, TypeOK
<1> QED
  BY <1>3, <1>4, <1>5, <1>6, <1>7

LEMMA StepOverInd ==
    ASSUME IndInv, NEW taken \in BOOLEAN, StepOver(taken)
    PROVE  IndInv'
<1> DEFINE a   == previous_pc
           off == DisableBreakpoint(code, a)
           op  == Fetched(off, a)
           ran == GetDecodedInstruction(off, a)
           request == HaltRequest(off, a, op)
           newpc == IF taken THEN Target[a] ELSE pc
<1>1. a \in Addr
  BY DEF IndInv, TypeOK, SteppedOver, StepOver, At, AnyPc
<1>2. CodeInv(off)
  BY <1>1, DisableKeeps DEF IndInv, TypeOK, CodeInv
<1>3. op \in Op
  BY <1>1, <1>2, FetchedType DEF CodeInv
<1>4. CodeInv(ran)
  BY <1>1, <1>2, DecodeKeeps
<1>5. CodeInv(EnableBreakpoint(ran, a))
  BY <1>1, <1>4, EnableKeeps
<1>6. newpc \in Addr /\ pc' = newpc
  BY <1>1, CodeAssumption DEF IndInv, TypeOK, StepOver
<1>7. counters' \in CounterType
  BY <1>3, IncrementType DEF StepOver, IndInv, TypeOK
<1>8. arch_pc' \in Addr /\ retired' \in [Op -> Nat]
  <2>1. Retire(off, a, op, taken)
    BY DEF StepOver
  <2> QED
    BY <1>1, <1>3, <2>1, RetireType DEF IndInv, TypeOK
<1>9. \A r \in RunThread : ~Owns(r)
  BY DEF IndInv, OneOwner, StepOver, At, InCall
<1>10. OneOwner'
  BY <1>9 DEF OneOwner, Owns, StepOver
<1>11. previous_pc' = previous_pc /\ previous_pc # Uninit
  BY DEF IndInv, SteppedOver, StepOver, At
<1>12. CASE /\ code' = EnableBreakpoint(ran, a)
            /\ halt_reason' = "kNone"
            /\ halted' = (halted \/ request # None)
            /\ halt_due' = (halt_due \/ request = "kSemihostHaltRequest")
            /\ user' = IF user.at = "stepOver"
                       THEN LoopStart("stepLoop", user.left - 1, newpc)
                       ELSE [Idle EXCEPT !.at = "runStatus"]
  <2>1. user' \in UserType /\ user'.at \in {"stepLoop", "runStatus"}
    <3>1. CASE user.at = "stepOver"
      <4>1. user.left - 1 \in Nat
        BY <3>1 DEF IndInv, TypeOK, CallInv, UserType
      <4> QED
        BY <1>6, <1>12, <3>1, <4>1 DEF LoopStart, UserType, UserAt, AnyPc
    <3>2. CASE user.at # "stepOver"
      BY <1>12, <3>2, TopAssumption DEF Idle, UserType, UserAt, AnyPc
    <3> QED
      BY <3>1, <3>2
  <2>2. TypeOK' /\ SavedKept(code)'
    BY <1>5, <1>6, <1>7, <1>8, <1>12, <2>1
    DEF IndInv, TypeOK, CodeInv, StepOver, HaltReason
  <2>3. CallInv' /\ SteppedOver' /\ BreakpointPc'
    BY <1>12, <2>1 DEF CallInv, SteppedOver, BreakpointPc, StoppedAtBreakpoint
  <2> QED
    BY <1>10, <2>2, <2>3 DEF IndInv
<1>13. CASE /\ code' = ran
            /\ RequestHalt(request)
            /\ user' = Idle
  <2>1. user' \in UserType /\ user'.at = "idle"
    BY <1>13, TopAssumption DEF Idle, UserType, UserAt, AnyPc
  <2>2. halt_reason' \in HaltReason /\ halted' \in BOOLEAN /\ halt_due' \in BOOLEAN
    BY <1>13, RequestType DEF RequestHalt, HaltReason, IndInv, TypeOK
  <2>3. TypeOK' /\ SavedKept(code)'
    BY <1>4, <1>6, <1>7, <1>8, <1>13, <2>1, <2>2
    DEF IndInv, TypeOK, CodeInv, StepOver
  <2>4. CallInv' /\ SteppedOver' /\ BreakpointPc'
    BY <1>9, <1>11, <2>1
    DEF StepOver, CallInv, SteppedOver, BreakpointPc, Owns
  <2> QED
    BY <1>10, <2>3, <2>4 DEF IndInv
<1> QED
  BY <1>12, <1>13 DEF StepOver

LEMMA StepLoopInd ==
    ASSUME IndInv, NEW taken \in BOOLEAN, StepLoop(taken)
    PROVE  IndInv'
<1> DEFINE a == user.next_pc
<1>1. a \in Addr /\ Execute(a, taken)
  BY DEF IndInv, TypeOK, UserType, StepLoop
<1>2. \A r \in RunThread : ~Owns(r)
  BY DEF IndInv, OneOwner, StepLoop, At, InCall
<1>3. OneOwner'
  BY <1>2 DEF OneOwner, Owns, StepLoop
<1>4. user' \in UserType /\ user'.at = "stepLoop" /\ user'.pc = a
  <2>1. StepsLeft(user.left) \in Nat
    BY DEF StepLoop, StepsLeft, IndInv, TypeOK, UserType
  <2>2. NextPc(a, taken) \in Addr
    BY <1>1, NextPcType
  <2>3. user' = [user EXCEPT !.left = StepsLeft(user.left), !.pc = a,
                             !.next_pc = NextPc(a, taken)]
    BY DEF StepLoop
  <2> QED
    BY <1>1, <2>1, <2>2, <2>3
    DEF StepLoop, At, IndInv, TypeOK, UserType, UserAt, AnyPc
<1>5. TypeOK' /\ SavedKept(code)'
  BY <1>1, <1>4, ExecuteType DEF IndInv, TypeOK, StepLoop
<1>6. a # Uninit
  BY <1>1, TopAssumption
<1>7. CallInv' /\ SteppedOver' /\ BreakpointPc'
  BY <1>2, <1>4, <1>6
  DEF StepLoop, CallInv, SteppedOver, BreakpointPc, Owns
<1> QED
  BY <1>3, <1>5, <1>7 DEF IndInv

LEMMA StepEndInd ==
    ASSUME IndInv, StepEnd
    PROVE  IndInv'
<1>1. user' \in UserType /\ user'.at = "idle"
  BY TopAssumption DEF StepEnd, Idle, UserType, UserAt, AnyPc
<1>2. \A r \in RunThread : ~Owns(r)
  BY DEF IndInv, OneOwner, StepEnd, At, InCall
<1>3. TypeOK'
  BY <1>1 DEF IndInv, TypeOK, StepEnd, SavePc, history, RunStatus, HaltReason,
     UserType
<1>4. OneOwner'
  BY <1>2 DEF OneOwner, Owns, StepEnd
<1>5. CallInv' /\ SteppedOver' /\ BreakpointPc'
  BY <1>1, <1>2 DEF IndInv, StepEnd, SavePc, At, CallInv, SteppedOver,
     BreakpointPc, StoppedAtBreakpoint, Owns
<1> QED
  BY <1>3, <1>4, <1>5 DEF IndInv, StepEnd, SavedKept

(* Run(), after the stepping over. *)
LEMMA RunStepInd ==
    ASSUME IndInv, RunStep
    PROVE  IndInv'
<1>1. \A r \in RunThread : ~Owns(r)
  BY DEF IndInv, OneOwner, RunStep, RunSetStatus, RunClearFlag, RunSpawn, At,
         InCall
<1>2. ~StoppedAtBreakpoint
  BY DEF IndInv, BreakpointPc, RunStep, RunSetStatus, RunClearFlag, RunSpawn, At
<1>3. CASE RunSetStatus
  <2>1. user' \in UserType /\ user'.at = "runClear"
    BY <1>3 DEF RunSetStatus, IndInv, TypeOK, UserType, UserAt
  <2>2. TypeOK'
    BY <1>3, <2>1 DEF IndInv, TypeOK, RunSetStatus, history, RunStatus
  <2> QED
    BY <1>1, <1>2, <1>3, <2>1, <2>2
    DEF IndInv, RunSetStatus, SavedKept, CallInv, OneOwner, Owns, SteppedOver,
        BreakpointPc, StoppedAtBreakpoint
<1>4. CASE RunClearFlag
  <2>1. user' \in UserType /\ user'.at = "runSpawn"
    BY <1>4 DEF RunClearFlag, IndInv, TypeOK, UserType, UserAt
  <2>2. TypeOK'
    BY <1>4, <2>1 DEF IndInv, TypeOK, RunClearFlag, history
  <2> QED
    BY <1>1, <1>2, <1>4, <2>1, <2>2
    DEF IndInv, RunClearFlag, At, SavedKept, CallInv, OneOwner, Owns, SteppedOver,
        BreakpointPc, StoppedAtBreakpoint
<1>5. ASSUME NEW r \in RunThread, RunSpawn(r)
      PROVE  IndInv'
  <2>1. user' \in UserType /\ user'.at = "idle"
    BY <1>5, TopAssumption DEF RunSpawn, Idle, UserType, UserAt, AnyPc
  <2>2. runner' \in [RunThread -> RunnerType]
    BY <1>5 DEF RunSpawn, IndInv, TypeOK, RunnerType, RunnerAt, AnyPc
  <2>3. TypeOK'
    BY <1>5, <2>1, <2>2 DEF IndInv, TypeOK, RunSpawn, history
  <2>4. \A s \in RunThread : Owns(s)' => s = r
    BY <1>1, <1>5 DEF RunSpawn, Owns, IndInv, TypeOK
  <2>5. run_status' = "kRunning"
    BY <1>5 DEF IndInv, RunSpawn, CallInv, At
  <2>6. OneOwner'
    BY <2>1, <2>4, <2>5 DEF OneOwner, InCall
  <2>7. ~StoppedAtBreakpoint' /\ code' = code
    BY <1>2, <1>5 DEF RunSpawn, StoppedAtBreakpoint
  <2>8. CallInv' /\ SteppedOver' /\ BreakpointPc'
    BY <2>1, <2>7 DEF CallInv, SteppedOver, BreakpointPc
  <2> QED
    BY <2>3, <2>6, <2>7, <2>8 DEF IndInv, SavedKept
<1> QED
  BY <1>3, <1>4, <1>5 DEF RunStep

(* The run thread. *)
LEMMA RunLoopInd ==
    ASSUME IndInv, NEW r \in RunThread, NEW taken \in BOOLEAN, RunLoop(r, taken)
    PROVE  IndInv'
<1> DEFINE a == runner[r].next_pc
<1>1. a \in Addr /\ Execute(a, taken) /\ a # Uninit
  BY TopAssumption DEF IndInv, TypeOK, RunnerType, RunLoop
<1>2. Owns(r) /\ ~InCall
  BY DEF IndInv, OneOwner, RunLoop, RunnerAtPoint, Owns
<1>3. NextPc(a, taken) \in Addr
  BY <1>1, NextPcType
<1>4. runner' \in [RunThread -> RunnerType]
  BY <1>1, <1>3 DEF IndInv, TypeOK, RunnerType, AnyPc, RunLoop
<1>5. TypeOK' /\ SavedKept(code)'
  BY <1>1, <1>4, ExecuteType DEF IndInv, TypeOK, RunLoop
<1>6. \A s \in RunThread : s # r => ~Owns(s)
  BY <1>2 DEF IndInv, OneOwner
<1>7. /\ \A s \in RunThread : s # r => runner'[s] = runner[s]
      /\ runner'[r].at = "loop" /\ runner'[r].pc = a
  BY DEF IndInv, TypeOK, RunnerType, RunLoop, RunnerAtPoint
<1>8. OneOwner' /\ CallInv' /\ SteppedOver'
  BY <1>2, <1>6, <1>7 DEF IndInv, OneOwner, Owns, InCall, RunLoop, CallInv,
     SteppedOver
<1>9. BreakpointPc'
  <2>1. user.at \notin {"runStatus", "runClear", "runSpawn", "stepLoop"}
    BY <1>2 DEF InCall
  <2>2. user' = user
    BY DEF RunLoop
  <2>3. \A s \in RunThread : runner'[s].at = "loop" => runner'[s].pc # Uninit
    BY <1>1, <1>6, <1>7 DEF Owns
  <2> QED
    BY <1>7, <2>1, <2>2, <2>3 DEF BreakpointPc
<1> QED
  BY <1>5, <1>8, <1>9 DEF IndInv

LEMMA RunLoopExitInd ==
    ASSUME IndInv, NEW r \in RunThread, RunLoopExit(r)
    PROVE  IndInv'
<1>1. Owns(r) /\ ~InCall /\ run_status = "kRunning"
  BY DEF IndInv, OneOwner, RunLoopExit, RunnerAtPoint, Owns
<1>2. \A s \in RunThread : s # r => ~Owns(s)
  BY <1>1 DEF IndInv, OneOwner
<1>3. runner' = [runner EXCEPT ![r] = [at |-> "status", pc |-> Uninit,
                                       next_pc |-> ResetPc]]
  <2>1. [NoThread EXCEPT !.at = "status"] =
            [at |-> "status", pc |-> Uninit, next_pc |-> ResetPc]
    BY DEF NoThread
  <2> QED
    BY <2>1 DEF RunLoopExit
<1>4. /\ \A s \in RunThread : s # r => runner'[s] = runner[s]
      /\ runner'[r].at = "status"
      /\ runner' \in [RunThread -> RunnerType]
  BY <1>3, TopAssumption DEF IndInv, TypeOK, RunnerType, RunnerAt, AnyPc
<1>5. previous_pc' = runner[r].pc /\ previous_pc' \in AnyPc /\ pc' \in Addr
  BY DEF RunLoopExit, SavePc, IndInv, TypeOK, RunnerType
<1>6. TypeOK'
  BY <1>4, <1>5 DEF IndInv, TypeOK, RunLoopExit, history
<1>7. OneOwner' /\ CallInv' /\ SteppedOver'
  BY <1>1, <1>2, <1>4 DEF IndInv, OneOwner, Owns, InCall, RunLoopExit, CallInv,
     SteppedOver
<1>8. BreakpointPc'
  <2>1. StoppedAtBreakpoint => runner[r].pc # Uninit
    BY DEF IndInv, BreakpointPc, RunLoopExit, RunnerAtPoint
  <2>2. user.at \notin {"runStatus", "runClear", "runSpawn", "stepLoop"}
    BY <1>1 DEF InCall
  <2>3. \A s \in RunThread : runner'[s].at # "loop"
    BY <1>2, <1>4 DEF Owns
  <2> QED
    BY <1>5, <2>1, <2>2, <2>3
    DEF BreakpointPc, StoppedAtBreakpoint, RunLoopExit
<1> QED
  BY <1>6, <1>7, <1>8 DEF IndInv, RunLoopExit, SavedKept

LEMMA RunSetHaltedInd ==
    ASSUME IndInv, NEW r \in RunThread, RunSetHalted(r)
    PROVE  IndInv'
<1>1. Owns(r) /\ ~InCall
  BY DEF IndInv, OneOwner, RunSetHalted, RunnerAtPoint, Owns
<1>2. \A s \in RunThread : s # r => ~Owns(s)
  BY <1>1 DEF IndInv, OneOwner
<1>3. /\ \A s \in RunThread : s # r => runner'[s] = runner[s]
      /\ runner'[r].at = "notify"
      /\ runner' \in [RunThread -> RunnerType]
  BY DEF RunSetHalted, IndInv, TypeOK, RunnerType, RunnerAt
<1>4. TypeOK'
  BY <1>3 DEF IndInv, TypeOK, RunSetHalted, history, RunStatus
<1>5. \A s \in RunThread : ~Owns(s)'
  BY <1>2, <1>3 DEF Owns
<1>6. OneOwner'
  BY <1>5 DEF OneOwner
<1>7. CallInv' /\ SteppedOver'
  BY <1>1 DEF IndInv, RunSetHalted, InCall, CallInv, SteppedOver
<1>8. BreakpointPc'
  <2>1. \A s \in RunThread : runner[s].at # "loop" /\ runner'[s].at # "loop"
    BY <1>2, <1>3 DEF Owns, RunSetHalted, RunnerAtPoint
  <2> QED
    BY <1>1, <2>1 DEF IndInv, BreakpointPc, StoppedAtBreakpoint, RunSetHalted
<1> QED
  BY <1>4, <1>6, <1>7, <1>8 DEF IndInv, RunSetHalted, SavedKept

LEMMA RunNotifyInd ==
    ASSUME IndInv, NEW r \in RunThread, RunNotify(r)
    PROVE  IndInv'
<1>1. /\ \A s \in RunThread : s # r => runner'[s] = runner[s]
      /\ runner'[r].at = "none"
      /\ runner' \in [RunThread -> RunnerType]
  BY TopAssumption DEF RunNotify, NoThread, IndInv, TypeOK, RunnerType, RunnerAt,
     AnyPc
<1>2. TypeOK'
  BY <1>1 DEF IndInv, TypeOK, RunNotify, Notified, history
<1>3. runner[r].at = "notify"
  BY DEF RunNotify, RunnerAtPoint
<1>4. OneOwner' /\ CallInv' /\ SteppedOver'
  BY <1>1 DEF IndInv, OneOwner, Owns, InCall, RunNotify, CallInv, SteppedOver
<1>5. BreakpointPc'
  BY <1>1, <1>3 DEF IndInv, BreakpointPc, StoppedAtBreakpoint, RunNotify
<1> QED
  BY <1>2, <1>4, <1>5 DEF IndInv, RunNotify, SavedKept

(* Steps that leave alone the code, the pcs and the reason of the halt, in *)
(* which the user goes from and to points outside Step and Run.            *)
LEMMA QuietInd ==
    ASSUME IndInv, TypeOK', ~InCall, ~InCall',
           UNCHANGED <<run_status, halt_reason, previous_pc, code, runner>>
    PROVE  IndInv'
BY DEF IndInv, InCall, SavedKept, CallInv, OneOwner, Owns, SteppedOver,
       BreakpointPc, StoppedAtBreakpoint

LEMMA WaitInd ==
    ASSUME IndInv,
           \/ WaitReturn \/ WaitBlock \/ WaitDone
           \/ DestroyBlock \/ DestroyDone \/ DestroyAtOnce
    PROVE  IndInv'
<1>1. CASE WaitReturn
  BY <1>1, QuietInd
  DEF WaitReturn, At, IndInv, TypeOK, threads, history, InCall
<1>2. ASSUME NEW p \in {"waiting", "dtorWait"}, Block(p)
      PROVE  IndInv'
  <2>1. user' \in UserType /\ user'.at = p
    BY <1>2, TopAssumption DEF Block, Idle, UserType, UserAt, AnyPc
  <2>2. TypeOK'
    BY <1>2, <2>1 DEF Block, IndInv, TypeOK, members, history
  <2> QED
    BY <1>2, <2>1, <2>2, QuietInd DEF Block, At, members, InCall
<1>3. ASSUME NEW p \in {"waiting", "dtorWait"},
             NEW q \in {"idle", "destroyed"}, Unblock(p, q)
      PROVE  IndInv'
  <2>1. user' \in UserType /\ user'.at = q
    BY <1>3, TopAssumption DEF Unblock, Idle, UserType, UserAt, AnyPc
  <2>2. TypeOK'
    BY <1>3, <2>1 DEF Unblock, IndInv, TypeOK, history
  <2> QED
    BY <1>3, <2>1, <2>2, QuietInd DEF Unblock, At, InCall
<1>4. CASE DestroyAtOnce
  <2>1. user' \in UserType /\ user'.at = "destroyed"
    BY <1>4, TopAssumption DEF DestroyAtOnce, Idle, UserType, UserAt, AnyPc
  <2>2. TypeOK'
    BY <1>4, <2>1 DEF DestroyAtOnce, IndInv, TypeOK, members, history
  <2> QED
    BY <1>4, <2>1, <2>2, QuietInd DEF DestroyAtOnce, At, members, InCall
<1> QED
  BY <1>1, <1>2, <1>3, <1>4 DEF WaitBlock, WaitDone, DestroyBlock, DestroyDone

(* The operations on memory and breakpoints, while no thread or call runs  *)
(* (GetInstruction: whatever runs).                                        *)
LEMMA CodeOnlyInd ==
    ASSUME IndInv, NEW c, CodeInv(c), CodeOnly(c)
    PROVE  IndInv'
<1>1. TypeOK' /\ SavedKept(code)'
  BY DEF CodeOnly, CodeInv, IndInv, TypeOK, threads, history
<1> QED
  BY <1>1 DEF CodeOnly, threads, IndInv, CallInv, OneOwner, Owns, InCall,
     SteppedOver, BreakpointPc, StoppedAtBreakpoint

LEMMA CodeCallInd ==
    ASSUME IndInv,
           \/ \E a \in WritableCode, op \in Op : WriteMemory(a, op)
           \/ \E a \in Breakable : SetSwBreakpoint(a) \/ ClearSwBreakpoint(a)
           \/ ClearAllSwBreakpoints
           \/ \E a \in Addr : GetInstruction(a) \/ GetDisassembly(a)
    PROVE  IndInv'
<1>1. CodeInv(code)
  BY DEF IndInv, TypeOK, CodeInv
<1>2. ASSUME NEW a \in WritableCode, NEW op \in Op, WriteMemory(a, op)
      PROVE  IndInv'
  BY <1>1, <1>2, TopAssumption, StoreKeeps, CodeOnlyInd DEF WriteMemory
<1>3. ASSUME NEW a \in Breakable, SetSwBreakpoint(a) \/ ClearSwBreakpoint(a)
      PROVE  IndInv'
  BY <1>1, <1>3, TopAssumption, SetKeeps, ClearKeeps, CodeOnlyInd
  DEF SetSwBreakpoint, ClearSwBreakpoint
<1>4. CASE ClearAllSwBreakpoints
  BY <1>1, <1>4, ClearAllKeeps, CodeOnlyInd DEF ClearAllSwBreakpoints
<1>5. ASSUME NEW a \in Addr, GetInstruction(a)
      PROVE  IndInv'
  BY <1>1, <1>5, DecodeKeeps, CodeOnlyInd DEF GetInstruction
<1>6. ASSUME NEW a \in Addr, GetDisassembly(a)
      PROVE  IndInv'
  <2> DEFINE shown == GetDecodedInstruction(DisableBreakpoint(code, a), a)
  <2>1. CodeInv(shown)
    BY <1>1, DisableKeeps, DecodeKeeps
  <2>2. CodeInv(EnableBreakpoint(shown, a))
    BY <2>1, EnableKeeps
  <2>3. CodeInv(GetDecodedInstruction(code, a))
    BY <1>1, DecodeKeeps
  <2>4. \/ CodeOnly(EnableBreakpoint(shown, a))
        \/ CodeOnly(GetDecodedInstruction(code, a))
        \/ CodeOnly(shown)
    BY <1>6 DEF GetDisassembly, Disassembled
  <2> QED
    BY <2>1, <2>2, <2>3, <2>4, CodeOnlyInd
<1> QED
  BY <1>2, <1>3, <1>4, <1>5, <1>6

LEMMA HaltedCallInd ==
    ASSUME IndInv,
           \/ \E v \in Addr : WriteRegister(v)
           \/ WriteMemoryTohost \/ SetUpSemiHosting
    PROVE  IndInv'
<1>1. ASSUME NEW v \in Addr, WriteRegister(v)
      PROVE  IndInv'
  <2>1. TypeOK'
    BY <1>1 DEF WriteRegister, IndInv, TypeOK, HaltReason, threads
  <2>2. ~StoppedAtBreakpoint'
    BY <1>1 DEF WriteRegister, StoppedAtBreakpoint
  <2> QED
    BY <1>1, <2>1, <2>2 DEF WriteRegister, threads, IndInv, SavedKept, CallInv,
       OneOwner, Owns, InCall, SteppedOver, BreakpointPc
<1>2. CASE WriteMemoryTohost
  <2>1. TypeOK' /\ ~StoppedAtBreakpoint'
    BY <1>2 DEF WriteMemoryTohost, RequestHalt, None, IndInv, TypeOK, HaltReason,
       threads, StoppedAtBreakpoint
  <2> QED
    BY <1>2, <2>1 DEF WriteMemoryTohost, threads, IndInv, SavedKept, CallInv,
       OneOwner, Owns, InCall, SteppedOver, BreakpointPc
<1>3. CASE SetUpSemiHosting
  BY <1>3, QuietInd DEF SetUpSemiHosting, AtHalted, At, IndInv, TypeOK, threads,
     history, InCall
<1> QED
  BY <1>1, <1>2, <1>3

(* Every step of the system. *)
LEMMA NextInd == IndInv /\ [Next]_vars => IndInv'
<1> SUFFICES ASSUME IndInv, [Next]_vars PROVE IndInv'
  OBVIOUS
<1>1. CASE Call
  BY <1>1, StepBeginCallInd, RunBeginInd, WaitInd, CodeCallInd, HaltedCallInd
  DEF Call
<1>2. CASE StepStep
  BY <1>2, StepOverInd, StepLoopInd, StepEndInd DEF StepStep
<1>3. CASE RunStep
  BY <1>3, RunStepInd
<1>4. CASE WaitStep
  BY <1>4, WaitInd DEF WaitStep
<1>5. ASSUME NEW t \in Thread, UseAfterFree(t)
      PROVE  IndInv'
  <2>1. TypeOK'
    BY <1>5 DEF UseAfterFree, IndInv, TypeOK, members, history
  <2> QED
    BY <1>5, <2>1, QuietInd DEF UseAfterFree, members, InCall
<1>6. ASSUME NEW r \in RunThread, RunnerStep(r)
      PROVE  IndInv'
  BY <1>5, <1>6, RunLoopInd, RunLoopExitInd, RunSetHaltedInd, RunNotifyInd
  DEF RunnerStep, Thread
<1>7. ASSUME NEW t \in Thread, HaltStep(t)
      PROVE  IndInv'
  BY <1>7, HaltInd
<1>8. CASE UNCHANGED vars
  <2>1. TypeOK'
    BY <1>8 DEF vars, members, threads, history, IndInv, TypeOK
  <2> QED
    BY <1>8, <2>1 DEF vars, members, threads, history, IndInv, SavedKept,
       CallInv, OneOwner, Owns, InCall, SteppedOver, BreakpointPc,
       StoppedAtBreakpoint
<1> QED
  BY <1>1, <1>2, <1>3, <1>4, <1>5, <1>6, <1>7, <1>8
  DEF Next, Terminated, Thread

-----------------------------------------------------------------------------
(* IndInv holds in every state the simulator reaches. *)
THEOREM IndInvariant == Spec => []IndInv
BY InitInd, NextInd, PTL DEF Spec

(* Type correctness: no thread ever executes at, or leaves in the pc       *)
(* register, an address that was never assigned.                           *)
THEOREM TypeCorrect == Spec => []TypeOK
<1>1. IndInv => TypeOK
  BY DEF IndInv
<1> QED
  BY <1>1, IndInvariant, PTL

(* run_status_ is as good as a mutex: at most one thread works on the      *)
(* machine state, and none when an operation finds the core not running.   *)
THEOREM OwnershipSafe == Spec => []StateOwnership
<1>1. IndInv => StateOwnership
  BY DEF IndInv, OneOwner, StateOwnership, InCall, UserOwns
<1> QED
  BY <1>1, IndInvariant, PTL

(* The indeterminate previous_pc_ is never used: not by the stepping over  *)
(* of a breakpoint, not by ReadRegister.                                   *)
THEOREM UninitSafe == Spec => []UninitNeverUsed
<1>1. IndInv => UninitNeverUsed
  <2> SUFFICES ASSUME IndInv PROVE UninitNeverUsed
    OBVIOUS
  <2>1. user.at \in {"stepOver", "runOver"} => previous_pc # Uninit
    BY DEF IndInv, SteppedOver
  <2>2. ASSUME user.at = "idle", run_status = "kHalted"
        PROVE  ReadRegister # Uninit
    <3>1. \A r \in RunThread : runner[r].at # "loop"
      BY <2>2 DEF IndInv, OneOwner, Owns
    <3>2. StoppedAtBreakpoint => previous_pc # Uninit
      BY <2>2, <3>1 DEF IndInv, BreakpointPc
    <3>3. pc # Uninit
      BY TopAssumption DEF IndInv, TypeOK
    <3> QED
      BY <3>2, <3>3 DEF ReadRegister
  <2> QED
    BY <2>1, <2>2 DEF UninitNeverUsed
<1> QED
  BY <1>1, IndInvariant, PTL

-----------------------------------------------------------------------------
(* What a step of the system does to the code. *)

(* Under a disabled breakpoint, the real instruction has been decoded. *)
Uncovered(c, a) == GetDecodedInstruction(DisableBreakpoint(c, a), a)

CodeStep ==
    \/ code' = code
    \/ \E a \in Addr : \/ code' = GetDecodedInstruction(code, a)
                       \/ a \in Breakable /\ code' = SetBreakpoint(code, a)
                       \/ code' = ClearBreakpoint(code, a)
                       \/ code' = EnableBreakpoint(Uncovered(code, a), a)
                       \/ EnableMayFail /\ code' = Uncovered(code, a)
    \/ code' = ClearAllBreakpoints(code)
    \/ \E a \in WritableCode, op \in Op : code' = Store(code, a, op)

LEMMA CodeSteps ==
    ASSUME IndInv, [Next]_vars
    PROVE  CodeStep
<1>1. CASE Call
  <2>1. CASE \/ \E num \in 1..MaxStep : StepBegin(num)
             \/ RunBegin \/ WaitReturn \/ WaitBlock \/ DestroyBlock
             \/ DestroyAtOnce \/ WriteMemoryTohost \/ SetUpSemiHosting
             \/ \E v \in Addr : WriteRegister(v)
    BY <2>1 DEF CodeStep, StepBegin, RunBegin, WaitReturn, WaitBlock,
       DestroyBlock, Block, DestroyAtOnce, WriteMemoryTohost, SetUpSemiHosting,
       WriteRegister, members
  <2>2. CASE \E a \in WritableCode, op \in Op : WriteMemory(a, op)
    BY <2>2 DEF CodeStep, WriteMemory, CodeOnly
  <2>3. CASE \E a \in Breakable : SetSwBreakpoint(a) \/ ClearSwBreakpoint(a)
    BY <2>3, TopAssumption
    DEF CodeStep, SetSwBreakpoint, ClearSwBreakpoint, CodeOnly
  <2>4. CASE ClearAllSwBreakpoints
    BY <2>4 DEF CodeStep, ClearAllSwBreakpoints, CodeOnly
  <2>5. CASE \E a \in Addr : GetInstruction(a) \/ GetDisassembly(a)
    <3>1. ASSUME NEW a \in Addr, GetInstruction(a)
          PROVE  CodeStep
      BY <3>1 DEF CodeStep, GetInstruction, CodeOnly
    <3>2. ASSUME NEW a \in Addr, GetDisassembly(a)
          PROVE  CodeStep
      <4>1. \/ code' = GetDecodedInstruction(code, a)
            \/ code' = EnableBreakpoint(Uncovered(code, a), a)
            \/ EnableMayFail /\ code' = Uncovered(code, a)
        BY <3>2 DEF GetDisassembly, Disassembled, CodeOnly, Uncovered
      <4> QED
        BY <4>1 DEF CodeStep
    <3> QED
      BY <2>5, <3>1, <3>2
  <2> QED
    BY <1>1, <2>1, <2>2, <2>3, <2>4, <2>5 DEF Call
<1>2. CASE StepStep
  <2>1. ASSUME NEW taken \in BOOLEAN, StepOver(taken)
        PROVE  CodeStep
    <3>1. previous_pc \in Addr
      BY <2>1 DEF IndInv, TypeOK, SteppedOver, StepOver, At, AnyPc
    <3>2. \/ code' = EnableBreakpoint(Uncovered(code, previous_pc), previous_pc)
          \/ EnableMayFail /\ code' = Uncovered(code, previous_pc)
      BY <2>1 DEF StepOver, Uncovered
    <3> QED
      BY <3>1, <3>2 DEF CodeStep
  <2>2. ASSUME NEW taken \in BOOLEAN, StepLoop(taken)
        PROVE  CodeStep
    <3>1. user.next_pc \in Addr
      BY DEF IndInv, TypeOK, UserType
    <3> QED
      BY <2>2, <3>1 DEF StepLoop, Execute, CodeStep
  <2> QED
    BY <1>2, <2>1, <2>2 DEF StepStep, StepEnd, CodeStep
<1>3. CASE RunStep
  BY <1>3 DEF RunStep, RunSetStatus, RunClearFlag, RunSpawn, CodeStep
<1>4. CASE WaitStep
  BY <1>4 DEF WaitStep, WaitDone, DestroyDone, Unblock, CodeStep
<1>5. ASSUME NEW r \in RunThread, RunnerStep(r)
      PROVE  CodeStep
  <2>1. runner[r].next_pc \in Addr
    BY DEF IndInv, TypeOK, RunnerType
  <2>2. CASE \E taken \in BOOLEAN : RunLoop(r, taken)
    BY <2>1, <2>2 DEF RunLoop, Execute, CodeStep
  <2>3. CASE RunLoopExit(r) \/ RunSetHalted(r) \/ RunNotify(r) \/ UseAfterFree(r)
    BY <2>3 DEF RunLoopExit, RunSetHalted, RunNotify, UseAfterFree, members,
       CodeStep
  <2> QED
    BY <1>5, <2>2, <2>3 DEF RunnerStep
<1>6. ASSUME NEW t \in Thread, HaltStep(t)
      PROVE  CodeStep
  BY <1>6 DEF HaltStep, HaltCheck, HaltSetReason, HaltSetFlag, members, CodeStep
<1>7. CASE UseAfterFree(MainThread) \/ UNCHANGED vars
  BY <1>7 DEF UseAfterFree, vars, members, CodeStep
<1> QED
  BY <1>1, <1>2, <1>3, <1>4, <1>5, <1>6, <1>7 DEF Next, Terminated

(* Memory, the saved originals and the decode cache agree with the program *)
(* and with each other.                                                    *)
Faithful(c) ==
    \A a \in Addr :
        /\ c.memory[a] = IF c.bp[a] = "enabled" THEN "ebreak" ELSE Program[a]
        /\ HasBreakpoint(c, a) => c.saved[a] = Program[a]
        /\ c.cache[a] \in {None, c.memory[a]}

LEMMA DecodeFaithful ==
    ASSUME NEW c \in CodeType, Faithful(c), NEW a \in Addr
    PROVE  Faithful(GetDecodedInstruction(c, a))
BY DEF Faithful, GetDecodedInstruction, Fetched, CodeType, HasBreakpoint

LEMMA BreakpointFaithful ==
    ASSUME NEW c \in CodeType, Faithful(c), NEW a \in Addr
    PROVE  /\ Faithful(SetBreakpoint(c, a))
           /\ Faithful(ClearBreakpoint(c, a))
           /\ Faithful(DisableBreakpoint(c, a))
           /\ Faithful(EnableBreakpoint(c, a))
<1>1. CASE HasBreakpoint(c, a)
  BY <1>1 DEF Faithful, Patch, SetBreakpoint, ClearBreakpoint,
     DisableBreakpoint, EnableBreakpoint, HasBreakpoint, CodeType, None
<1>2. CASE ~HasBreakpoint(c, a)
  BY <1>2 DEF Faithful, Patch, SetBreakpoint, ClearBreakpoint,
     DisableBreakpoint, EnableBreakpoint, HasBreakpoint, CodeType, None
<1> QED
  BY <1>1, <1>2

LEMMA ClearAllFaithful ==
    ASSUME NEW c \in CodeType, Faithful(c)
    PROVE  Faithful(ClearAllBreakpoints(c))
BY DEF Faithful, ClearAllBreakpoints, HasBreakpoint, CodeType, None

LEMMA FaithfulAlways ==
    ASSUME WritableCode = {}
    PROVE  Spec => []Faithful(code)
<1>1. Init => Faithful(code)
  <2>1. Faithful(LoadedCode)
    BY CodeAssumption DEF LoadedCode, Faithful, HasBreakpoint, None
  <2> QED
    BY <2>1 DEF Init
<1>2. IndInv /\ Faithful(code) /\ [Next]_vars => Faithful(code)'
  <2> SUFFICES ASSUME IndInv, Faithful(code), [Next]_vars
               PROVE  Faithful(code)'
    OBVIOUS
  <2>1. CodeStep
    BY CodeSteps
  <2>2. code \in CodeType /\ CodeInv(code)
    BY DEF IndInv, TypeOK, CodeInv
  <2>3. ASSUME NEW a \in Addr
        PROVE  Faithful(EnableBreakpoint(Uncovered(code, a), a))
               /\ Faithful(Uncovered(code, a))
    <3>1. DisableBreakpoint(code, a) \in CodeType
          /\ Uncovered(code, a) \in CodeType
      BY <2>2, DisableKeeps, DecodeKeeps DEF CodeInv, Uncovered
    <3>2. Faithful(Uncovered(code, a))
      BY <2>2, <3>1, BreakpointFaithful, DecodeFaithful DEF Uncovered
    <3> QED
      BY <3>1, <3>2, BreakpointFaithful
  <2>4. Faithful(code')
    BY <2>1, <2>2, <2>3, DecodeFaithful, BreakpointFaithful,
       ClearAllFaithful DEF CodeStep
  <2> QED
    BY <2>4 DEF Faithful
<1> QED
  BY <1>1, <1>2, IndInvariant, PTL DEF Spec

(* If the user writes no instructions, a fetch gives the ebreak of an      *)
(* enabled breakpoint and the program's own instruction everywhere else.   *)
THEOREM FetchSafe ==
    ASSUME WritableCode = {}
    PROVE  Spec => []FetchCorrect
<1>1. Faithful(code) => FetchCorrect
  BY DEF Faithful, FetchCorrect, Fetched
<1> QED
  BY <1>1, FaithfulAlways, PTL

(* If the user writes no instructions, GetDisassembly shows the program's  *)
(* own instruction at every address, under a breakpoint too.               *)
THEOREM DisassemblySafe ==
    ASSUME WritableCode = {}
    PROVE  Spec => []ShowsOriginal
<1>1. IndInv /\ Faithful(code) => ShowsOriginal
  <2> SUFFICES ASSUME IndInv, Faithful(code), NEW a \in Addr
               PROVE  Disassembled(code, a).cache[a] = Program[a]
    BY DEF ShowsOriginal
  <2>1. code \in CodeType
    BY DEF IndInv, TypeOK
  <2>2. CASE code.bp[a] = "enabled"
    BY <2>1, <2>2, CodeAssumption
    DEF Faithful, Disassembled, DisableBreakpoint, HasBreakpoint, Patch,
        GetDecodedInstruction, Fetched, CodeType, None
  <2>3. CASE code.bp[a] # "enabled"
    BY <2>1, <2>3, CodeAssumption
    DEF Faithful, Disassembled, GetDecodedInstruction, Fetched, CodeType, None
  <2> QED
    BY <2>2, <2>3
<1> QED
  BY <1>1, IndInvariant, FaithfulAlways, PTL

-----------------------------------------------------------------------------
(* From c to d no address loses its coherence, and one whose breakpoint    *)
(* changes is coherent.                                                    *)
Kept(c, d) ==
    \A a \in Addr : /\ Coherent(c, a) => Coherent(d, a)
                    /\ d.bp[a] # c.bp[a] => Coherent(d, a)

LEMMA KeptTransitive ==
    ASSUME NEW c, NEW d, NEW e, Kept(c, d), Kept(d, e)
    PROVE  Kept(c, e)
BY DEF Kept

LEMMA DecodeKept ==
    ASSUME NEW c \in CodeType, NEW a \in Addr
    PROVE  Kept(c, GetDecodedInstruction(c, a))
BY DEF Kept, Coherent, GetDecodedInstruction, Fetched, CodeType, None

LEMMA BreakpointKept ==
    ASSUME NEW c \in CodeType, NEW a \in Addr
    PROVE  /\ Kept(c, SetBreakpoint(c, a))
           /\ Kept(c, ClearBreakpoint(c, a))
           /\ Kept(c, DisableBreakpoint(c, a))
           /\ Kept(c, EnableBreakpoint(c, a))
<1>1. CASE HasBreakpoint(c, a)
  BY <1>1 DEF Kept, Coherent, Patch, SetBreakpoint, ClearBreakpoint,
     DisableBreakpoint, EnableBreakpoint, HasBreakpoint, CodeType, None
<1>2. CASE ~HasBreakpoint(c, a)
  BY <1>2 DEF Kept, Coherent, Patch, SetBreakpoint, ClearBreakpoint,
     DisableBreakpoint, EnableBreakpoint, HasBreakpoint, CodeType, None
<1> QED
  BY <1>1, <1>2

LEMMA ClearAllKept ==
    ASSUME NEW c \in CodeType
    PROVE  Kept(c, ClearAllBreakpoints(c))
BY DEF Kept, Coherent, ClearAllBreakpoints, HasBreakpoint, CodeType, None

(* Only a debugger write to code parts memory, decode cache and            *)
(* breakpoints, only at the address it writes, and an operation on the     *)
(* breakpoint there reunites them, whether or not it fails half-way.       *)
THEOREM CoherenceSafe == Spec => CoherenceKept
<1> DEFINE KeptHere(a) ==
        /\ Coherent(code, a) =>
               Coherent(code', a) \/ \E op \in Op : code' = Store(code, a, op)
        /\ code'.bp[a] # code.bp[a] => Coherent(code', a)
<1>1. ASSUME IndInv, [Next]_vars
      PROVE  \A a \in Addr : KeptHere(a)
  <2>1. CodeStep
    BY <1>1, CodeSteps
  <2>2. code \in CodeType /\ CodeInv(code)
    BY <1>1 DEF IndInv, TypeOK, CodeInv
  <2>3. ASSUME NEW a \in Addr
        PROVE  /\ Kept(code, Uncovered(code, a))
               /\ Kept(code, EnableBreakpoint(Uncovered(code, a), a))
    <3>1. DisableBreakpoint(code, a) \in CodeType
          /\ Uncovered(code, a) \in CodeType
      BY <2>2, DisableKeeps, DecodeKeeps DEF CodeInv, Uncovered
    <3>2. Kept(code, Uncovered(code, a))
      BY <2>2, <3>1, BreakpointKept, DecodeKept, KeptTransitive DEF Uncovered
    <3> QED
      BY <3>1, <3>2, BreakpointKept, KeptTransitive
  <2>4. ASSUME NEW b \in WritableCode, NEW op \in Op, code' = Store(code, b, op)
        PROVE  \A a \in Addr : KeptHere(a)
    BY <2>2, <2>4, TopAssumption DEF Store, Coherent, CodeType
  <2>5. Kept(code, code') => \A a \in Addr : KeptHere(a)
    BY DEF Kept
  <2>6. Kept(code, code)
    BY DEF Kept
  <2> QED
    BY <2>1, <2>2, <2>3, <2>4, <2>5, <2>6, DecodeKept, BreakpointKept,
       ClearAllKept DEF CodeStep
<1>2. IndInv /\ [Next]_vars => [\A a \in Addr : KeptHere(a)]_vars
  BY <1>1
<1> QED
  BY <1>2, IndInvariant, PTL DEF Spec, CoherenceKept

-----------------------------------------------------------------------------
(* Unless re-enabling a breakpoint fails, every breakpoint is armed again  *)
(* when a step-over or a disassembly returns.                              *)
THEOREM RearmSafe ==
    ASSUME EnableMayFail = FALSE
    PROVE  Spec => []BreakpointsRearmed
<1>1. Init => BreakpointsRearmed
  <2>1. \A a \in Addr : LoadedCode.bp[a] = "none"
    BY DEF LoadedCode, None
  <2> QED
    BY <2>1 DEF Init, BreakpointsRearmed
<1>2. IndInv /\ BreakpointsRearmed /\ [Next]_vars => BreakpointsRearmed'
  <2> SUFFICES ASSUME IndInv, BreakpointsRearmed, [Next]_vars
               PROVE  BreakpointsRearmed'
    OBVIOUS
  <2>1. CodeStep
    BY CodeSteps
  <2>2. code \in CodeType
    BY DEF IndInv, TypeOK
  <2>3. ASSUME NEW a \in Addr, code' = EnableBreakpoint(Uncovered(code, a), a)
        PROVE  BreakpointsRearmed'
    <3>1. CASE HasBreakpoint(code, a)
      BY <2>2, <2>3, <3>1
      DEF EnableBreakpoint, Uncovered, DisableBreakpoint, GetDecodedInstruction,
          Patch, HasBreakpoint, CodeType, BreakpointsRearmed, None
    <3>2. CASE ~HasBreakpoint(code, a)
      BY <2>2, <2>3, <3>2
      DEF EnableBreakpoint, Uncovered, DisableBreakpoint, GetDecodedInstruction,
          Patch, HasBreakpoint, CodeType, BreakpointsRearmed, None
    <3> QED
      BY <3>1, <3>2
  <2>4. ASSUME NEW a \in Addr,
               \/ code' = SetBreakpoint(code, a)
               \/ code' = ClearBreakpoint(code, a)
               \/ code' = GetDecodedInstruction(code, a)
        PROVE  BreakpointsRearmed'
    <3>1. /\ GetDecodedInstruction(code, a).bp = code.bp
          /\ SetBreakpoint(code, a).bp =
                 IF HasBreakpoint(code, a) THEN code.bp
                 ELSE [code.bp EXCEPT ![a] = "enabled"]
          /\ ClearBreakpoint(code, a).bp =
                 IF HasBreakpoint(code, a) THEN [code.bp EXCEPT ![a] = "none"]
                 ELSE code.bp
      BY <2>2 DEF GetDecodedInstruction, SetBreakpoint, ClearBreakpoint, Patch,
         CodeType, None
    <3>2. code.bp \in [Addr -> {"none", "enabled", "disabled"}]
      BY <2>2 DEF CodeType, None
    <3> QED
      BY <2>4, <3>1, <3>2 DEF BreakpointsRearmed
  <2>5. CASE \/ code' = ClearAllBreakpoints(code)
             \/ \E a \in WritableCode, op \in Op : code' = Store(code, a, op)
             \/ code' = code
    BY <2>2, <2>5
    DEF ClearAllBreakpoints, Store, CodeType, BreakpointsRearmed, None
  <2> QED
    BY <2>1, <2>3, <2>4, <2>5 DEF CodeStep
<1> QED
  BY <1>1, <1>2, IndInvariant, PTL DEF Spec

-----------------------------------------------------------------------------
(* The statistics. *)

(* Both counters and the history, when an instruction executes. *)
LEMMA MixExecuted ==
    ASSUME counters \in CounterType, retired \in [Op -> Nat], InstructionMix,
           NEW op \in Op, Increment(op),
           NEW c, NEW a, NEW taken, Retire(c, a, op, taken)
    PROVE  InstructionMix'
<1>1. CASE MaxCount = 0
  BY <1>1 DEF Increment, Retire, InstructionMix
<1>2. CASE MaxCount # 0
  <2>1. /\ counters'.num = counters.num + 1
        /\ counters'.opcode = [counters.opcode EXCEPT ![op] = @ + 1]
    BY <1>2 DEF Increment, CounterType
  <2>2. \/ op = "ebreak" /\ retired' = retired
        \/ retired' = [retired EXCEPT ![op] = @ + 1]
    BY <1>2 DEF Retire
  <2>3. /\ counters.num \in Nat
        /\ counters.opcode \in [Op -> Nat]
    BY DEF CounterType
  <2>4. \A o \in Op : /\ counters'.opcode[o] = IF o = op THEN counters.opcode[o] + 1
                                                       ELSE counters.opcode[o]
                      /\ counters.opcode[o] \in Nat
                      /\ retired[o] \in Nat
    BY <2>1, <2>3
  <2>5. \A o \in Op : \/ retired'[o] = IF o = op THEN retired[o] + 1 ELSE retired[o]
                      \/ op = "ebreak" /\ retired'[o] = retired[o]
    BY <2>2
  <2>6. \A o \in Op \ {"ebreak"} : counters'.opcode[o] = retired'[o]
    BY <2>4, <2>5 DEF InstructionMix
  <2>7. counters'.opcode["ebreak"] >= retired'["ebreak"]
    BY <2>4, <2>5 DEF InstructionMix, Op
  <2>8. counters'.num = counters'.opcode["alu"] + counters'.opcode["branch"]
                         + counters'.opcode["tohost"] + counters'.opcode["ebreak"]
    BY <2>1, <2>3, <2>4 DEF InstructionMix, Op
  <2> QED
    BY <2>6, <2>7, <2>8 DEF InstructionMix
<1> QED
  BY <1>1, <1>2

LEMMA MixStep ==
    ASSUME IndInv, InstructionMix, [Next]_vars
    PROVE  InstructionMix'
<1>1. ASSUME NEW a \in Addr, NEW taken \in BOOLEAN, Execute(a, taken)
      PROVE  InstructionMix'
  BY <1>1, FetchedType, MixExecuted DEF Execute, IndInv, TypeOK
<1>2. ASSUME NEW taken \in BOOLEAN, StepOver(taken)
      PROVE  InstructionMix'
  <2> DEFINE a == previous_pc
             off == DisableBreakpoint(code, a)
             op == Fetched(off, a)
  <2>1. a \in Addr
    BY <1>2 DEF IndInv, TypeOK, SteppedOver, StepOver, At, AnyPc
  <2>2. op \in Op
    BY <2>1, DisableKeeps, FetchedType DEF IndInv, TypeOK, CodeInv
  <2>3. Increment(op) /\ Retire(off, a, op, taken)
    BY <1>2 DEF StepOver
  <2> QED
    BY <2>2, <2>3, MixExecuted DEF IndInv, TypeOK
<1>3. CASE StepStep
  BY <1>1, <1>2, <1>3 DEF StepStep, StepLoop, StepEnd, history, InstructionMix,
     IndInv, TypeOK, UserType
<1>4. ASSUME NEW r \in RunThread, RunnerStep(r)
      PROVE  InstructionMix'
  BY <1>1, <1>4 DEF RunnerStep, RunLoop, RunLoopExit, RunSetHalted, RunNotify,
     UseAfterFree, members, history, InstructionMix, IndInv, TypeOK, RunnerType
<1>5. CASE Call
  <2>1. UNCHANGED <<counters, retired>>
    BY <1>5 DEF Call, StepBegin, RunBegin, WaitReturn, WaitBlock, DestroyBlock,
       Block, DestroyAtOnce, WriteRegister, WriteMemory, WriteMemoryTohost,
       SetSwBreakpoint, ClearSwBreakpoint, ClearAllSwBreakpoints,
       GetInstruction, GetDisassembly, CodeOnly, SetUpSemiHosting, members,
       history
  <2> QED
    BY <2>1 DEF InstructionMix
<1>6. CASE RunStep \/ WaitStep \/ UseAfterFree(MainThread) \/ UNCHANGED vars
           \/ \E t \in Thread : HaltStep(t)
  <2>1. UNCHANGED <<counters, retired>>
    BY <1>6 DEF RunStep, RunSetStatus, RunClearFlag, RunSpawn, WaitStep,
       WaitDone, DestroyDone, Unblock, UseAfterFree, HaltStep, HaltCheck,
       HaltSetReason, HaltSetFlag, vars, members, history
  <2> QED
    BY <2>1 DEF InstructionMix
<1> QED
  BY <1>3, <1>4, <1>5, <1>6 DEF Next, Terminated

(* The statistics are those of the program, on each of the three paths     *)
(* that execute an instruction and with any breakpoints, failures and      *)
(* Halt() calls: every retired instruction is counted once under its own   *)
(* opcode, a breakpoint hit only as an ebreak, and the total is the sum.   *)
THEOREM MixSafe == Spec => []InstructionMix
<1>1. Init => InstructionMix
  BY DEF Init, InstructionMix, Op
<1>2. IndInv /\ InstructionMix /\ [Next]_vars => InstructionMix'
  BY MixStep
<1> QED
  BY <1>1, <1>2, IndInvariant, PTL DEF Spec

=============================================================================
