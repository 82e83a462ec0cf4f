------------------------ MODULE RV32ITopOrderProofs -------------------------
(***************************************************************************)
(* Where the program is: proofs that the pc the debugger sees is that of   *)
(* the next instruction, that instructions retire in the order of the      *)
(* program, and that a halt request is not lost, each under the conditions *)
(* that exclude the defects of the code and no others.                     *)
(***************************************************************************)
EXTENDS RV32ITopProofs

-----------------------------------------------------------------------------
(* A breakpoint hit, from the ebreak handler to the step-over. *)

(* Only addresses the user may choose have breakpoints. *)
BreakpointsAllowed == \A a \in Addr : HasBreakpoint(code, a) => a \in Breakable

(* Without signals no Halt() call is under way. *)
NoHaltCall == MaxSignals = 0 => \A t \in Thread : halt_call[t] = "no"

(* A loop that has hit a breakpoint executes nothing more, and the address *)
(* of the breakpoint is the loop's local pc until previous_pc_ has it.     *)
HitAt ==
    StoppedAtBreakpoint =>
        /\ user.at = "stepLoop" =>
               user.pc \in Breakable /\ halted /\ user.left = 0
        /\ \A r \in RunThread :
               runner[r].at = "loop" => runner[r].pc \in Breakable /\ halted
        /\ \/ user.at = "stepLoop"
           \/ \E r \in RunThread : runner[r].at = "loop"
           \/ previous_pc \in Breakable

HitOver ==
    user.at \in {"stepOver", "runOver"} =>
        StoppedAtBreakpoint /\ previous_pc \in Breakable

HitInv == BreakpointsAllowed /\ NoHaltCall /\ HitAt /\ HitOver

(* No Halt() call can overwrite the reason of a breakpoint hit. *)
Undisturbed == Breakable = {} \/ MaxSignals = 0

-----------------------------------------------------------------------------
(* Which address each thread would execute next. *)

(* Nobody executes: the members hold the position of the program. *)
Settled == user.at # "stepLoop" /\ \A r \in RunThread : runner[r].at # "loop"

(* The locals of a loop hold it. *)
LocalView(local) ==
    IF StoppedAtBreakpoint
    THEN local.pc = arch_pc /\ local.next_pc = Succ[arch_pc]
    ELSE local.next_pc = arch_pc

View ==
    /\ Settled =>
           IF StoppedAtBreakpoint
           THEN previous_pc = arch_pc /\ pc = Succ[arch_pc]
           ELSE pc = arch_pc
    /\ user.at = "stepLoop" => LocalView(user)
    /\ \A r \in RunThread : runner[r].at = "loop" => LocalView(runner[r])

(* The reason of a hit survives, and a step-over is not left half-way. *)
PcTrusted ==
    \/ Breakable = {}
    \/ MaxSignals = 0 /\ WritesTohost = FALSE /\ EnableMayFail = FALSE

-----------------------------------------------------------------------------
(* Halt requests between the start of Run() and the clearing of the flag. *)

NoHaltDueYet == user.at \in {"runOver", "runStatus", "runClear"} => ~halt_due

-----------------------------------------------------------------------------
(* HitInv is invariant, if no Halt() call can overwrite the reason. *)

(* What each operation on the code does to the breakpoint map. *)
LEMMA BreakpointMap ==
    ASSUME NEW c \in CodeType, NEW a \in Addr
    PROVE  /\ GetDecodedInstruction(c, a).bp = c.bp
           /\ SetBreakpoint(c, a).bp =
                  IF HasBreakpoint(c, a) THEN c.bp
                  ELSE [c.bp EXCEPT ![a] = "enabled"]
           /\ ClearBreakpoint(c, a).bp =
                  IF HasBreakpoint(c, a) THEN [c.bp EXCEPT ![a] = None]
                  ELSE c.bp
           /\ Uncovered(c, a).bp =
                  IF HasBreakpoint(c, a) THEN [c.bp EXCEPT ![a] = "disabled"]
                  ELSE c.bp
           /\ EnableBreakpoint(Uncovered(c, a), a).bp =
                  IF HasBreakpoint(c, a) THEN [c.bp EXCEPT ![a] = "enabled"]
                  ELSE c.bp
<1>1. DisableBreakpoint(c, a).bp =
          IF HasBreakpoint(c, a) THEN [c.bp EXCEPT ![a] = "disabled"] ELSE c.bp
  BY DEF DisableBreakpoint, Patch, CodeType
<1>2. Uncovered(c, a).bp = DisableBreakpoint(c, a).bp
  BY DEF Uncovered, GetDecodedInstruction, DisableBreakpoint, Patch, CodeType
<1>3. EnableBreakpoint(Uncovered(c, a), a).bp =
          IF HasBreakpoint(c, a) THEN [c.bp EXCEPT ![a] = "enabled"] ELSE c.bp
  <2>1. CASE HasBreakpoint(c, a)
    BY <2>1 DEF EnableBreakpoint, Uncovered, GetDecodedInstruction,
       DisableBreakpoint, Patch, HasBreakpoint, CodeType, None
  <2>2. CASE ~HasBreakpoint(c, a)
    BY <2>2 DEF EnableBreakpoint, Uncovered, GetDecodedInstruction,
       DisableBreakpoint, HasBreakpoint, CodeType
  <2> QED
    BY <2>1, <2>2
<1> QED
  BY <1>1, <1>2, <1>3 DEF GetDecodedInstruction, SetBreakpoint, ClearBreakpoint,
     Patch, CodeType

LEMMA AllowedStep ==
    ASSUME IndInv, BreakpointsAllowed, [Next]_vars
    PROVE  BreakpointsAllowed'
<1>1. CodeStep
  BY CodeSteps
<1>2. code \in CodeType
  BY DEF IndInv, TypeOK
<1>3. code.bp \in [Addr -> {None, "enabled", "disabled"}]
  BY <1>2 DEF CodeType
<1>4. ASSUME NEW a \in Addr,
             \/ code' = GetDecodedInstruction(code, a)
             \/ a \in Breakable /\ code' = SetBreakpoint(code, a)
             \/ code' = ClearBreakpoint(code, a)
             \/ code' = EnableBreakpoint(Uncovered(code, a), a)
             \/ code' = Uncovered(code, a)
      PROVE  BreakpointsAllowed'
  <2>1. \/ code'.bp = code.bp
        \/ a \in Breakable /\ code'.bp = [code.bp EXCEPT ![a] = "enabled"]
        \/ code'.bp = [code.bp EXCEPT ![a] = None]
        \/ HasBreakpoint(code, a)
           /\ code'.bp = [code.bp EXCEPT ![a] = "disabled"]
        \/ HasBreakpoint(code, a)
           /\ code'.bp = [code.bp EXCEPT ![a] = "enabled"]
    BY <1>2, <1>4, BreakpointMap
  <2> QED
    BY <1>3, <2>1 DEF BreakpointsAllowed, HasBreakpoint, None
<1>5. CASE \/ code' = code
           \/ code' = ClearAllBreakpoints(code)
           \/ \E a \in WritableCode, op \in Op : code' = Store(code, a, op)
  BY <1>2, <1>5 DEF BreakpointsAllowed, HasBreakpoint, ClearAllBreakpoints,
     Store, CodeType, None
<1> QED
  BY <1>1, <1>4, <1>5 DEF CodeStep

LEMMA NoHaltCallStep ==
    ASSUME IndInv, NoHaltCall, [Next]_vars
    PROVE  NoHaltCall'
<1>1. ASSUME NEW t \in Thread, HaltStep(t)
      PROVE  NoHaltCall'
  <2>1. CASE MaxSignals = 0
    <3>1. ~HaltCheck(t)
      BY <2>1 DEF HaltCheck, IndInv, TypeOK
    <3>2. ~HaltSetReason(t) /\ ~HaltSetFlag(t)
      BY <2>1 DEF HaltSetReason, HaltSetFlag, NoHaltCall
    <3> QED
      BY <1>1, <3>1, <3>2 DEF HaltStep
  <2>2. CASE MaxSignals # 0
    BY <2>2 DEF NoHaltCall
  <2> QED
    BY <2>1, <2>2
<1>2. (\A t \in Thread : ~HaltStep(t)) => halt_call' = halt_call
  BY DEF Next, Call, StepBegin, RunBegin, WaitReturn, WaitBlock, DestroyBlock,
     Block, DestroyAtOnce, WriteRegister, WriteMemory, WriteMemoryTohost,
     SetSwBreakpoint, ClearSwBreakpoint, ClearAllSwBreakpoints, GetInstruction,
     GetDisassembly, CodeOnly, SetUpSemiHosting, StepStep, StepOver, StepLoop,
     StepEnd, RunStep, RunSetStatus, RunClearFlag, RunSpawn, WaitStep, WaitDone,
     DestroyDone, Unblock, RunnerStep, RunLoop, RunLoopExit, RunSetHalted,
     RunNotify, UseAfterFree, Terminated, vars, threads
<1> QED
  BY <1>1, <1>2 DEF NoHaltCall

(* Steps that leave the reason and the positions of all loops alone. *)
LEMMA HitQuiet ==
    ASSUME HitAt, HitOver,
           UNCHANGED <<halt_reason, previous_pc, runner>>,
           halted' = halted \/ halted' = TRUE,
           \/ user' = user
           \/ /\ user.at \notin {"stepLoop", "stepOver", "runOver"}
              /\ user'.at \notin {"stepLoop", "stepOver", "runOver"}
    PROVE  HitAt' /\ HitOver'
<1>1. CASE user' = user
  BY <1>1 DEF HitAt, HitOver, StoppedAtBreakpoint
<1>2. CASE /\ user.at \notin {"stepLoop", "stepOver", "runOver"}
           /\ user'.at \notin {"stepLoop", "stepOver", "runOver"}
  BY <1>2 DEF HitAt, HitOver, StoppedAtBreakpoint
<1> QED
  BY <1>1, <1>2

LEMMA HitHalt ==
    ASSUME IndInv, HitInv, Undisturbed, NEW t \in Thread, HaltStep(t)
    PROVE  HitAt' /\ HitOver'
<1>1. CASE HaltCheck(t)
  BY <1>1, HitQuiet DEF HitInv, HaltCheck, members
<1>2. CASE HaltSetFlag(t)
  BY <1>2, HitQuiet DEF HitInv, HaltSetFlag
<1>3. CASE HaltSetReason(t)
  <2>1. Breakable = {}
    BY <1>3 DEF Undisturbed, HitInv, NoHaltCall, HaltSetReason
  <2> QED
    BY <1>3, <2>1 DEF HaltSetReason, HitInv, HitAt, HitOver,
       StoppedAtBreakpoint
<1> QED
  BY <1>1, <1>2, <1>3 DEF HaltStep

LEMMA HitBegin ==
    ASSUME IndInv, HitInv,
           (\E num \in 1..MaxStep : StepBegin(num)) \/ RunBegin
    PROVE  HitAt' /\ HitOver'
<1>1. \A r \in RunThread : runner[r].at # "loop"
  BY DEF IndInv, OneOwner, Owns, StepBegin, RunBegin, MayRun
<1>2. user.at = "idle"
  BY DEF StepBegin, RunBegin, At
<1>3. StoppedAtBreakpoint => previous_pc \in Breakable
  BY <1>1, <1>2 DEF HitInv, HitAt
<1>4. UNCHANGED <<halt_reason, previous_pc, runner>>
  BY DEF StepBegin, RunBegin, members
<1>5. /\ StoppedAtBreakpoint => user'.at \in {"stepOver", "runOver"}
      /\ ~StoppedAtBreakpoint => user'.at \in {"stepLoop", "runStatus"}
  <2>1. CASE StoppedAtBreakpoint
    BY <2>1 DEF StepBegin, RunBegin, Idle
  <2>2. CASE ~StoppedAtBreakpoint
    BY <2>2 DEF StepBegin, RunBegin, Idle, LoopStart
  <2> QED
    BY <2>1, <2>2
<1> QED
  BY <1>1, <1>3, <1>4, <1>5 DEF HitAt, HitOver, StoppedAtBreakpoint

LEMMA HitStepOver ==
    ASSUME IndInv, HitInv, NEW taken \in BOOLEAN, StepOver(taken)
    PROVE  HitAt' /\ HitOver'
<1>1. previous_pc \in Breakable /\ previous_pc' = previous_pc
  BY DEF HitInv, HitOver, StepOver, At
<1>2. \A r \in RunThread : runner[r].at # "loop" /\ runner'[r].at # "loop"
  BY DEF IndInv, OneOwner, Owns, InCall, StepOver, At
<1>3. \/ halt_reason' = "kNone" /\ user'.at \in {"stepLoop", "runStatus"}
      \/ user'.at = "idle"
  BY DEF StepOver, LoopStart, Idle
<1> QED
  BY <1>1, <1>2, <1>3 DEF HitAt, HitOver, StoppedAtBreakpoint

(* What an instruction executed by a loop leaves behind: a breakpoint hit  *)
(* raises the flag, and its address is one that has a breakpoint.          *)
LEMMA HitExecute ==
    ASSUME IndInv, HitInv, ~StoppedAtBreakpoint,
           NEW a \in Addr, NEW taken \in BOOLEAN, Execute(a, taken)
    PROVE  StoppedAtBreakpoint' => halted' = TRUE /\ a \in Breakable
<1> DEFINE request == HaltRequest(code, a, Fetched(code, a))
<1>1. RequestHalt(request)
  BY DEF Execute
<1>2. request = "kSoftwareBreakpoint" => HasBreakpoint(code, a)
  BY DEF HaltRequest, None
<1>3. HasBreakpoint(code, a) => a \in Breakable
  BY DEF HitInv, BreakpointsAllowed
<1> HIDE DEF request
<1> QED
  BY <1>1, <1>2, <1>3 DEF RequestHalt, StoppedAtBreakpoint, None

LEMMA HitStepLoop ==
    ASSUME IndInv, HitInv, NEW taken \in BOOLEAN, StepLoop(taken)
    PROVE  HitAt' /\ HitOver'
<1> DEFINE a == user.next_pc
<1>1. ~StoppedAtBreakpoint
  BY DEF HitInv, HitAt, StepLoop, At
<1>2. a \in Addr /\ Execute(a, taken)
  BY DEF IndInv, TypeOK, UserType, StepLoop
<1>3. StoppedAtBreakpoint' => halted' = TRUE /\ a \in Breakable
  BY <1>1, <1>2, HitExecute
<1>4. \A r \in RunThread : runner'[r].at # "loop"
  BY DEF IndInv, OneOwner, Owns, InCall, StepLoop, At
<1>5. /\ user'.at = "stepLoop" /\ user'.pc = a
      /\ halted' = TRUE => user'.left = 0
  BY DEF StepLoop, StepsLeft, At, IndInv, TypeOK, UserType
<1> QED
  BY <1>3, <1>4, <1>5 DEF HitAt, HitOver

LEMMA HitRunLoop ==
    ASSUME IndInv, HitInv, NEW r \in RunThread, NEW taken \in BOOLEAN,
           RunLoop(r, taken)
    PROVE  HitAt' /\ HitOver'
<1> DEFINE a == runner[r].next_pc
<1>1. ~StoppedAtBreakpoint
  BY DEF HitInv, HitAt, RunLoop, RunnerAtPoint, KeepRunning
<1>2. a \in Addr /\ Execute(a, taken)
  BY DEF IndInv, TypeOK, RunnerType, RunLoop
<1>3. StoppedAtBreakpoint' => halted' = TRUE /\ a \in Breakable
  BY <1>1, <1>2, HitExecute
<1>4. ~InCall /\ \A s \in RunThread : s # r => runner[s].at # "loop"
  BY DEF IndInv, OneOwner, Owns, RunLoop, RunnerAtPoint
<1>5. /\ user' = user
      /\ \A s \in RunThread : s # r => runner'[s] = runner[s]
      /\ runner'[r].at = "loop" /\ runner'[r].pc = a
  BY DEF IndInv, TypeOK, RunnerType, RunLoop, RunnerAtPoint
<1> QED
  BY <1>3, <1>4, <1>5 DEF HitAt, HitOver, InCall

LEMMA HitLoopEnd ==
    ASSUME IndInv, HitInv, StepEnd \/ \E r \in RunThread : RunLoopExit(r)
    PROVE  HitAt' /\ HitOver'
<1>1. CASE StepEnd
  <2>1. user'.at = "idle" /\ previous_pc' = user.pc /\ user.at = "stepLoop"
    BY <1>1 DEF StepEnd, Idle, SavePc, At
  <2>2. StoppedAtBreakpoint' => StoppedAtBreakpoint
    BY <1>1 DEF StepEnd, StoppedAtBreakpoint
  <2>3. \A s \in RunThread : runner'[s].at # "loop"
    BY <1>1 DEF IndInv, OneOwner, Owns, InCall, StepEnd, At
  <2> QED
    BY <2>1, <2>2, <2>3 DEF HitInv, HitAt, HitOver
<1>2. ASSUME NEW r \in RunThread, RunLoopExit(r)
      PROVE  HitAt' /\ HitOver'
  <2>1. /\ runner[r].at = "loop" /\ previous_pc' = runner[r].pc
        /\ user' = user /\ halt_reason' = halt_reason
    BY <1>2 DEF RunLoopExit, RunnerAtPoint, SavePc
  <2>2. ~InCall /\ \A s \in RunThread : s # r => runner[s].at # "loop"
    BY <2>1 DEF IndInv, OneOwner, Owns
  <2>3. \A s \in RunThread : runner'[s].at # "loop"
    BY <1>2, <2>2 DEF RunLoopExit, NoThread, IndInv, TypeOK
  <2> QED
    BY <2>1, <2>2, <2>3 DEF HitInv, HitAt, HitOver, InCall, StoppedAtBreakpoint
<1> QED
  BY <1>1, <1>2

LEMMA HitRun ==
    ASSUME IndInv, HitInv, RunStep
    PROVE  HitAt' /\ HitOver'
<1>1. ~StoppedAtBreakpoint
  BY DEF IndInv, BreakpointPc, RunStep, RunSetStatus, RunClearFlag, RunSpawn, At
<1>2. halt_reason' = halt_reason
  BY DEF RunStep, RunSetStatus, RunClearFlag, RunSpawn
<1>3. user'.at \in {"runClear", "runSpawn", "idle"}
  BY DEF RunStep, RunSetStatus, RunClearFlag, RunSpawn, Idle, IndInv, TypeOK,
     UserType
<1> QED
  BY <1>1, <1>2, <1>3 DEF HitAt, HitOver, StoppedAtBreakpoint

LEMMA HitRunEnd ==
    ASSUME IndInv, HitInv, NEW r \in RunThread, RunSetHalted(r) \/ RunNotify(r)
    PROVE  HitAt' /\ HitOver'
<1>1. /\ runner[r].at # "loop" /\ runner'[r].at # "loop"
      /\ \A s \in RunThread : s # r => runner'[s] = runner[s]
  BY DEF RunSetHalted, RunNotify, RunnerAtPoint, NoThread, IndInv, TypeOK,
     RunnerType
<1>2. UNCHANGED <<halt_reason, halted, previous_pc, user>>
  BY DEF RunSetHalted, RunNotify
<1> QED
  BY <1>1, <1>2 DEF HitInv, HitAt, HitOver, StoppedAtBreakpoint

LEMMA HitCall ==
    ASSUME IndInv, HitInv, Call
    PROVE  HitAt' /\ HitOver'
<1>1. CASE (\E num \in 1..MaxStep : StepBegin(num)) \/ RunBegin
  BY <1>1, HitBegin
<1>2. CASE WaitReturn \/ WaitBlock \/ DestroyBlock \/ DestroyAtOnce
           \/ SetUpSemiHosting
  <2>1. /\ UNCHANGED <<halt_reason, previous_pc, runner, halted>>
        /\ user.at = "idle"
        /\ user'.at \in {"idle", "waiting", "dtorWait", "destroyed"}
    BY <1>2 DEF WaitReturn, WaitBlock, DestroyBlock, DestroyAtOnce,
       SetUpSemiHosting, Block, AtHalted, At, Idle, members, threads
  <2> QED
    BY <2>1, HitQuiet DEF HitInv
<1>3. ASSUME NEW c, CodeOnly(c)
      PROVE  HitAt' /\ HitOver'
  BY <1>3, HitQuiet DEF HitInv, CodeOnly, threads
<1>4. CASE \/ \E a \in WritableCode, op \in Op : WriteMemory(a, op)
           \/ \E a \in Breakable : SetSwBreakpoint(a) \/ ClearSwBreakpoint(a)
           \/ ClearAllSwBreakpoints
           \/ \E a \in Addr : GetInstruction(a) \/ GetDisassembly(a)
  BY <1>3, <1>4 DEF WriteMemory, SetSwBreakpoint, ClearSwBreakpoint,
     ClearAllSwBreakpoints, GetInstruction, GetDisassembly
<1>5. CASE (\E v \in Addr : WriteRegister(v)) \/ WriteMemoryTohost
  <2>1. ~StoppedAtBreakpoint' /\ user'.at = "idle"
    BY <1>5 DEF WriteRegister, WriteMemoryTohost, AtHalted, At, RequestHalt,
       StoppedAtBreakpoint, None, threads
  <2> QED
    BY <2>1 DEF HitAt, HitOver
<1> QED
  BY <1>1, <1>2, <1>4, <1>5 DEF Call

LEMMA HitStep ==
    ASSUME IndInv, HitInv, Undisturbed, [Next]_vars
    PROVE  HitInv'
<1> SUFFICES HitAt' /\ HitOver'
  BY AllowedStep, NoHaltCallStep DEF HitInv
<1>1. CASE Call
  BY <1>1, HitCall
<1>2. CASE StepStep
  BY <1>2, HitStepOver, HitStepLoop, HitLoopEnd DEF StepStep
<1>3. CASE RunStep
  BY <1>3, HitRun
<1>4. ASSUME NEW r \in RunThread, RunnerStep(r), ~UseAfterFree(r)
      PROVE  HitAt' /\ HitOver'
  BY <1>4, HitRunLoop, HitLoopEnd, HitRunEnd DEF RunnerStep
<1>5. ASSUME NEW t \in Thread, HaltStep(t)
      PROVE  HitAt' /\ HitOver'
  BY <1>5, HitHalt
<1>6. ASSUME NEW t \in Thread, UseAfterFree(t)
      PROVE  HitAt' /\ HitOver'
  BY <1>6, HitQuiet DEF HitInv, UseAfterFree, members
<1>7. CASE WaitStep
  <2>1. /\ UNCHANGED <<halt_reason, halted, previous_pc, runner>>
        /\ user.at \in {"waiting", "dtorWait"}
        /\ user'.at \in {"idle", "destroyed"}
    BY <1>7 DEF WaitStep, WaitDone, DestroyDone, Unblock, At, Idle
  <2> QED
    BY <2>1, HitQuiet DEF HitInv
<1>8. CASE UNCHANGED vars
  BY <1>8, HitQuiet DEF HitInv, vars, members, threads
<1> QED
  BY <1>1, <1>2, <1>3, <1>4, <1>5, <1>6, <1>7, <1>8 DEF Next, Terminated, Thread

LEMMA HitInit == Init => HitInv
BY DEF Init, HitInv, BreakpointsAllowed, HasBreakpoint, LoadedCode, NoHaltCall,
       HitAt, HitOver, StoppedAtBreakpoint, Idle

LEMMA HitAlways ==
    ASSUME Undisturbed
    PROVE  Spec => []HitInv
<1>1. IndInv /\ HitInv /\ [Next]_vars => HitInv'
  BY HitStep
<1> QED
  BY <1>1, HitInit, IndInvariant, PTL DEF Spec

-----------------------------------------------------------------------------
(* View is invariant, if the reason of a breakpoint hit is not disturbed   *)
(* and a step-over always completes.                                       *)

LEMMA TrustedUndisturbed == PcTrusted => Undisturbed
BY DEF PcTrusted, Undisturbed

LEMMA NeverStopped ==
    ASSUME HitInv, Breakable = {}
    PROVE  ~StoppedAtBreakpoint
BY DEF HitInv, HitAt

LEMMA ArmedAlways ==
    ASSUME PcTrusted
    PROVE  Spec => []BreakpointsRearmed
<1>1. CASE Breakable = {}
  <2>1. HitInv => BreakpointsRearmed
    BY <1>1 DEF HitInv, BreakpointsAllowed, BreakpointsRearmed, HasBreakpoint,
       None
  <2> QED
    BY <2>1, TrustedUndisturbed, HitAlways, PTL
<1>2. CASE EnableMayFail = FALSE
  BY <1>2, RearmSafe
<1> QED
  BY <1>1, <1>2 DEF PcTrusted

(* Steps that move nothing. *)
LEMMA ViewQuiet ==
    ASSUME View, UNCHANGED <<halt_reason, previous_pc, pc, arch_pc, runner>>,
           \/ user' = user
           \/ user.at # "stepLoop" /\ user'.at # "stepLoop"
    PROVE  View'
<1>1. Settled' <=> Settled
  BY DEF Settled
<1>2. StoppedAtBreakpoint' <=> StoppedAtBreakpoint
  BY DEF StoppedAtBreakpoint
<1>3. CASE user' = user
  BY <1>1, <1>2, <1>3 DEF View, LocalView
<1>4. CASE user.at # "stepLoop" /\ user'.at # "stepLoop"
  BY <1>1, <1>2, <1>4 DEF View, LocalView
<1> QED
  BY <1>3, <1>4

LEMMA ViewHalt ==
    ASSUME IndInv, HitInv, View, PcTrusted, NEW t \in Thread, HaltStep(t)
    PROVE  View'
<1>1. CASE HaltCheck(t)
  BY <1>1, ViewQuiet DEF HaltCheck, members, history
<1>2. CASE HaltSetFlag(t)
  BY <1>2, ViewQuiet DEF HaltSetFlag
<1>3. CASE HaltSetReason(t)
  <2>1. Breakable = {}
    BY <1>3 DEF PcTrusted, HitInv, NoHaltCall, HaltSetReason
  <2>2. ~StoppedAtBreakpoint /\ ~StoppedAtBreakpoint'
    BY <1>3, <2>1, NeverStopped DEF HaltSetReason, StoppedAtBreakpoint
  <2>3. UNCHANGED <<user, runner, pc, arch_pc>>
    BY <1>3 DEF HaltSetReason, history
  <2> QED
    BY <2>2, <2>3 DEF View, LocalView, Settled
<1> QED
  BY <1>1, <1>2, <1>3 DEF HaltStep

LEMMA ViewBegin ==
    ASSUME IndInv, View, (\E num \in 1..MaxStep : StepBegin(num)) \/ RunBegin
    PROVE  View'
<1>1. Settled /\ \A r \in RunThread : runner'[r].at # "loop"
  BY DEF Settled, IndInv, OneOwner, Owns, StepBegin, RunBegin, MayRun, At
<1>2. UNCHANGED <<halt_reason, previous_pc, pc, arch_pc>>
  BY DEF StepBegin, RunBegin, members
<1>3. \/ user'.at # "stepLoop"
      \/ user'.at = "stepLoop" /\ user'.next_pc = pc /\ ~StoppedAtBreakpoint
  <2>1. CASE StoppedAtBreakpoint
    BY <2>1 DEF StepBegin, RunBegin, Idle
  <2>2. CASE ~StoppedAtBreakpoint
    BY <2>2 DEF StepBegin, RunBegin, Idle, LoopStart
  <2> QED
    BY <2>1, <2>2
<1> QED
  BY <1>1, <1>2, <1>3 DEF View, LocalView, Settled, StoppedAtBreakpoint

(* An instruction moves the program on, unless it is a breakpoint hit,     *)
(* which leaves the program where it is.                                   *)
LEMMA ViewExecute ==
    ASSUME IndInv, BreakpointsRearmed, ~StoppedAtBreakpoint,
           NEW a \in Addr, NEW taken \in BOOLEAN, Execute(a, taken),
           arch_pc = a
    PROVE  IF StoppedAtBreakpoint'
           THEN arch_pc' = a /\ NextPc(a, taken) = Succ[a]
           ELSE arch_pc' = NextPc(a, taken)
<1> DEFINE op == Fetched(code, a)
           request == HaltRequest(code, a, op)
           planted == op = "ebreak" /\ code.bp[a] = "enabled"
<1>1. code.bp[a] \in {None, "enabled"}
  BY DEF IndInv, TypeOK, CodeType, BreakpointsRearmed
<1>2. request = "kSoftwareBreakpoint" <=> planted
  BY <1>1 DEF HaltRequest, HasBreakpoint, None
<1>3. taken \in Outcome(op) /\ RequestHalt(request) /\ Retire(code, a, op, taken)
  BY DEF Execute
<1>4. StoppedAtBreakpoint' <=> planted
  <2> HIDE DEF request, planted
  <2> QED
    BY <1>2, <1>3 DEF RequestHalt, StoppedAtBreakpoint, None
<1>5. planted => ~taken
  BY <1>3 DEF Outcome
<1>6. arch_pc' = IF planted THEN arch_pc ELSE NextPc(a, taken)
  BY <1>3 DEF Retire
<1> HIDE DEF planted
<1> QED
  BY <1>4, <1>5, <1>6 DEF NextPc

LEMMA ViewStepLoop ==
    ASSUME IndInv, HitInv, BreakpointsRearmed, View,
           NEW taken \in BOOLEAN, StepLoop(taken)
    PROVE  View'
<1> DEFINE a == user.next_pc
<1>1. ~StoppedAtBreakpoint /\ user.at = "stepLoop"
  BY DEF HitInv, HitAt, StepLoop, At
<1>2. a \in Addr /\ Execute(a, taken) /\ arch_pc = a
  BY <1>1 DEF IndInv, TypeOK, UserType, StepLoop, View, LocalView
<1>3. IF StoppedAtBreakpoint'
      THEN arch_pc' = a /\ NextPc(a, taken) = Succ[a]
      ELSE arch_pc' = NextPc(a, taken)
  BY <1>1, <1>2, ViewExecute
<1>4. \A r \in RunThread : runner'[r].at # "loop"
  BY DEF IndInv, OneOwner, Owns, InCall, StepLoop, At
<1>5. user'.at = "stepLoop" /\ user'.pc = a /\ user'.next_pc = NextPc(a, taken)
  BY DEF StepLoop, At, IndInv, TypeOK, UserType
<1> QED
  BY <1>3, <1>4, <1>5 DEF View, LocalView, Settled

LEMMA ViewRunLoop ==
    ASSUME IndInv, HitInv, BreakpointsRearmed, View,
           NEW r \in RunThread, NEW taken \in BOOLEAN, RunLoop(r, taken)
    PROVE  View'
<1> DEFINE a == runner[r].next_pc
<1>1. ~StoppedAtBreakpoint /\ runner[r].at = "loop"
  BY DEF HitInv, HitAt, RunLoop, RunnerAtPoint, KeepRunning
<1>2. a \in Addr /\ Execute(a, taken) /\ arch_pc = a
  BY <1>1 DEF IndInv, TypeOK, RunnerType, RunLoop, View, LocalView
<1>3. IF StoppedAtBreakpoint'
      THEN arch_pc' = a /\ NextPc(a, taken) = Succ[a]
      ELSE arch_pc' = NextPc(a, taken)
  BY <1>1, <1>2, ViewExecute
<1>4. ~InCall /\ \A s \in RunThread : s # r => runner[s].at # "loop"
  BY <1>1 DEF IndInv, OneOwner, Owns
<1>5. /\ user' = user
      /\ \A s \in RunThread : s # r => runner'[s] = runner[s]
      /\ runner'[r].at = "loop" /\ runner'[r].pc = a
      /\ runner'[r].next_pc = NextPc(a, taken)
  BY DEF IndInv, TypeOK, RunnerType, RunLoop, RunnerAtPoint
<1> QED
  BY <1>3, <1>4, <1>5 DEF View, LocalView, Settled, InCall

(* Stepping over retires the instruction under the breakpoint. *)
LEMMA ViewStepOver ==
    ASSUME IndInv, HitInv, View, PcTrusted, NEW taken \in BOOLEAN,
           StepOver(taken)
    PROVE  View' /\ arch_pc' = NextPc(arch_pc, taken) /\ arch_pc = previous_pc
<1> DEFINE a == previous_pc
           off == DisableBreakpoint(code, a)
           op == Fetched(off, a)
<1>1. StoppedAtBreakpoint /\ a \in Breakable /\ a \in Addr
  BY TopAssumption DEF HitInv, HitOver, StepOver, At
<1>2. \A r \in RunThread : runner[r].at # "loop" /\ runner'[r].at # "loop"
  BY DEF IndInv, OneOwner, Owns, InCall, StepOver, At
<1>3. a = arch_pc /\ pc = Succ[a]
  BY <1>1, <1>2 DEF View, Settled, StepOver, At
<1>4. off.bp[a] # "enabled"
  BY <1>1 DEF DisableBreakpoint, HasBreakpoint, Patch, IndInv, TypeOK, CodeType,
     None
<1>5. Retire(off, a, op, taken)
  BY DEF StepOver
<1>6. arch_pc' = NextPc(a, taken)
  BY <1>4, <1>5 DEF Retire
<1>7. pc' = NextPc(a, taken)
  BY <1>3 DEF StepOver, NextPc
<1>8. /\ ~StoppedAtBreakpoint'
      /\ \/ user'.at = "stepLoop" /\ user'.next_pc = pc'
         \/ user'.at = "runStatus"
  <2>1. EnableMayFail = FALSE
    BY <1>1 DEF PcTrusted
  <2>2. /\ halt_reason' = "kNone"
        /\ user' = IF user.at = "stepOver"
                   THEN LoopStart("stepLoop", user.left - 1, pc')
                   ELSE [Idle EXCEPT !.at = "runStatus"]
    BY <2>1 DEF StepOver
  <2> QED
    BY <2>2 DEF StoppedAtBreakpoint, LoopStart, Idle
<1> QED
  BY <1>2, <1>3, <1>6, <1>7, <1>8 DEF View, LocalView, Settled

LEMMA ViewLoopEnd ==
    ASSUME IndInv, HitInv, View,
           StepEnd \/ \E r \in RunThread : RunLoopExit(r)
    PROVE  View'
<1>1. CASE StepEnd
  <2>1. /\ user.at = "stepLoop" /\ user'.at = "idle"
        /\ previous_pc' = user.pc /\ pc' = user.next_pc /\ arch_pc' = arch_pc
    BY <1>1 DEF StepEnd, Idle, SavePc, At, history
  <2>2. StoppedAtBreakpoint' <=> StoppedAtBreakpoint
    <3>1. StoppedAtBreakpoint => halted
      BY <2>1 DEF HitInv, HitAt
    <3> QED
      BY <1>1, <3>1 DEF StepEnd, StoppedAtBreakpoint
  <2>3. \A s \in RunThread : runner'[s].at # "loop"
    BY <1>1 DEF IndInv, OneOwner, Owns, InCall, StepEnd, At
  <2> QED
    BY <2>1, <2>2, <2>3 DEF View, LocalView
<1>2. ASSUME NEW r \in RunThread, RunLoopExit(r)
      PROVE  View'
  <2>1. /\ runner[r].at = "loop" /\ previous_pc' = runner[r].pc
        /\ pc' = runner[r].next_pc /\ arch_pc' = arch_pc
        /\ user' = user /\ halt_reason' = halt_reason
    BY <1>2 DEF RunLoopExit, RunnerAtPoint, SavePc, history
  <2>2. ~InCall /\ \A s \in RunThread : s # r => runner[s].at # "loop"
    BY <2>1 DEF IndInv, OneOwner, Owns
  <2>3. \A s \in RunThread : runner'[s].at # "loop"
    BY <1>2, <2>2 DEF RunLoopExit, NoThread, IndInv, TypeOK
  <2> QED
    BY <2>1, <2>2, <2>3 DEF View, LocalView, InCall, StoppedAtBreakpoint
<1> QED
  BY <1>1, <1>2

LEMMA ViewRun ==
    ASSUME IndInv, View, RunStep
    PROVE  View'
<1>1. CASE RunSetStatus \/ RunClearFlag
  <2>1. /\ UNCHANGED <<halt_reason, previous_pc, pc, arch_pc, runner>>
        /\ user.at # "stepLoop" /\ user'.at # "stepLoop"
    BY <1>1 DEF RunSetStatus, RunClearFlag, At, history, IndInv, TypeOK,
       UserType
  <2> QED
    BY <2>1, ViewQuiet
<1>2. ASSUME NEW r \in RunThread, RunSpawn(r)
      PROVE  View'
  <2>1. \A s \in RunThread : runner[s].at # "loop"
    BY <1>2 DEF IndInv, OneOwner, Owns, InCall, RunSpawn, At
  <2>2. ~StoppedAtBreakpoint /\ ~StoppedAtBreakpoint'
    BY <1>2 DEF IndInv, BreakpointPc, RunSpawn, At, StoppedAtBreakpoint
  <2>3. pc = arch_pc
    BY <1>2, <2>1, <2>2 DEF View, Settled, RunSpawn, At
  <2>4. /\ runner'[r].at = "loop" /\ runner'[r].next_pc = pc
        /\ \A s \in RunThread : s # r => runner'[s] = runner[s]
        /\ user'.at = "idle" /\ arch_pc' = arch_pc
    BY <1>2 DEF RunSpawn, Idle, IndInv, TypeOK, history
  <2> QED
    BY <2>1, <2>2, <2>3, <2>4 DEF View, LocalView, Settled
<1> QED
  BY <1>1, <1>2 DEF RunStep

LEMMA ViewRunEnd ==
    ASSUME IndInv, View, NEW r \in RunThread, RunSetHalted(r) \/ RunNotify(r)
    PROVE  View'
<1>1. /\ runner[r].at # "loop" /\ runner'[r].at # "loop"
      /\ \A s \in RunThread : s # r => runner'[s] = runner[s]
  BY DEF RunSetHalted, RunNotify, RunnerAtPoint, NoThread, IndInv, TypeOK,
     RunnerType
<1>2. UNCHANGED <<halt_reason, previous_pc, pc, arch_pc, user>>
  BY DEF RunSetHalted, RunNotify, history
<1> QED
  BY <1>1, <1>2 DEF View, LocalView, Settled, StoppedAtBreakpoint

LEMMA ViewCall ==
    ASSUME IndInv, HitInv, View, PcTrusted, Call
    PROVE  View'
<1>1. CASE (\E num \in 1..MaxStep : StepBegin(num)) \/ RunBegin
  BY <1>1, ViewBegin
<1>2. CASE WaitReturn \/ WaitBlock \/ DestroyBlock \/ DestroyAtOnce
           \/ SetUpSemiHosting
  <2>1. /\ UNCHANGED <<halt_reason, previous_pc, pc, arch_pc, runner>>
        /\ user.at = "idle"
        /\ user'.at \in {"idle", "waiting", "dtorWait", "destroyed"}
    BY <1>2 DEF WaitReturn, WaitBlock, DestroyBlock, DestroyAtOnce,
       SetUpSemiHosting, Block, AtHalted, At, Idle, members, threads, history
  <2> QED
    BY <2>1, ViewQuiet
<1>3. ASSUME NEW c, CodeOnly(c)
      PROVE  View'
  BY <1>3, ViewQuiet DEF CodeOnly, threads, history
<1>4. CASE \/ \E a \in WritableCode, op \in Op : WriteMemory(a, op)
           \/ \E a \in Breakable : SetSwBreakpoint(a) \/ ClearSwBreakpoint(a)
           \/ ClearAllSwBreakpoints
           \/ \E a \in Addr : GetInstruction(a) \/ GetDisassembly(a)
  BY <1>3, <1>4 DEF WriteMemory, SetSwBreakpoint, ClearSwBreakpoint,
     ClearAllSwBreakpoints, GetInstruction, GetDisassembly
<1>5. ASSUME NEW v \in Addr, WriteRegister(v)
      PROVE  View'
  <2>1. ~StoppedAtBreakpoint' /\ pc' = v /\ arch_pc' = v /\ user'.at = "idle"
    BY <1>5 DEF WriteRegister, AtHalted, At, StoppedAtBreakpoint, threads
  <2>2. \A r \in RunThread : runner'[r].at # "loop"
    BY <1>5 DEF IndInv, OneOwner, Owns, WriteRegister, AtHalted, threads
  <2> QED
    BY <2>1, <2>2 DEF View
<1>6. CASE WritesTohost /\ WriteMemoryTohost
  <2>1. ~StoppedAtBreakpoint /\ ~StoppedAtBreakpoint'
    BY <1>6, NeverStopped DEF PcTrusted, WriteMemoryTohost, RequestHalt,
       StoppedAtBreakpoint, None
  <2>2. UNCHANGED <<user, runner, pc, arch_pc>>
    BY <1>6 DEF WriteMemoryTohost, threads
  <2> QED
    BY <2>1, <2>2 DEF View, LocalView, Settled
<1> QED
  BY <1>1, <1>2, <1>4, <1>5, <1>6 DEF Call

LEMMA ViewStep ==
    ASSUME IndInv, HitInv, BreakpointsRearmed, View, PcTrusted, [Next]_vars
    PROVE  View'
<1>1. CASE Call
  BY <1>1, ViewCall
<1>2. CASE StepStep
  BY <1>2, ViewStepOver, ViewStepLoop, ViewLoopEnd DEF StepStep
<1>3. CASE RunStep
  BY <1>3, ViewRun
<1>4. ASSUME NEW r \in RunThread, RunnerStep(r), ~UseAfterFree(r)
      PROVE  View'
  BY <1>4, ViewRunLoop, ViewLoopEnd, ViewRunEnd DEF RunnerStep
<1>5. ASSUME NEW t \in Thread, HaltStep(t)
      PROVE  View'
  BY <1>5, ViewHalt
<1>6. ASSUME NEW t \in Thread, UseAfterFree(t)
      PROVE  View'
  BY <1>6, ViewQuiet DEF UseAfterFree, members, history
<1>7. CASE WaitStep
  <2>1. /\ UNCHANGED <<halt_reason, previous_pc, pc, arch_pc, runner>>
        /\ user.at \in {"waiting", "dtorWait"}
        /\ user'.at \in {"idle", "destroyed"}
    BY <1>7 DEF WaitStep, WaitDone, DestroyDone, Unblock, At, Idle, history
  <2> QED
    BY <2>1, ViewQuiet
<1>8. CASE UNCHANGED vars
  BY <1>8, ViewQuiet DEF vars, members, threads, history
<1> QED
  BY <1>1, <1>2, <1>3, <1>4, <1>5, <1>6, <1>7, <1>8 DEF Next, Terminated, Thread

LEMMA ViewAlways ==
    ASSUME PcTrusted
    PROVE  Spec => []View
<1>1. Init => View
  BY DEF Init, View, Idle, NoThread, StoppedAtBreakpoint
<1>2. IndInv /\ HitInv /\ BreakpointsRearmed /\ View /\ [Next]_vars => View'
  BY ViewStep
<1> QED
  BY <1>1, <1>2, TrustedUndisturbed, IndInvariant, HitAlways, ArmedAlways, PTL
  DEF Spec

(* The pc that ReadRegister shows is the address of the next instruction   *)
(* to retire, after a step, a run, a breakpoint hit, a step-over and a     *)
(* write of the pc, for every program and schedule: with any number of     *)
(* Halt() calls if there are no breakpoints, and with breakpoints if no    *)
(* Halt() call or debugger write to the semihosting address replaces the   *)
(* reason of the halt and enabling a breakpoint does not fail.             *)
THEOREM PcViewSafe ==
    ASSUME PcTrusted
    PROVE  Spec => []PcView
<1>1. IndInv /\ View => PcView
  <2> SUFFICES ASSUME IndInv, View, user.at = "idle", run_status = "kHalted"
               PROVE  ReadRegister = arch_pc
    BY DEF PcView
  <2>1. Settled
    BY DEF Settled, IndInv, OneOwner, Owns
  <2> QED
    BY <2>1 DEF View, ReadRegister
<1> QED
  BY <1>1, IndInvariant, ViewAlways, PTL

-----------------------------------------------------------------------------
(* The run control implements ProgramOrder. *)

LEMMA BusyIs == Busy <=> InCall \/ \E r \in RunThread : Owns(r)
BY DEF Busy, InCall

(* Steps that execute nothing and begin or end nothing. *)
LEMMA OrderQuiet ==
    ASSUME UNCHANGED <<arch_pc, runner>>, InCall' <=> InCall
    PROVE  UNCHANGED Order!vars
<1>1. Busy' <=> Busy
  BY BusyIs DEF Busy, InCall, Owns
<1> QED
  BY <1>1 DEF Order!vars, Busy

(* An executed instruction that retires goes where the program's flow of   *)
(* control goes: the instruction a loop executes at an address is the      *)
(* program's own there, unless it is the ebreak of a breakpoint.           *)
LEMMA FlowStep ==
    ASSUME NEW c \in CodeType, Faithful(c), NEW a \in Addr,
           NEW taken \in BOOLEAN, taken \in Outcome(Fetched(c, a))
    PROVE  NextPc(a, taken) \in Flow[a]
<1>1. Fetched(c, a) = IF c.bp[a] = "enabled" THEN "ebreak" ELSE Program[a]
  BY DEF Faithful, Fetched
<1>2. taken => Program[a] = "branch"
  BY <1>1 DEF Outcome
<1> QED
  BY <1>2 DEF NextPc, Flow

LEMMA OrderExecute ==
    ASSUME IndInv, Faithful(code), NEW a \in Addr, NEW taken \in BOOLEAN,
           Execute(a, taken), arch_pc = a
    PROVE  arch_pc' = arch_pc \/ arch_pc' \in Flow[arch_pc]
<1>1. NextPc(a, taken) \in Flow[a]
  BY FlowStep DEF Execute, IndInv, TypeOK
<1> QED
  BY <1>1 DEF Execute, Retire

LEMMA OrderStepLoop ==
    ASSUME IndInv, HitInv, View, Faithful(code),
           NEW taken \in BOOLEAN, StepLoop(taken)
    PROVE  [Order!Next]_Order!vars
<1>1. user.at = "stepLoop" /\ user'.at = "stepLoop"
  BY DEF StepLoop, At, IndInv, TypeOK, UserType
<1>2. Busy /\ Busy'
  BY <1>1 DEF Busy
<1>3. arch_pc = user.next_pc
  BY <1>1 DEF View, LocalView, HitInv, HitAt, StepLoop
<1>4. arch_pc' = arch_pc \/ arch_pc' \in Flow[arch_pc]
  BY <1>3, OrderExecute DEF StepLoop, IndInv, TypeOK, UserType
<1> QED
  BY <1>2, <1>4 DEF Order!Next, Order!Retire, Order!vars

LEMMA OrderRunLoop ==
    ASSUME IndInv, HitInv, View, Faithful(code),
           NEW r \in RunThread, NEW taken \in BOOLEAN, RunLoop(r, taken)
    PROVE  [Order!Next]_Order!vars
<1>1. runner[r].at = "loop" /\ runner'[r].at = "loop"
  BY DEF RunLoop, RunnerAtPoint, IndInv, TypeOK, RunnerType
<1>2. Busy /\ Busy'
  BY <1>1 DEF Busy, Owns
<1>3. arch_pc = runner[r].next_pc
  BY <1>1 DEF View, LocalView, HitInv, HitAt, RunLoop, KeepRunning
<1>4. arch_pc' = arch_pc \/ arch_pc' \in Flow[arch_pc]
  BY <1>3, OrderExecute DEF RunLoop, IndInv, TypeOK, RunnerType
<1> QED
  BY <1>2, <1>4 DEF Order!Next, Order!Retire, Order!vars

LEMMA OrderStepOver ==
    ASSUME IndInv, HitInv, View, PcTrusted, Faithful(code),
           NEW taken \in BOOLEAN, StepOver(taken)
    PROVE  [Order!Next]_Order!vars
<1> DEFINE a == previous_pc
           off == DisableBreakpoint(code, a)
<1>1. a \in Breakable /\ a \in Addr
  BY TopAssumption DEF HitInv, HitOver, StepOver, At
<1>2. off \in CodeType /\ Faithful(off)
  BY <1>1, DisableKeeps, BreakpointFaithful DEF IndInv, TypeOK, CodeInv
<1>3. taken \in Outcome(Fetched(off, a))
  BY DEF StepOver
<1>4. NextPc(a, taken) \in Flow[a]
  <2> HIDE DEF off
  <2> QED
    BY <1>1, <1>2, <1>3, FlowStep
<1>5. arch_pc' \in Flow[arch_pc]
  BY <1>4, ViewStepOver
<1>6. EnableMayFail = FALSE
  BY <1>1 DEF PcTrusted
<1>7. user.at \in {"stepOver", "runOver"} /\ user'.at \in {"stepLoop", "runStatus"}
  BY <1>6 DEF StepOver, At, LoopStart, Idle
<1>8. Busy /\ Busy'
  BY <1>7 DEF Busy
<1> QED
  BY <1>5, <1>8 DEF Order!Next, Order!Retire

LEMMA OrderBegin ==
    ASSUME IndInv, (\E num \in 1..MaxStep : StepBegin(num)) \/ RunBegin
    PROVE  [Order!Next]_Order!vars
<1>1. user.at = "idle" /\ run_status # "kRunning" /\ arch_pc' = arch_pc
  BY DEF StepBegin, RunBegin, At, MayRun
<1>2. ~Busy
  BY <1>1, BusyIs DEF InCall, IndInv, OneOwner
<1>3. user'.at \in {"stepOver", "stepLoop", "runOver", "runStatus"}
  <2>1. CASE StoppedAtBreakpoint
    BY <2>1 DEF StepBegin, RunBegin, Idle
  <2>2. CASE ~StoppedAtBreakpoint
    BY <2>2 DEF StepBegin, RunBegin, Idle, LoopStart
  <2> QED
    BY <2>1, <2>2
<1>4. Busy'
  BY <1>3 DEF Busy
<1> QED
  BY <1>1, <1>2, <1>4 DEF Order!Next, Order!Begin

LEMMA OrderLoopEnd ==
    ASSUME IndInv, StepEnd \/ \E r \in RunThread : RunLoopExit(r)
    PROVE  [Order!Next]_Order!vars
<1>1. CASE StepEnd
  <2>1. /\ user.at = "stepLoop" /\ user'.at = "idle"
        /\ arch_pc' = arch_pc /\ runner' = runner
    BY <1>1 DEF StepEnd, Idle, At, history
  <2>2. Busy
    BY <2>1 DEF Busy
  <2>3. ~Busy'
    BY <2>1 DEF Busy, IndInv, OneOwner, Owns, InCall
  <2> QED
    BY <2>1, <2>2, <2>3 DEF Order!Next, Order!End
<1>2. ASSUME NEW r \in RunThread, RunLoopExit(r)
      PROVE  [Order!Next]_Order!vars
  <2>1. /\ runner[r].at = "loop" /\ runner'[r].at = "status"
        /\ arch_pc' = arch_pc
    BY <1>2 DEF RunLoopExit, RunnerAtPoint, NoThread, history, IndInv, TypeOK
  <2>2. Busy /\ Busy'
    BY <2>1 DEF Busy, Owns
  <2>3. Busy' = Busy
    BY <2>2 DEF Busy
  <2> QED
    BY <2>1, <2>3 DEF Order!vars
<1> QED
  BY <1>1, <1>2

LEMMA OrderRunEnd ==
    ASSUME IndInv, NEW r \in RunThread, RunSetHalted(r) \/ RunNotify(r)
    PROVE  [Order!Next]_Order!vars
<1>1. /\ runner'[r].at \in {"notify", "none"}
      /\ \A s \in RunThread : s # r => runner'[s] = runner[s]
      /\ arch_pc' = arch_pc /\ user' = user
  BY DEF RunSetHalted, RunNotify, NoThread, IndInv, TypeOK, RunnerType, history
<1>2. CASE RunSetHalted(r)
  <2>1. Owns(r)
    BY <1>2 DEF RunSetHalted, RunnerAtPoint, Owns
  <2>2. Busy /\ ~InCall /\ \A s \in RunThread : s # r => ~Owns(s)
    BY <2>1, BusyIs DEF IndInv, OneOwner
  <2>3. ~Busy'
    BY <1>1, <2>2 DEF Busy, InCall, Owns
  <2> QED
    BY <1>1, <2>2, <2>3 DEF Order!Next, Order!End
<1>3. CASE RunNotify(r)
  <2>1. ~Owns(r)
    BY <1>3 DEF RunNotify, RunnerAtPoint, Owns
  <2>2. Busy' <=> Busy
    BY <1>1, <2>1 DEF Busy, Owns
  <2> QED
    BY <1>1, <2>2 DEF Order!vars, Busy
<1> QED
  BY <1>2, <1>3

LEMMA OrderRun ==
    ASSUME IndInv, RunStep
    PROVE  [Order!Next]_Order!vars
<1>1. CASE RunSetStatus \/ RunClearFlag
  <2>1. UNCHANGED <<arch_pc, runner>> /\ InCall /\ InCall'
    BY <1>1 DEF RunSetStatus, RunClearFlag, At, InCall, history, IndInv, TypeOK,
       UserType
  <2> QED
    BY <2>1, OrderQuiet
<1>2. ASSUME NEW r \in RunThread, RunSpawn(r)
      PROVE  [Order!Next]_Order!vars
  <2>1. user.at = "runSpawn" /\ runner'[r].at = "loop" /\ arch_pc' = arch_pc
    BY <1>2 DEF RunSpawn, At, history, IndInv, TypeOK
  <2>2. Busy /\ Busy'
    BY <2>1 DEF Busy, Owns
  <2>3. Busy' = Busy
    BY <2>2 DEF Busy
  <2> QED
    BY <2>1, <2>3 DEF Order!vars
<1> QED
  BY <1>1, <1>2 DEF RunStep

LEMMA OrderCall ==
    ASSUME IndInv, Call
    PROVE  [Order!Next]_Order!vars
<1>1. CASE (\E num \in 1..MaxStep : StepBegin(num)) \/ RunBegin
  BY <1>1, OrderBegin
<1>2. CASE WaitReturn \/ WaitBlock \/ DestroyBlock \/ DestroyAtOnce
           \/ SetUpSemiHosting \/ WriteMemoryTohost
  <2>1. /\ UNCHANGED <<arch_pc, runner>>
        /\ user.at = "idle"
        /\ user'.at \in {"idle", "waiting", "dtorWait", "destroyed"}
    BY <1>2 DEF WaitReturn, WaitBlock, DestroyBlock, DestroyAtOnce,
       SetUpSemiHosting, WriteMemoryTohost, Block, AtHalted, At, Idle, members,
       threads, history
  <2> QED
    BY <2>1, OrderQuiet DEF InCall
<1>3. ASSUME NEW c, CodeOnly(c)
      PROVE  [Order!Next]_Order!vars
  BY <1>3, OrderQuiet DEF CodeOnly, threads, history, InCall
<1>4. CASE \/ \E a \in WritableCode, op \in Op : WriteMemory(a, op)
           \/ \E a \in Breakable : SetSwBreakpoint(a) \/ ClearSwBreakpoint(a)
           \/ ClearAllSwBreakpoints
           \/ \E a \in Addr : GetInstruction(a) \/ GetDisassembly(a)
  BY <1>3, <1>4 DEF WriteMemory, SetSwBreakpoint, ClearSwBreakpoint,
     ClearAllSwBreakpoints, GetInstruction, GetDisassembly
<1>5. ASSUME NEW v \in Addr, WriteRegister(v)
      PROVE  [Order!Next]_Order!vars
  <2>1. /\ arch_pc' = v /\ UNCHANGED <<user, runner>>
        /\ user.at = "idle" /\ run_status = "kHalted"
    BY <1>5 DEF WriteRegister, AtHalted, At, threads
  <2>2. ~Busy /\ ~Busy'
    BY <2>1 DEF Busy, IndInv, OneOwner, Owns
  <2>3. Busy' = Busy
    BY <2>2 DEF Busy
  <2> QED
    BY <2>1, <2>2, <2>3 DEF Order!Next, Order!SetPc
<1> QED
  BY <1>1, <1>2, <1>4, <1>5 DEF Call

LEMMA OrderStep ==
    ASSUME IndInv, HitInv, View, PcTrusted, Faithful(code), [Next]_vars
    PROVE  [Order!Next]_Order!vars
<1>1. CASE Call
  BY <1>1, OrderCall
<1>2. CASE StepStep
  BY <1>2, OrderStepOver, OrderStepLoop, OrderLoopEnd DEF StepStep
<1>3. CASE RunStep
  BY <1>3, OrderRun
<1>4. ASSUME NEW r \in RunThread, RunnerStep(r), ~UseAfterFree(r)
      PROVE  [Order!Next]_Order!vars
  BY <1>4, OrderRunLoop, OrderLoopEnd, OrderRunEnd DEF RunnerStep
<1>5. ASSUME NEW t \in Thread, HaltStep(t) \/ UseAfterFree(t)
      PROVE  [Order!Next]_Order!vars
  BY <1>5, OrderQuiet DEF HaltStep, HaltCheck, HaltSetReason, HaltSetFlag,
     UseAfterFree, history, InCall
<1>6. CASE WaitStep
  <2>1. /\ UNCHANGED <<arch_pc, runner>>
        /\ user.at \in {"waiting", "dtorWait"}
        /\ user'.at \in {"idle", "destroyed"}
    BY <1>6 DEF WaitStep, WaitDone, DestroyDone, Unblock, At, Idle, history
  <2> QED
    BY <2>1, OrderQuiet DEF InCall
<1>7. CASE UNCHANGED vars
  BY <1>7, OrderQuiet DEF vars, threads, history, InCall
<1> QED
  BY <1>1, <1>2, <1>3, <1>4, <1>5, <1>6, <1>7 DEF Next, Terminated, Thread

(* If the user writes no instructions, and under the conditions of         *)
(* PcViewSafe, the run control with its threads, breakpoints, step-overs,  *)
(* decode cache and Halt() calls implements ProgramOrder: instructions     *)
(* retire along the program's flow of control, none twice and none         *)
(* skipped, only inside a Step or a Run, and the pc moves elsewhere only   *)
(* when the user writes it between them.                                   *)
THEOREM OrderRefined ==
    ASSUME PcTrusted, WritableCode = {}
    PROVE  Spec => RetiresInProgramOrder
<1>1. Init => Order!Init
  BY DEF Init, Order!Init, Busy, Idle, NoThread, Owns
<1>2. IndInv /\ HitInv /\ View /\ Faithful(code) /\ [Next]_vars
          => [Order!Next]_Order!vars
  BY OrderStep
<1> QED
  BY <1>1, <1>2, TrustedUndisturbed, IndInvariant, HitAlways, ViewAlways,
     FaithfulAlways, PTL
  DEF Spec, RetiresInProgramOrder, Order!Spec

-----------------------------------------------------------------------------
(* A halt request stays: Run() clears the flag when nothing is requested.  *)

HaltKept == NoLostHalt /\ NoHaltDueYet

(* Steps that neither raise a request nor clear the flag. *)
LEMMA KeptQuiet ==
    ASSUME HaltKept, UNCHANGED <<halted, halt_due>>,
           \/ user' = user
           \/ user'.at \notin {"runOver", "runStatus", "runClear"}
           \/ /\ user.at \in {"runOver", "runStatus", "runClear"}
              /\ user'.at \in {"runOver", "runStatus", "runClear"}
    PROVE  HaltKept'
BY DEF HaltKept, NoLostHalt, NoHaltDueYet

LEMMA KeptExecute ==
    ASSUME IndInv, HaltKept, NEW a \in Addr, NEW taken \in BOOLEAN,
           Execute(a, taken),
           user'.at \notin {"runOver", "runStatus", "runClear"}
    PROVE  HaltKept'
<1>1. RequestHalt(HaltRequest(code, a, Fetched(code, a)))
  BY DEF Execute
<1> QED
  BY <1>1 DEF RequestHalt, HaltKept, NoLostHalt, NoHaltDueYet

(* The instruction under a breakpoint makes no semihosting request. *)
LEMMA KeptStepOver ==
    ASSUME IndInv, HitInv, Faithful(code), HaltKept,
           \A a \in Breakable : Program[a] # "tohost",
           NEW taken \in BOOLEAN, StepOver(taken)
    PROVE  HaltKept'
<1> DEFINE a == previous_pc
           off == DisableBreakpoint(code, a)
           request == HaltRequest(off, a, Fetched(off, a))
<1>1. a \in Breakable /\ a \in Addr
  BY TopAssumption DEF HitInv, HitOver, StepOver, At
<1>2. off \in CodeType /\ Faithful(off)
  BY <1>1, DisableKeeps, BreakpointFaithful DEF IndInv, TypeOK, CodeInv
<1>3. Fetched(off, a) # "tohost"
  <2> HIDE DEF off
  <2> QED
    BY <1>1, <1>2 DEF Faithful, Fetched
<1>4. request # "kSemihostHaltRequest"
  BY <1>3 DEF HaltRequest, None
<1>5. \/ /\ halted' = (halted \/ request # None)
         /\ halt_due' = (halt_due \/ request = "kSemihostHaltRequest")
         /\ user'.at = IF user.at = "stepOver" THEN "stepLoop" ELSE "runStatus"
      \/ RequestHalt(request) /\ user'.at = "idle"
  BY DEF StepOver, LoopStart, Idle
<1>6. user.at \in {"stepOver", "runOver"}
  BY DEF StepOver, At
<1> HIDE DEF request
<1>7. CASE /\ halted' = (halted \/ request # None)
           /\ halt_due' = (halt_due \/ request = "kSemihostHaltRequest")
           /\ user'.at = IF user.at = "stepOver" THEN "stepLoop" ELSE "runStatus"
  <2>1. halt_due' = halt_due /\ (halted => halted')
    BY <1>4, <1>7 DEF IndInv, TypeOK
  <2> QED
    BY <1>6, <1>7, <2>1 DEF HaltKept, NoLostHalt, NoHaltDueYet
<1>8. CASE RequestHalt(request) /\ user'.at = "idle"
  BY <1>8 DEF RequestHalt, HaltKept, NoLostHalt, NoHaltDueYet
<1> QED
  BY <1>5, <1>7, <1>8

LEMMA KeptRun ==
    ASSUME IndInv, HaltKept, RunStep
    PROVE  HaltKept'
<1>1. CASE RunSetStatus
  <2>1. /\ user.at = "runStatus" /\ user'.at = "runClear"
        /\ UNCHANGED <<halted, halt_due>>
    BY <1>1 DEF RunSetStatus, At, IndInv, TypeOK, UserType, history
  <2> QED
    BY <2>1, KeptQuiet
<1>2. CASE RunClearFlag
  <2>1. ~halt_due /\ halt_due' = halt_due
    BY <1>2 DEF RunClearFlag, At, history, HaltKept, NoHaltDueYet
  <2> QED
    BY <2>1 DEF HaltKept, NoLostHalt, NoHaltDueYet
<1>3. ASSUME NEW r \in RunThread, RunSpawn(r)
      PROVE  HaltKept'
  <2>1. user'.at = "idle" /\ UNCHANGED <<halted, halt_due>>
    BY <1>3 DEF RunSpawn, Idle, history
  <2> QED
    BY <2>1, KeptQuiet
<1> QED
  BY <1>1, <1>2, <1>3 DEF RunStep

LEMMA KeptCall ==
    ASSUME IndInv, HaltKept, Call
    PROVE  HaltKept'
<1>1. CASE (\E num \in 1..MaxStep : StepBegin(num)) \/ RunBegin
  BY <1>1 DEF StepBegin, RunBegin, HaltKept, NoLostHalt, NoHaltDueYet
<1>2. CASE WaitReturn \/ WaitBlock \/ DestroyBlock \/ DestroyAtOnce
           \/ SetUpSemiHosting \/ \E v \in Addr : WriteRegister(v)
  <2>1. /\ UNCHANGED <<halted, halt_due>>
        /\ user'.at \in {"idle", "waiting", "dtorWait", "destroyed"}
    BY <1>2 DEF WaitReturn, WaitBlock, DestroyBlock, DestroyAtOnce,
       SetUpSemiHosting, WriteRegister, Block, AtHalted, At, Idle, members,
       threads, history
  <2> QED
    BY <2>1, KeptQuiet
<1>3. ASSUME NEW c, CodeOnly(c)
      PROVE  HaltKept'
  BY <1>3, KeptQuiet DEF CodeOnly, threads, history
<1>4. CASE \/ \E a \in WritableCode, op \in Op : WriteMemory(a, op)
           \/ \E a \in Breakable : SetSwBreakpoint(a) \/ ClearSwBreakpoint(a)
           \/ ClearAllSwBreakpoints
           \/ \E a \in Addr : GetInstruction(a) \/ GetDisassembly(a)
  BY <1>3, <1>4 DEF WriteMemory, SetSwBreakpoint, ClearSwBreakpoint,
     ClearAllSwBreakpoints, GetInstruction, GetDisassembly
<1>5. CASE WriteMemoryTohost
  BY <1>5 DEF WriteMemoryTohost, RequestHalt, AtHalted, At, threads, HaltKept,
     NoLostHalt, NoHaltDueYet, None
<1> QED
  BY <1>1, <1>2, <1>4, <1>5 DEF Call

LEMMA KeptRunner ==
    ASSUME IndInv, HaltKept, NEW r \in RunThread, RunnerStep(r),
           ~UseAfterFree(r)
    PROVE  HaltKept'
<1>1. ASSUME NEW taken \in BOOLEAN, RunLoop(r, taken)
      PROVE  HaltKept'
  <2>1. ~InCall /\ user' = user
    BY <1>1 DEF RunLoop, RunnerAtPoint, IndInv, OneOwner, Owns
  <2> QED
    BY <1>1, <2>1, KeptExecute DEF RunLoop, InCall, IndInv, TypeOK, RunnerType
<1>2. CASE RunLoopExit(r) \/ RunSetHalted(r) \/ RunNotify(r)
  BY <1>2, KeptQuiet DEF RunLoopExit, RunSetHalted, RunNotify, history
<1> QED
  BY <1>1, <1>2 DEF RunnerStep

LEMMA KeptStep ==
    ASSUME IndInv, HitInv, Faithful(code), HaltKept, MaxSignals = 0,
           \A a \in Breakable : Program[a] # "tohost", [Next]_vars
    PROVE  HaltKept'
<1>1. CASE Call
  BY <1>1, KeptCall
<1>2. ASSUME NEW taken \in BOOLEAN, StepOver(taken)
      PROVE  HaltKept'
  BY <1>2, KeptStepOver
<1>3. ASSUME NEW taken \in BOOLEAN, StepLoop(taken)
      PROVE  HaltKept'
  <2>1. user'.at = "stepLoop"
    BY <1>3 DEF StepLoop, At, IndInv, TypeOK, UserType
  <2> QED
    BY <1>3, <2>1, KeptExecute DEF StepLoop, IndInv, TypeOK, UserType
<1>4. CASE StepEnd
  BY <1>4, KeptQuiet DEF StepEnd, Idle, history
<1>5. CASE RunStep
  BY <1>5, KeptRun
<1>6. ASSUME NEW r \in RunThread, RunnerStep(r), ~UseAfterFree(r)
      PROVE  HaltKept'
  BY <1>6, KeptRunner
<1>7. \A t \in Thread : ~HaltStep(t)
  BY DEF HaltStep, HaltCheck, HaltSetReason, HaltSetFlag, HitInv, NoHaltCall,
     IndInv, TypeOK
<1>8. ASSUME NEW t \in Thread, UseAfterFree(t)
      PROVE  HaltKept'
  BY <1>8, KeptQuiet DEF UseAfterFree, members, history
<1>9. CASE WaitStep
  <2>1. UNCHANGED <<halted, halt_due>> /\ user'.at \in {"idle", "destroyed"}
    BY <1>9 DEF WaitStep, WaitDone, DestroyDone, Unblock, Idle, history
  <2> QED
    BY <2>1, KeptQuiet
<1>10. CASE UNCHANGED vars
  BY <1>10, KeptQuiet DEF vars, members, threads, history
<1> QED
  BY <1>1, <1>2, <1>3, <1>4, <1>5, <1>6, <1>7, <1>8, <1>9, <1>10
  DEF Next, StepStep, Terminated, Thread

(* A halt requested since Step or Run began stays requested until the next *)
(* Step or Run, for every program whose semihosting stores have no         *)
(* breakpoint on them, if no Halt() call interferes: the flag that Run()   *)
(* clears after stepping over a breakpoint holds no request but that       *)
(* breakpoint's own.  Both conditions are needed: they exclude the two     *)
(* ways in which Run() loses a request.                                    *)
THEOREM HaltRequestKept ==
    ASSUME MaxSignals = 0, WritableCode = {},
           \A a \in Breakable : Program[a] # "tohost"
    PROVE  Spec => []NoLostHalt
<1>1. Init => HaltKept
  BY DEF Init, HaltKept, NoLostHalt, NoHaltDueYet
<1>2. IndInv /\ HitInv /\ Faithful(code) /\ HaltKept /\ [Next]_vars => HaltKept'
  BY KeptStep
<1>3. HaltKept => NoLostHalt
  BY DEF HaltKept
<1>4. Undisturbed
  BY DEF Undisturbed
<1> QED
  BY <1>1, <1>2, <1>3, <1>4, IndInvariant, HitAlways, FaithfulAlways, PTL
  DEF Spec

=============================================================================
