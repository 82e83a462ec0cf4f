--------------------------- MODULE SimMainProofs ----------------------------
(***************************************************************************)
(* Proofs about the program rv32i_sim: what RV32ITop guarantees holds of   *)
(* it under main() too, a control-C does not cost the statistics, and what *)
(* a batch simulation exports is the count of the whole run.               *)
(***************************************************************************)
EXTENDS SimMain, RV32ITopProofs

(* The handler is installed after the pointer it goes through is set, and  *)
(* main returns after the export.                                          *)
EndInv ==
    /\ main_at \in {"args", "top", "sigaction"} => ~handler
    /\ main_at = "sigaction" \/ handler => top # "null"
    /\ main_at \in {"return", "exit"} => exported # {}
    /\ EndsAfterExport

(* Statements of a batch simulation that come before Run(). *)
BeforeRun == main_at \in {"args", "top", "sigaction", "load", "write_pc",
                          "semihost", "run"}

NoRunner == \A r \in RunThread : runner[r].at = "none"

(* Nobody executes instructions, or is about to. *)
AtRest == ~InCall /\ \A r \in RunThread : ~Owns(r)

(* A batch simulation sets no breakpoints, so every executed instruction   *)
(* is one that retires.                                                    *)
NoBreakpoints ==
    /\ \A a \in Addr : ~HasBreakpoint(code, a)
    /\ ~StoppedAtBreakpoint
    /\ user.at \notin {"stepOver", "runOver", "stepLoop"}

(* It starts one run thread, and the Notification outlives that thread's   *)
(* work.                                                                   *)
OneRun ==
    /\ main_at # "shell"
    /\ BeforeRun => user.at = "idle"
    /\ BeforeRun \/ InCall => NoRunner /\ run_halted = "null"
    /\ InCall => main_at \in {"wait", "exited"}
    /\ \A r, s \in RunThread :
           runner[r].at # "none" /\ runner[s].at # "none" => r = s
    /\ run_halted = "notified" => NoRunner

(* The run is over when main exports its statistics. *)
ExportInv ==
    /\ main_at = "export" =>
           user.at = "waiting" \/ (user.at = "idle" /\ AtRest)
    /\ main_at \in {"return", "exit"} => AtRest
    /\ exported # {} => main_at \in {"return", "exit", "exited"} /\ AtRest
    /\ exported \subseteq {counters}
    /\ counters.opcode = retired

Batch == NoBreakpoints /\ OneRun /\ ExportInv

BatchInv == ~interactive => Batch

-----------------------------------------------------------------------------
(* main() makes only calls that RV32ITop's user may make. *)

(* A step of the program is a step of RV32ITop or leaves it alone; main    *)
(* without a file name faults before it has used RV32ITop at all.          *)
Crashes ==
    fault' = TRUE /\ UNCHANGED <<members, user, runner, halt_call, signals,
                                 history>>

LEMMA MainSteps ==
    ASSUME [MainNext]_all_vars
    PROVE  [Next]_vars \/ Crashes
<1>1. CASE MainStep
  <2>1. CASE ParseCommandLine
    BY <2>1 DEF ParseCommandLine, Quiet, Crashes
  <2>2. CASE WritePc
    BY <2>2, MainAssumption DEF WritePc, Next, Call
  <2>3. CASE SetUp
    BY <2>3 DEF SetUp, Next, Call
  <2>4. CASE BatchRun \/ BatchWait \/ Destroy
    BY <2>4 DEF BatchRun, BatchWait, Destroy, Next, Call
  <2>5. CASE SetTop \/ SigAction \/ LoadProgram \/ Export \/ Exit
    BY <2>5 DEF SetTop, SigAction, LoadProgram, Export, Exit, Quiet
  <2> QED
    BY <1>1, <2>1, <2>2, <2>3, <2>4, <2>5 DEF MainStep
<1>2. CASE ShellCall \/ Continue \/ HandlerAfterFree
           \/ (\E r \in RunThread : RunThreadStep(r))
           \/ \E t \in Thread : HandlerStep(t)
  BY <1>2 DEF ShellCall, Continue, HandlerAfterFree, RunThreadStep,
     HandlerStep, Next
<1>3. CASE ShellQuit \/ Killed \/ Ended \/ UNCHANGED all_vars
  BY <1>3 DEF ShellQuit, Quiet, Killed, Ended, all_vars
<1> QED
  BY <1>1, <1>2, <1>3 DEF MainNext

LEMMA MainInd ==
    ASSUME IndInv, [MainNext]_all_vars
    PROVE  IndInv'
<1>1. CASE [Next]_vars
  BY <1>1, NextInd
<1>2. CASE Crashes
  BY <1>2 DEF Crashes, members, history, IndInv, TypeOK, CallInv, OneOwner,
     Owns, InCall, SteppedOver, BreakpointPc, StoppedAtBreakpoint
<1> QED
  BY <1>1, <1>2, MainSteps

LEMMA MainIndInvariant == MainSpec => []IndInv
<1>1. MainInit => IndInv
  BY InitInd DEF MainInit
<1>2. IndInv /\ [MainNext]_all_vars => IndInv'
  BY MainInd
<1> QED
  BY <1>1, <1>2, PTL DEF MainSpec

(* The statistics of the program are right at every moment of a batch or   *)
(* interactive simulation, and so in particular when main exports them:    *)
(* every retired instruction is counted once under its own opcode.         *)
THEOREM MainMixSafe == MainSpec => []InstructionMix
<1>1. MainInit => InstructionMix
  BY DEF MainInit, Init, InstructionMix, Op
<1>2. IndInv /\ InstructionMix /\ [MainNext]_all_vars => InstructionMix'
  <2> SUFFICES ASSUME IndInv, InstructionMix, [MainNext]_all_vars
               PROVE  InstructionMix'
    OBVIOUS
  <2>1. CASE [Next]_vars
    BY <2>1, MixStep
  <2>2. CASE Crashes
    BY <2>2 DEF Crashes, members, history, InstructionMix
  <2> QED
    BY <2>1, <2>2, MainSteps
<1> QED
  BY <1>1, <1>2, MainIndInvariant, PTL DEF MainSpec

-----------------------------------------------------------------------------
(* Control-C and the statistics. *)

LEMMA EndStep ==
    ASSUME EndInv, [MainNext]_all_vars
    PROVE  EndInv'
<1> USE DEF EndInv, EndsAfterExport
<1>1. CASE MainStep
  <2>1. CASE ParseCommandLine \/ SetTop \/ SigAction \/ LoadProgram
    BY <2>1 DEF ParseCommandLine, SetTop, SigAction, LoadProgram, Goto, Quiet
  <2>2. CASE WritePc \/ SetUp \/ BatchRun \/ BatchWait
    BY <2>2 DEF WritePc, SetUp, BatchRun, BatchWait, Goto
  <2>3. CASE Export \/ Destroy \/ Exit
    BY <2>3 DEF Export, Destroy, Exit, Goto
  <2> QED
    BY <1>1, <2>1, <2>2, <2>3 DEF MainStep
<1>2. CASE ShellQuit \/ Killed
  BY <1>2 DEF ShellQuit, Goto, Quiet, Killed, Over
<1>3. CASE ShellCall \/ Continue \/ HandlerAfterFree \/ Ended
           \/ UNCHANGED all_vars
           \/ (\E r \in RunThread : RunThreadStep(r))
           \/ \E t \in Thread : HandlerStep(t)
  BY <1>3 DEF ShellCall, Continue, HandlerAfterFree, Ended, RunThreadStep,
     HandlerStep, Alone, all_vars, main_vars
<1> QED
  BY <1>1, <1>2, <1>3 DEF MainNext

(* A control-C that reaches the handler never costs the statistics: with   *)
(* the handler installed, the process exits only after the export, in both *)
(* modes and wherever in main the signals arrive.                          *)
THEOREM EndsAfterExportSafe == MainSpec => []EndsAfterExport
<1>1. MainInit => EndInv
  BY DEF MainInit, EndInv, EndsAfterExport
<1>2. EndInv /\ [MainNext]_all_vars => EndInv'
  BY EndStep
<1>3. EndInv => EndsAfterExport
  BY DEF EndInv
<1> QED
  BY <1>1, <1>2, <1>3, PTL DEF MainSpec

-----------------------------------------------------------------------------
(* The batch simulation. *)

(* Steps that move main, and at most replace the reason of a halt. *)
LEMMA BatchQuiet ==
    ASSUME Batch, ~StoppedAtBreakpoint',
           UNCHANGED <<code, user, runner, run_halted, counters, retired,
                       exported>>,
           \/ main_at' = main_at \/ main_at' = "exited"
           \/ BeforeRun /\ (BeforeRun' \/ main_at' = "aborted")
    PROVE  Batch'
<1>1. NoBreakpoints'
  BY DEF Batch, NoBreakpoints
<1>2. (InCall' <=> InCall) /\ (NoRunner' <=> NoRunner) /\ (AtRest' <=> AtRest)
  BY DEF InCall, NoRunner, AtRest, Owns
<1>3. InCall => main_at \in {"wait", "exited"}
  BY DEF Batch, OneRun
<1>4. OneRun'
  <2>1. CASE main_at' = main_at
    BY <1>2, <2>1 DEF Batch, OneRun, BeforeRun
  <2>2. CASE main_at' # main_at
    BY <1>2, <1>3, <2>2 DEF Batch, OneRun, BeforeRun
  <2> QED
    BY <2>1, <2>2
<1>5. BeforeRun => exported = {}
  BY DEF Batch, ExportInv, BeforeRun
<1>6. ExportInv'
  BY <1>2, <1>5 DEF Batch, ExportInv, BeforeRun
<1> QED
  BY <1>1, <1>4, <1>6 DEF Batch

(* The statements before Run(). *)
LEMMA BatchEarly ==
    ASSUME Batch,
           ParseCommandLine \/ SetTop \/ SigAction \/ LoadProgram \/ WritePc
           \/ SetUp,
           ~interactive
    PROVE  Batch'
<1>1. CASE ParseCommandLine \/ SetTop \/ SigAction \/ LoadProgram
  <2>1. UNCHANGED <<code, user, runner, run_halted, counters, retired,
                    exported, halt_reason>>
    BY <1>1 DEF ParseCommandLine, SetTop, SigAction, LoadProgram, Quiet, vars,
       members, threads, history
  <2>2. BeforeRun /\ (BeforeRun' \/ main_at' \in {"exited", "aborted"})
    BY <1>1 DEF ParseCommandLine, SetTop, SigAction, LoadProgram, Goto,
       BeforeRun
  <2>3. ~StoppedAtBreakpoint'
    BY <2>1 DEF Batch, NoBreakpoints, StoppedAtBreakpoint
  <2> QED
    BY <2>1, <2>2, <2>3, BatchQuiet
<1>2. CASE WritePc
  <2>1. /\ UNCHANGED <<code, user, runner, run_halted, counters, retired,
                       exported>>
        /\ ~StoppedAtBreakpoint'
    BY <1>2 DEF WritePc, WriteRegister, threads, Batch, NoBreakpoints,
       StoppedAtBreakpoint
  <2>2. BeforeRun /\ BeforeRun'
    BY <1>2 DEF WritePc, Goto, BeforeRun
  <2> QED
    BY <2>1, <2>2, BatchQuiet
<1>3. CASE SetUp
  <2>1. /\ UNCHANGED <<code, user, runner, run_halted, counters, retired,
                       exported>>
        /\ ~StoppedAtBreakpoint'
    BY <1>3 DEF SetUp, SetUpSemiHosting, vars, members, threads, history, Batch,
       NoBreakpoints, StoppedAtBreakpoint
  <2>2. BeforeRun /\ BeforeRun'
    BY <1>3 DEF SetUp, Goto, BeforeRun
  <2> QED
    BY <2>1, <2>2, BatchQuiet
<1> QED
  BY <1>1, <1>2, <1>3

LEMMA BatchRunStep ==
    ASSUME Batch, BatchRun
    PROVE  Batch'
<1>1. /\ main_at = "run" /\ main_at' = "wait"
      /\ UNCHANGED <<code, halt_reason, runner, run_halted, counters, retired,
                     exported>>
      /\ user' = [Idle EXCEPT !.at = "runStatus"]
  BY DEF BatchRun, Goto, RunBegin, members, Batch, NoBreakpoints
<1>2. user'.at = "runStatus"
  BY <1>1 DEF Idle
<1>3. NoRunner' /\ run_halted' = "null" /\ exported' = {}
  BY <1>1 DEF Batch, OneRun, ExportInv, BeforeRun, NoRunner
<1>4. NoBreakpoints'
  BY <1>1, <1>2 DEF Batch, NoBreakpoints, StoppedAtBreakpoint
<1>5. OneRun'
  BY <1>1, <1>2, <1>3 DEF OneRun, BeforeRun, NoRunner
<1>6. ExportInv'
  BY <1>1, <1>3 DEF Batch, ExportInv
<1> QED
  BY <1>4, <1>5, <1>6 DEF Batch

LEMMA BatchWaitStep ==
    ASSUME IndInv, Batch, BatchWait
    PROVE  Batch'
<1>1. /\ main_at = "wait" /\ main_at' = "export" /\ user.at = "idle"
      /\ UNCHANGED <<code, halt_reason, runner, counters, retired, exported>>
  BY DEF BatchWait, Goto, At, WaitReturn, WaitBlock, Block, members, threads,
     history
<1>2. \/ run_status # "kRunning" /\ user' = user /\ run_halted' = "null"
      \/ user'.at = "waiting" /\ run_halted' = run_halted
  BY DEF BatchWait, WaitReturn, WaitBlock, Block, Idle, members, threads
<1>3. run_status # "kRunning" => AtRest
  BY <1>1 DEF AtRest, InCall, IndInv, OneOwner
<1>4. exported' = {}
  BY <1>1 DEF Batch, ExportInv
<1>5. NoBreakpoints'
  BY <1>1, <1>2 DEF Batch, NoBreakpoints, StoppedAtBreakpoint
<1>6. ~InCall'
  BY <1>1, <1>2 DEF InCall
<1>7. OneRun'
  BY <1>1, <1>2, <1>6 DEF Batch, OneRun, BeforeRun, NoRunner
<1>8. ExportInv'
  <2>1. user'.at = "waiting" \/ (user'.at = "idle" /\ AtRest')
    BY <1>1, <1>2, <1>3, <1>6 DEF AtRest, Owns
  <2> QED
    BY <1>1, <1>4, <2>1 DEF Batch, ExportInv
<1> QED
  BY <1>5, <1>7, <1>8 DEF Batch

(* The export, and the end of main. *)
LEMMA BatchLate ==
    ASSUME IndInv, Batch, Export \/ Destroy \/ Exit
    PROVE  Batch'
<1>1. CASE Export
  <2>1. /\ main_at = "export" /\ user.at = "idle" /\ main_at' = "return"
        /\ exported' = {counters}
        /\ UNCHANGED <<code, halt_reason, user, runner, run_halted, counters,
                       retired>>
    BY <1>1 DEF Export, Goto, At, vars, members, threads, history
  <2>2. AtRest /\ ~InCall
    BY <2>1 DEF Batch, ExportInv, AtRest
  <2>3. AtRest' /\ ~InCall'
    BY <2>1, <2>2 DEF AtRest, InCall, Owns
  <2>4. NoBreakpoints'
    BY <2>1 DEF Batch, NoBreakpoints, StoppedAtBreakpoint
  <2>5. OneRun'
    BY <2>1, <2>3 DEF Batch, OneRun, BeforeRun, NoRunner
  <2>6. ExportInv'
    BY <2>1, <2>3 DEF Batch, ExportInv
  <2> QED
    BY <2>4, <2>5, <2>6 DEF Batch
<1>2. CASE Destroy
  <2>1. /\ main_at = "return" /\ main_at' = "exit"
        /\ UNCHANGED <<code, halt_reason, runner, run_halted, counters, retired,
                       exported>>
        /\ user'.at \in {"dtorWait", "destroyed"}
    BY <1>2 DEF Destroy, Goto, DestroyAtOnce, DestroyBlock, Block, Idle,
       members, history
  <2>2. AtRest' /\ ~InCall'
    BY <2>1 DEF Batch, ExportInv, AtRest, InCall, Owns
  <2>3. NoBreakpoints'
    BY <2>1 DEF Batch, NoBreakpoints, StoppedAtBreakpoint
  <2>4. OneRun'
    BY <2>1, <2>2 DEF Batch, OneRun, BeforeRun, NoRunner
  <2>5. ExportInv'
    BY <2>1, <2>2 DEF Batch, ExportInv
  <2> QED
    BY <2>3, <2>4, <2>5 DEF Batch
<1>3. CASE Exit
  BY <1>3, BatchQuiet DEF Exit, vars, members, threads, history, Batch,
     NoBreakpoints, StoppedAtBreakpoint
<1> QED
  BY <1>1, <1>2, <1>3

(* Run() goes on to start the only run thread there is. *)
LEMMA BatchRunGoesOn ==
    ASSUME IndInv, Batch, Alone, RunStep
    PROVE  Batch'
<1>1. /\ UNCHANGED <<code, halt_reason, counters, retired, main_at, exported>>
      /\ InCall
  BY DEF Alone, main_vars, RunStep, RunSetStatus, RunClearFlag, RunSpawn, At,
     InCall, history
<1>2. NoRunner /\ run_halted = "null" /\ main_at = "wait" /\ exported = {}
  BY <1>1 DEF Batch, OneRun, ExportInv, Alone, Over
<1>3. CASE RunSetStatus \/ RunClearFlag
  <2>1. user'.at \in {"runClear", "runSpawn"} /\ UNCHANGED <<runner, run_halted>>
    BY <1>3 DEF RunSetStatus, RunClearFlag, IndInv, TypeOK, UserType
  <2>2. NoBreakpoints'
    BY <1>1, <2>1 DEF Batch, NoBreakpoints, StoppedAtBreakpoint
  <2>3. OneRun'
    BY <1>1, <1>2, <2>1 DEF OneRun, BeforeRun, NoRunner
  <2>4. ExportInv'
    BY <1>1, <1>2 DEF Batch, ExportInv
  <2> QED
    BY <2>2, <2>3, <2>4 DEF Batch
<1>4. ASSUME NEW r \in RunThread, RunSpawn(r)
      PROVE  Batch'
  <2>1. /\ user'.at = "idle" /\ run_halted' = "armed"
        /\ \A s \in RunThread : s # r => runner'[s] = runner[s]
    BY <1>4 DEF RunSpawn, Idle, IndInv, TypeOK
  <2>2. NoBreakpoints'
    BY <1>1, <2>1 DEF Batch, NoBreakpoints, StoppedAtBreakpoint
  <2>3. OneRun'
    BY <1>1, <1>2, <2>1 DEF OneRun, BeforeRun, NoRunner, InCall
  <2>4. ExportInv'
    BY <1>1, <1>2 DEF Batch, ExportInv
  <2> QED
    BY <2>2, <2>3, <2>4 DEF Batch
<1> QED
  BY <1>3, <1>4 DEF RunStep

LEMMA BatchWaitEnds ==
    ASSUME IndInv, Batch, Alone, WaitStep
    PROVE  Batch'
<1>1. /\ UNCHANGED <<code, halt_reason, runner, counters, retired, main_at,
                     exported>>
      /\ run_halted = "notified" /\ run_halted' = "null"
      /\ \/ user.at = "waiting" /\ user'.at = "idle"
         \/ user.at = "dtorWait" /\ user'.at = "destroyed"
  BY DEF Alone, main_vars, WaitStep, WaitDone, DestroyDone, Unblock, At, Idle,
     history
<1>2. NoRunner /\ NoRunner' /\ ~InCall'
  BY <1>1 DEF Batch, OneRun, NoRunner, InCall
<1>3. AtRest'
  BY <1>2 DEF AtRest, NoRunner, Owns
<1>4. NoBreakpoints'
  BY <1>1 DEF Batch, NoBreakpoints, StoppedAtBreakpoint
<1>5. OneRun'
  BY <1>1, <1>2 DEF Batch, OneRun, BeforeRun, NoRunner
<1>6. ExportInv'
  BY <1>1, <1>3 DEF Batch, ExportInv
<1> QED
  BY <1>4, <1>5, <1>6 DEF Batch

(* An instruction is counted as it retires. *)
LEMMA BatchExecute ==
    ASSUME IndInv, NoBreakpoints, counters.opcode = retired,
           NEW a \in Addr, NEW taken \in BOOLEAN, Execute(a, taken)
    PROVE  /\ \A b \in Addr : ~HasBreakpoint(code', b)
           /\ ~StoppedAtBreakpoint'
           /\ counters'.opcode = retired'
<1> DEFINE op == Fetched(code, a)
           request == HaltRequest(code, a, op)
<1>1. op \in Op /\ code \in CodeType
  BY FetchedType DEF IndInv, TypeOK
<1>2. \A b \in Addr : ~HasBreakpoint(code', b)
  BY <1>1 DEF Execute, GetDecodedInstruction, CodeType, NoBreakpoints,
     HasBreakpoint
<1>3. request # "kSoftwareBreakpoint"
  BY DEF HaltRequest, NoBreakpoints, None
<1>4. RequestHalt(request) /\ Increment(op) /\ Retire(code, a, op, taken)
  BY DEF Execute
<1>5. ~StoppedAtBreakpoint'
  <2> HIDE DEF request
  <2> QED
    BY <1>3, <1>4 DEF RequestHalt, StoppedAtBreakpoint, NoBreakpoints
<1>6. code.bp[a] # "enabled"
  BY DEF NoBreakpoints, HasBreakpoint, None
<1>7. counters'.opcode = retired'
  <2> HIDE DEF op
  <2>1. CASE MaxCount = 0
    BY <1>4, <2>1 DEF Increment, Retire
  <2>2. CASE MaxCount # 0
    BY <1>1, <1>4, <1>6, <2>2 DEF Increment, Retire, IndInv, TypeOK, CounterType
  <2> QED
    BY <2>1, <2>2
<1> QED
  BY <1>2, <1>5, <1>7

LEMMA BatchRunner ==
    ASSUME IndInv, Batch, Alone, NEW r \in RunThread, RunnerStep(r),
           ~UseAfterFree(r)
    PROVE  Batch'
<1>1. UNCHANGED <<main_at, exported, user>>
  BY DEF Alone, main_vars, RunnerStep, RunLoop, RunLoopExit, RunSetHalted,
     RunNotify
<1>2. runner[r].at # "none" /\ \A s \in RunThread : s # r => runner'[s] = runner[s]
  BY DEF RunnerStep, RunLoop, RunLoopExit, RunSetHalted, RunNotify,
     RunnerAtPoint, IndInv, TypeOK
<1>3. /\ ~NoRunner /\ ~BeforeRun /\ ~InCall /\ run_halted # "notified"
      /\ \A s \in RunThread : s # r => runner[s].at = "none"
  BY <1>2 DEF NoRunner, Batch, OneRun
<1>4. ~BeforeRun' /\ ~InCall'
  BY <1>1, <1>3 DEF BeforeRun, InCall
<1>5. \A s \in RunThread : s # r => runner'[s].at = "none"
  BY <1>2, <1>3
<1>6. ASSUME NEW taken \in BOOLEAN, RunLoop(r, taken)
      PROVE  Batch'
  <2>1. Owns(r) /\ ~AtRest
    BY <1>6 DEF RunLoop, RunnerAtPoint, Owns, AtRest
  <2>2. /\ exported = {} /\ main_at \notin {"return", "exit"}
        /\ main_at = "export" => user.at = "waiting"
    BY <2>1 DEF Batch, ExportInv
  <2>3. /\ \A b \in Addr : ~HasBreakpoint(code', b)
        /\ ~StoppedAtBreakpoint'
        /\ counters'.opcode = retired'
    BY <1>6, BatchExecute DEF RunLoop, Batch, ExportInv, IndInv, TypeOK,
       RunnerType
  <2>4. NoBreakpoints'
    BY <1>1, <2>3 DEF Batch, NoBreakpoints
  <2>5. OneRun'
    BY <1>1, <1>3, <1>4, <1>5, <1>6 DEF Batch, OneRun, RunLoop
  <2>6. ExportInv'
    BY <1>1, <2>2, <2>3 DEF ExportInv
  <2> QED
    BY <2>4, <2>5, <2>6 DEF Batch
<1>7. CASE RunLoopExit(r) \/ RunSetHalted(r) \/ RunNotify(r)
  <2>1. UNCHANGED <<code, halt_reason, counters, retired>>
    BY <1>7 DEF RunLoopExit, RunSetHalted, RunNotify, history
  <2>2. AtRest => AtRest'
    BY <1>4, <1>5, <1>7 DEF AtRest, Owns, RunLoopExit, RunSetHalted, RunNotify,
       RunnerAtPoint, NoThread, IndInv, TypeOK, RunnerType
  <2>3. NoBreakpoints'
    BY <1>1, <2>1 DEF Batch, NoBreakpoints, StoppedAtBreakpoint
  <2>4. run_halted' = "notified" => NoRunner'
    BY <1>3, <1>5, <1>7 DEF NoRunner, RunLoopExit, RunSetHalted, RunNotify,
       NoThread, IndInv, TypeOK
  <2>5. OneRun'
    BY <1>1, <1>3, <1>4, <1>5, <2>4 DEF Batch, OneRun
  <2>6. ExportInv'
    BY <1>1, <2>1, <2>2 DEF Batch, ExportInv
  <2> QED
    BY <2>3, <2>5, <2>6 DEF Batch
<1> QED
  BY <1>6, <1>7 DEF RunnerStep

LEMMA BatchStep ==
    ASSUME IndInv, Batch, ~interactive, [MainNext]_all_vars
    PROVE  Batch'
<1>1. CASE MainStep
  BY <1>1, BatchEarly, BatchRunStep, BatchWaitStep, BatchLate DEF MainStep
<1>2. ~ShellCall /\ ~ShellQuit
  BY DEF ShellCall, ShellQuit, Goto, Batch, OneRun
<1>3. CASE Continue
  <2>1. ~StepStep
    BY DEF StepStep, StepOver, StepLoop, StepEnd, At, Batch, NoBreakpoints
  <2> QED
    BY <1>3, <2>1, BatchRunGoesOn, BatchWaitEnds DEF Continue
<1>4. ASSUME NEW t \in Thread, Alone, HaltStep(t) \/ UseAfterFree(t)
      PROVE  Batch'
  <2>1. /\ UNCHANGED <<code, user, runner, run_halted, counters, retired,
                       exported, main_at>>
        /\ halt_reason' = halt_reason \/ halt_reason' = "kUserRequest"
    BY <1>4 DEF Alone, main_vars, HaltStep, HaltCheck, HaltSetReason,
       HaltSetFlag, UseAfterFree, members, history
  <2>2. ~StoppedAtBreakpoint'
    BY <2>1 DEF Batch, NoBreakpoints, StoppedAtBreakpoint
  <2> QED
    BY <2>1, <2>2, BatchQuiet
<1>5. ASSUME NEW r \in RunThread, RunThreadStep(r)
      PROVE  Batch'
  BY <1>4, <1>5, BatchRunner DEF RunThreadStep, Thread
<1>6. CASE HandlerAfterFree \/ \E t \in Thread : HandlerStep(t)
  BY <1>4, <1>6 DEF HandlerAfterFree, HandlerStep, Thread
<1>7. CASE Killed \/ Ended \/ UNCHANGED all_vars
  <2>1. /\ UNCHANGED <<code, halt_reason, user, runner, run_halted, counters,
                       retired, exported>>
        /\ main_at' = main_at \/ main_at' = "exited"
    BY <1>7 DEF Killed, Ended, all_vars, main_vars, vars, members, threads,
       history
  <2>2. ~StoppedAtBreakpoint'
    BY <2>1 DEF Batch, NoBreakpoints, StoppedAtBreakpoint
  <2> QED
    BY <2>1, <2>2, BatchQuiet
<1> QED
  BY <1>1, <1>2, <1>3, <1>5, <1>6, <1>7 DEF MainNext

LEMMA ModeKept ==
    ASSUME [MainNext]_all_vars
    PROVE  interactive' = interactive
BY DEF MainNext, MainStep, ParseCommandLine, SetTop, SigAction, LoadProgram,
       WritePc, SetUp, BatchRun, BatchWait, Export, Destroy, Exit, Goto,
       ShellCall, ShellQuit, Continue, RunThreadStep, HandlerStep,
       HandlerAfterFree, Killed, Ended, Alone, main_vars, all_vars

(* What a batch simulation exports are the statistics of the whole run, in *)
(* every schedule of the run thread and of control-Cs: when main has       *)
(* waited for the run nothing executes any more, although the thread may   *)
(* still be about to notify, and opcode for opcode the counters are the    *)
(* instructions the program retired.                                       *)
THEOREM ExportedFinalSafe == MainSpec => []ExportedFinal
<1>1. MainInit => BatchInv
  BY DEF MainInit, Init, BatchInv, Batch, NoBreakpoints, OneRun, ExportInv,
     BeforeRun, NoRunner, InCall, Idle, NoThread, StoppedAtBreakpoint,
     HasBreakpoint, LoadedCode
<1>2. IndInv /\ BatchInv /\ [MainNext]_all_vars => BatchInv'
  BY BatchStep, ModeKept DEF BatchInv
<1>3. BatchInv => ExportedFinal
  BY DEF BatchInv, Batch, ExportInv, ExportedFinal
<1> QED
  BY <1>1, <1>2, <1>3, MainIndInvariant, PTL DEF MainSpec

=============================================================================
