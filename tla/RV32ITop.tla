------------------------------ MODULE RV32ITop ------------------------------
(***************************************************************************)
(* The run control of the simulator (class RV32ITop): the debugger thread  *)
(* calling Step, Run, Wait, Halt, the register, memory and breakpoint      *)
(* operations and the destructor; the detached thread each Run() starts;   *)
(* the SIGINT handler, which calls Halt() on whichever thread receives     *)
(* the signal; and the semihosting and breakpoint callbacks.               *)
(*                                                                         *)
(* Variables keep the names of the members of RV32ITop.  A thread's steps  *)
(* are split wherever another thread can observe or change the members in  *)
(* between; an instruction with its callbacks is one step.                 *)
(***************************************************************************)
EXTENDS CodeStore, FiniteSets

CONSTANTS
    MainThread,      \* the thread that calls the debug interface
    RunThread,       \* the threads Run() can have alive at one time
    ResetPc,         \* the pc of a newly constructed core
    Uninit,          \* the value of a uint32_t nobody has assigned
    MaxStep,         \* bound: largest argument of Step
    MaxSignals,      \* bound: number of Halt() calls that find the core running
    MaxCount,        \* bound: instructions counted (0: counters are not kept)
    Breakable,       \* addresses the user may set a breakpoint on
    WritableCode,    \* addresses the user may write an instruction to
    WritesTohost,    \* may the user write the semihosting address?
    EnableMayFail    \* may re-enabling a breakpoint fail?

Thread == {MainThread} \cup RunThread

ASSUME TopAssumption ==
    /\ MainThread \notin RunThread
    /\ ResetPc \in Addr
    /\ Uninit \notin Addr
    /\ MaxStep \in Nat \ {0}
    /\ MaxSignals \in Nat
    /\ MaxCount \in Nat
    /\ Breakable \subseteq Addr
    /\ WritableCode \subseteq Addr
    /\ WritesTohost \in BOOLEAN
    /\ EnableMayFail \in BOOLEAN

VARIABLES
    run_status,      \* run_status_
    halt_reason,     \* halt_reason_
    halted,          \* halted_
    previous_pc,     \* previous_pc_
    pc,              \* the contents of the pc register's data buffer
    run_halted,      \* the Notification run_halted_ points to
    semihost,        \* has SetUpSemiHosting installed the memory watcher?
    code,            \* memory, breakpoints and decode cache (CodeStore)
    counters,        \* counter_num_instructions_ and counter_opcode_
    user,            \* where the debugger thread is, and its locals in Step
    runner,          \* where each run thread is, and its locals
    halt_call,       \* progress of a Halt() call on each thread
    signals,         \* Halt() calls so far that found the core running
    fault,           \* a null, freed or used-up object has been used
    arch_pc,         \* history: address of the next instruction to retire
    halt_due,        \* history: a halt was requested since Step or Run began
                     \* (not by the very breakpoint that is stepped over)
    retired          \* history: instructions retired, by kind

members == <<run_status, halt_reason, halted, previous_pc, pc, run_halted,
             semihost, code, counters>>
threads == <<user, runner, halt_call, signals, fault>>
history == <<arch_pc, halt_due, retired>>
vars == <<members, threads, history>>

RunStatus == {"kHalted", "kRunning", "kSingleStep"}
HaltReason == {"kNone", "kUserRequest", "kSoftwareBreakpoint",
               "kSemihostHaltRequest"}

(* Program points of the debugger thread inside Step, Run, Wait and the    *)
(* destructor, and of a run thread.                                        *)
UserAt == {"idle", "stepOver", "stepLoop", "runOver", "runStatus", "runClear",
           "runSpawn", "waiting", "dtorWait", "destroyed"}
RunnerAt == {"none", "loop", "status", "notify"}

AnyPc == Addr \cup {Uninit}
CounterType == [num : Nat, opcode : [Op -> Nat]]
UserType == [at : UserAt, left : Nat, pc : AnyPc, next_pc : Addr]
RunnerType == [at : RunnerAt, pc : AnyPc, next_pc : Addr]

Idle == [at |-> "idle", left |-> 0, pc |-> Uninit, next_pc |-> ResetPc]
NoThread == [at |-> "none", pc |-> Uninit, next_pc |-> ResetPc]

(* The constructor: previous_pc_ is left uninitialized, every other member *)
(* has its default, and the pc register is set to zero by RiscVState.      *)
Init ==
    /\ run_status = "kHalted"
    /\ halt_reason = "kNone"
    /\ halted = FALSE
    /\ previous_pc = Uninit
    /\ pc = ResetPc
    /\ run_halted = "null"
    /\ semihost = FALSE
    /\ code = LoadedCode
    /\ counters = [num |-> 0, opcode |-> [o \in Op |-> 0]]
    /\ user = Idle
    /\ runner = [r \in RunThread |-> NoThread]
    /\ halt_call = [t \in Thread |-> "no"]
    /\ signals = 0
    /\ fault = FALSE
    /\ arch_pc = ResetPc
    /\ halt_due = FALSE
    /\ retired = [o \in Op |-> 0]

-----------------------------------------------------------------------------
(* Instruction execution, common to Step, Run and the stepping over.       *)

(* The reason of the RequestHalt call, if any, that the instruction op at  *)
(* address a makes: the ebreak handler and the semihosting callbacks.      *)
HaltRequest(c, a, op) ==
    CASE op = "ebreak" /\ HasBreakpoint(c, a) -> "kSoftwareBreakpoint"
      [] op = "tohost" /\ semihost            -> "kSemihostHaltRequest"
      [] OTHER                                -> None

(* May the instruction at a write the pc register? *)
Outcome(op) == IF op = "branch" THEN BOOLEAN ELSE {FALSE}

NextPc(a, taken) == IF taken THEN Target[a] ELSE Succ[a]

(* Mutant: the per-opcode counter is forgotten. *)
IncrementTotalOnly(op) ==
    IF MaxCount = 0 THEN UNCHANGED counters
    ELSE /\ counters.num < MaxCount
         /\ counters' = [counters EXCEPT !.num = @ + 1]

(* Both counters, after an instruction has executed. *)
Increment(op) ==
    IF MaxCount = 0 THEN UNCHANGED counters
    ELSE /\ counters.num < MaxCount
         /\ counters' = [counters EXCEPT !.num = @ + 1, !.opcode[op] = @ + 1]

(* History: an instruction of the program retires, unless what executed is *)
(* the ebreak of an enabled breakpoint standing in for it.                 *)
Retire(c, a, op, taken) ==
    LET planted == op = "ebreak" /\ c.bp[a] = "enabled" IN
    /\ arch_pc' = IF planted THEN arch_pc ELSE NextPc(a, taken)
    /\ retired' = IF planted \/ MaxCount = 0 THEN retired
                  ELSE [retired EXCEPT ![op] = @ + 1]

(* Mutant: the reason is recorded but the flag is not raised. *)
RequestHaltNoFlag(reason) ==
    IF reason = None THEN UNCHANGED <<halt_reason, halted, halt_due>>
    ELSE halt_reason' = reason /\ halt_due' = TRUE /\ UNCHANGED halted

(* RequestHalt(reason): first the reason, then the flag. *)
RequestHalt(reason) ==
    IF reason = None THEN UNCHANGED <<halt_reason, halted, halt_due>>
    ELSE halt_reason' = reason /\ halted' = TRUE /\ halt_due' = TRUE

(* GetDecodedInstruction(next_pc) and Execute, in the loops of Step and    *)
(* Run: the counters, the callbacks, and the pc register if it is written. *)
Execute(a, taken) ==
    LET op == Fetched(code, a) IN
    /\ taken \in Outcome(op)
    /\ code' = GetDecodedInstruction(code, a)
    /\ RequestHalt(HaltRequest(code, a, op))
    /\ pc' = IF taken THEN Target[a] ELSE pc
    /\ Increment(op)
    /\ Retire(code, a, op, taken)

-----------------------------------------------------------------------------
(* Halt().  The call may be made by the user, and by sim_sigint_handler on *)
(* any live thread, which does nothing else until the call returns.  It    *)
(* reads run_status_, then writes halt_reason_, then halted_; a call that  *)
(* does not find the core running changes nothing.                         *)

Free(t) == ~fault /\ halt_call[t] = "no"

Alive(t) == IF t = MainThread THEN user.at # "destroyed"
            ELSE runner[t].at # "none" /\ user.at # "destroyed"

HaltCheck(t) ==
    /\ Free(t) /\ Alive(t)
    /\ signals < MaxSignals
    /\ run_status = "kRunning"
    /\ signals' = signals + 1
    /\ halt_call' = [halt_call EXCEPT ![t] = "reason"]
    /\ UNCHANGED <<members, user, runner, fault, history>>

HaltSetReason(t) ==
    /\ ~fault /\ Alive(t)
    /\ halt_call[t] = "reason"
    /\ halt_reason' = "kUserRequest"
    /\ halt_call' = [halt_call EXCEPT ![t] = "flag"]
    /\ UNCHANGED <<run_status, halted, previous_pc, pc, run_halted, semihost,
                   code, counters, user, runner, signals, fault, history>>

HaltSetFlag(t) ==
    /\ ~fault /\ Alive(t)
    /\ halt_call[t] = "flag"
    /\ halted' = TRUE
    /\ halt_due' = TRUE
    /\ halt_call' = [halt_call EXCEPT ![t] = "no"]
    /\ UNCHANGED <<run_status, halt_reason, previous_pc, pc, run_halted,
                   semihost, code, counters, user, runner, signals, fault,
                   arch_pc, retired>>

-----------------------------------------------------------------------------
(* Step(num) and the part of Run() that comes before the core runs.        *)

At(p) == Free(MainThread) /\ user.at = p

(* The loops start by copying the pc register into next_pc; pc is declared *)
(* without a value.                                                        *)
LoopStart(p, left, from) ==
    [at |-> p, left |-> left, pc |-> Uninit, next_pc |-> from]

(* Mutants: stepping over after any halt that has a reason, and never. *)
StoppedForAnyReason == halt_reason # "kNone"
NeverStepsOver == FALSE

StoppedAtBreakpoint == halt_reason = "kSoftwareBreakpoint"

StepBegin(num) ==
    /\ At("idle")
    /\ run_status = "kHalted"
    /\ run_status' = "kSingleStep"
    /\ halted' = FALSE
    /\ halt_due' = FALSE
    /\ user' = IF StoppedAtBreakpoint
               THEN [Idle EXCEPT !.at = "stepOver", !.left = num]
               ELSE LoopStart("stepLoop", num, pc)
    /\ UNCHANGED <<halt_reason, previous_pc, pc, run_halted, semihost, code,
                   counters, runner, halt_call, signals, fault, arch_pc,
                   retired>>

(* Mutant: Run() does not check that the core is running already. *)
RunAnyway == TRUE

(* Run() refuses only a core that is kRunning. *)
MayRun == run_status # "kRunning"

RunBegin ==
    /\ At("idle")
    /\ MayRun
    /\ halt_due' = FALSE
    /\ user' = [Idle EXCEPT !.at = IF StoppedAtBreakpoint THEN "runOver"
                                                          ELSE "runStatus"]
    /\ UNCHANGED <<members, runner, halt_call, signals, fault, arch_pc,
                   retired>>

(* Stepping over the breakpoint the core stopped at, in Step and in Run:   *)
(* disable it, execute the real instruction, enable it again.  A failure   *)
(* to disable it (the user has cleared it) is ignored; a failure to enable *)
(* it makes Step and Run return at once, with the members as they are.     *)
StepOver(taken) ==
    LET a       == previous_pc
        off     == DisableBreakpoint(code, a)
        op      == Fetched(off, a)
        ran     == GetDecodedInstruction(off, a)
        request == HaltRequest(off, a, op)
        newpc   == IF taken THEN Target[a] ELSE pc
    IN
    /\ At("stepOver") \/ At("runOver")
    /\ taken \in Outcome(op)
    /\ pc' = newpc
    /\ Increment(op)
    /\ Retire(off, a, op, taken)
    /\ \/ /\ code' = EnableBreakpoint(ran, a)
          /\ halt_reason' = "kNone"
          /\ halted' = (halted \/ request # None)
          /\ halt_due' = (halt_due \/ request = "kSemihostHaltRequest")
          /\ user' = IF user.at = "stepOver"
                     THEN LoopStart("stepLoop", user.left - 1, newpc)
                     ELSE [Idle EXCEPT !.at = "runStatus"]
       \/ /\ EnableMayFail
          /\ HasBreakpoint(code, a)
          /\ code' = ran
          /\ RequestHalt(request)
          /\ user' = Idle
    /\ UNCHANGED <<run_status, previous_pc, run_halted, semihost, runner,
                   halt_call, signals, fault>>

(* Mutant: the count of executed instructions is not advanced. *)
StepsLeftStuck(left) == IF halted' THEN 0 ELSE left

(* What is left of Step's count after an instruction. *)
StepsLeft(left) == IF halted' THEN 0 ELSE left - 1

(* One iteration of the loop of Step. *)
StepLoop(taken) ==
    LET a == user.next_pc IN
    /\ At("stepLoop")
    /\ user.left > 0
    /\ Execute(a, taken)
    /\ user' = [user EXCEPT !.left = StepsLeft(@),
                            !.pc = a,
                            !.next_pc = NextPc(a, taken)]
    /\ UNCHANGED <<run_status, previous_pc, run_halted, semihost, runner,
                   halt_call, signals, fault>>

(* Mutants: the two values are swapped; the pc register is not updated. *)
SavePcSwapped(local) == previous_pc' = local.next_pc /\ pc' = local.pc
SavePcForgotten(local) == previous_pc' = local.pc /\ UNCHANGED pc

(* What Step and the run thread do with their locals after the loop. *)
SavePc(local) == previous_pc' = local.pc /\ pc' = local.next_pc

StepEnd ==
    /\ At("stepLoop")
    /\ user.left = 0
    /\ SavePc(user)
    /\ halt_reason' = IF halted THEN halt_reason ELSE "kNone"
    /\ run_status' = "kHalted"
    /\ user' = Idle
    /\ UNCHANGED <<halted, run_halted, semihost, code, counters, runner,
                   halt_call, signals, fault, history>>

-----------------------------------------------------------------------------
(* The rest of Run(), and the thread it starts. *)

RunSetStatus ==
    /\ At("runStatus")
    /\ run_status' = "kRunning"
    /\ user' = [user EXCEPT !.at = "runClear"]
    /\ UNCHANGED <<halt_reason, halted, previous_pc, pc, run_halted, semihost,
                   code, counters, runner, halt_call, signals, fault, history>>

RunClearFlag ==
    /\ At("runClear")
    /\ halted' = FALSE
    /\ user' = [user EXCEPT !.at = "runSpawn"]
    /\ UNCHANGED <<run_status, halt_reason, previous_pc, pc, run_halted,
                   semihost, code, counters, runner, halt_call, signals, fault,
                   history>>

(* A new Notification, and a detached thread that reads the pc register. *)
RunSpawn(r) ==
    /\ At("runSpawn")
    /\ runner[r].at = "none"
    /\ run_halted' = "armed"
    /\ runner' = [runner EXCEPT ![r] = [at |-> "loop", pc |-> Uninit,
                                        next_pc |-> pc]]
    /\ user' = Idle
    /\ UNCHANGED <<run_status, halt_reason, halted, previous_pc, pc, semihost,
                   code, counters, halt_call, signals, fault, history>>

RunnerAtPoint(r, p) ==
    Free(r) /\ Alive(r) /\ runner[r].at = p

(* Mutant: a loop that never looks at the flag. *)
RunForever == TRUE

KeepRunning == ~halted

RunLoop(r, taken) ==
    LET a == runner[r].next_pc IN
    /\ RunnerAtPoint(r, "loop")
    /\ KeepRunning
    /\ Execute(a, taken)
    /\ runner' = [runner EXCEPT ![r].pc = a, ![r].next_pc = NextPc(a, taken)]
    /\ UNCHANGED <<run_status, previous_pc, run_halted, semihost, user,
                   halt_call, signals, fault>>

RunLoopExit(r) ==
    /\ RunnerAtPoint(r, "loop")
    /\ ~KeepRunning
    /\ SavePc(runner[r])
    /\ runner' = [runner EXCEPT ![r] = [NoThread EXCEPT !.at = "status"]]
    /\ UNCHANGED <<run_status, halt_reason, halted, run_halted, semihost, code,
                   counters, user, halt_call, signals, fault, history>>

RunSetHalted(r) ==
    /\ RunnerAtPoint(r, "status")
    /\ run_status' = "kHalted"
    /\ runner' = [runner EXCEPT ![r].at = "notify"]
    /\ UNCHANGED <<halt_reason, halted, previous_pc, pc, run_halted, semihost,
                   code, counters, user, halt_call, signals, fault, history>>

(* Mutant: the thread ends without notifying. *)
NotNotified == run_halted

Notified == IF run_halted = "armed" THEN "notified" ELSE run_halted

(* run_halted_->Notify(): on whatever run_halted_ points to by now. *)
RunNotify(r) ==
    /\ RunnerAtPoint(r, "notify")
    /\ run_halted' = Notified
    /\ fault' = (run_halted # "armed")
    /\ runner' = [runner EXCEPT ![r] = NoThread]
    /\ UNCHANGED <<run_status, halt_reason, halted, previous_pc, pc, semihost,
                   code, counters, user, halt_call, signals, history>>

-----------------------------------------------------------------------------
(* Wait() and the destructor. *)

(* A core that is not running: the Notification is deleted at once. *)
WaitReturn ==
    /\ At("idle")
    /\ run_status # "kRunning"
    /\ run_halted' = "null"
    /\ UNCHANGED <<run_status, halt_reason, halted, previous_pc, pc, semihost,
                   code, counters, threads, history>>

(* WaitForNotification on run_halted_, in Wait and in the destructor. *)
Block(p) ==
    /\ At("idle")
    /\ run_status = "kRunning"
    /\ fault' = (run_halted = "null")
    /\ user' = [Idle EXCEPT !.at = p]
    /\ UNCHANGED <<members, runner, halt_call, signals, history>>

WaitBlock == Block("waiting")

Unblock(p, q) ==
    /\ At(p)
    /\ run_halted = "notified"
    /\ run_halted' = "null"
    /\ user' = [Idle EXCEPT !.at = q]
    /\ UNCHANGED <<run_status, halt_reason, halted, previous_pc, pc, semihost,
                   code, counters, runner, halt_call, signals, fault, history>>

WaitDone == Unblock("waiting", "idle")

(* ~RV32ITop(): it waits for a running core, then frees everything. *)
DestroyBlock == Block("dtorWait")

DestroyDone == Unblock("dtorWait", "destroyed")

DestroyAtOnce ==
    /\ At("idle")
    /\ run_status # "kRunning"
    /\ user' = [Idle EXCEPT !.at = "destroyed"]
    /\ UNCHANGED <<members, runner, halt_call, signals, fault, history>>

(* A run thread, or a signal handler through the static pointer `top`,     *)
(* uses the destroyed object.                                              *)
UseAfterFree(t) ==
    /\ ~fault
    /\ user.at = "destroyed"
    /\ IF t = MainThread THEN signals < MaxSignals ELSE runner[t].at # "none"
    /\ fault' = TRUE
    /\ UNCHANGED <<members, user, runner, halt_call, signals, history>>

-----------------------------------------------------------------------------
(* Operations on the state of a halted core. *)

AtHalted == At("idle") /\ run_status = "kHalted"

(* WriteRegister("pc", v). *)
WriteRegister(v) ==
    /\ AtHalted
    /\ halt_reason' = IF StoppedAtBreakpoint THEN "kNone" ELSE halt_reason
    /\ pc' = v
    /\ arch_pc' = v
    /\ UNCHANGED <<run_status, halted, previous_pc, run_halted, semihost, code,
                   counters, threads, halt_due, retired>>

(* Mutant: the register is returned as it is. *)
ReadRegisterRaw == pc

(* ReadRegister("pc") of a halted core. *)
ReadRegister == IF StoppedAtBreakpoint THEN previous_pc ELSE pc

CodeOnly(c) ==
    /\ code' = c
    /\ UNCHANGED <<run_status, halt_reason, halted, previous_pc, pc, run_halted,
                   semihost, counters, threads, history>>

(* WriteMemory of an instruction: a store the decode cache does not see. *)
WriteMemory(a, op) == AtHalted /\ CodeOnly(Store(code, a, op))

(* WriteMemory of the semihosting address: the store goes to               *)
(* state_->memory(), which SetUpSemiHosting has made the watcher.          *)
WriteMemoryTohost ==
    /\ AtHalted
    /\ semihost
    /\ RequestHalt("kSemihostHaltRequest")
    /\ UNCHANGED <<run_status, previous_pc, pc, run_halted, semihost, code,
                   counters, threads, arch_pc, retired>>

SetSwBreakpoint(a) == AtHalted /\ CodeOnly(SetBreakpoint(code, a))

ClearSwBreakpoint(a) == AtHalted /\ CodeOnly(ClearBreakpoint(code, a))

ClearAllSwBreakpoints == AtHalted /\ CodeOnly(ClearAllBreakpoints(code))

(* GetInstruction does not look at run_status_. *)
GetInstruction(a) == At("idle") /\ CodeOnly(GetDecodedInstruction(code, a))

(* GetDisassembly enables a breakpoint again that it has disabled. *)
GetDisassembly(a) ==
    LET shown == Disassembled(code, a) IN
    /\ AtHalted
    /\ \/ CodeOnly(IF code.bp[a] = "enabled" THEN EnableBreakpoint(shown, a)
                   ELSE shown)
       \/ EnableMayFail /\ code.bp[a] = "enabled" /\ CodeOnly(shown)

SetUpSemiHosting ==
    /\ AtHalted
    /\ semihost' = TRUE
    /\ UNCHANGED <<run_status, halt_reason, halted, previous_pc, pc, run_halted,
                   code, counters, threads, history>>

-----------------------------------------------------------------------------
(* Nothing is left to run, the process has crashed, or the bound on the    *)
(* instructions counted is reached.                                        *)
Terminated ==
    /\ \/ fault
       \/ user.at = "destroyed"
       \/ MaxCount > 0 /\ counters.num = MaxCount
    /\ UNCHANGED vars

HaltStep(t) == HaltCheck(t) \/ HaltSetReason(t) \/ HaltSetFlag(t)

StepStep ==
    \/ \E taken \in BOOLEAN : StepOver(taken) \/ StepLoop(taken)
    \/ StepEnd

RunStep == RunSetStatus \/ RunClearFlag \/ \E r \in RunThread : RunSpawn(r)

RunnerStep(r) ==
    \/ \E taken \in BOOLEAN : RunLoop(r, taken)
    \/ RunLoopExit(r) \/ RunSetHalted(r) \/ RunNotify(r)
    \/ UseAfterFree(r)

WaitStep == WaitDone \/ DestroyDone

Call ==
    \/ \E num \in 1..MaxStep : StepBegin(num)
    \/ RunBegin \/ WaitReturn \/ WaitBlock \/ DestroyBlock \/ DestroyAtOnce
    \/ \E v \in Addr : WriteRegister(v)
    \/ \E a \in WritableCode, op \in Op : WriteMemory(a, op)
    \/ WritesTohost /\ WriteMemoryTohost
    \/ \E a \in Breakable : SetSwBreakpoint(a) \/ ClearSwBreakpoint(a)
    \/ ClearAllSwBreakpoints
    \/ \E a \in Addr : GetInstruction(a) \/ GetDisassembly(a)
    \/ SetUpSemiHosting

Next ==
    \/ Call
    \/ StepStep
    \/ RunStep
    \/ WaitStep
    \/ \E r \in RunThread : RunnerStep(r)
    \/ \E t \in Thread : HaltStep(t)
    \/ UseAfterFree(MainThread)
    \/ Terminated

Spec == Init /\ [][Next]_vars

(* A call that has begun goes on, a run thread is scheduled, and a signal  *)
(* handler that has started returns.  Nobody need ever make a call.        *)
Fairness ==
    /\ WF_vars(StepStep) /\ WF_vars(RunStep) /\ WF_vars(WaitStep)
    /\ \A r \in RunThread : WF_vars(RunnerStep(r))
    /\ \A t \in Thread : WF_vars(HaltSetReason(t) \/ HaltSetFlag(t))

FairSpec == Spec /\ Fairness

-----------------------------------------------------------------------------
(* The members, the locals of each thread and the history have their       *)
(* types: in particular no address a thread executes at or leaves in the   *)
(* pc register is the indeterminate value of an uninitialized variable.    *)
TypeOK ==
    /\ run_status \in RunStatus
    /\ halt_reason \in HaltReason
    /\ halted \in BOOLEAN
    /\ previous_pc \in AnyPc
    /\ pc \in Addr
    /\ run_halted \in {"null", "armed", "notified"}
    /\ semihost \in BOOLEAN
    /\ code \in CodeType
    /\ counters \in CounterType
    /\ user \in UserType
    /\ runner \in [RunThread -> RunnerType]
    /\ halt_call \in [Thread -> {"no", "reason", "flag"}]
    /\ signals \in Nat
    /\ fault \in BOOLEAN
    /\ arch_pc \in Addr
    /\ halt_due \in BOOLEAN
    /\ retired \in [Op -> Nat]

(* The threads that are reading or writing the pc register, previous_pc_,  *)
(* the decode cache and the memory, none of which a mutex protects.        *)
UserOwns == user.at \in {"stepOver", "stepLoop", "runOver"}

Owns(r) == runner[r].at \in {"loop", "status"}

(* run_status_ does the work of a mutex: whatever Halt() calls, failing    *)
(* breakpoints and late notifications do, at most one thread works on the  *)
(* machine state, and an operation that finds run_status_ kHalted, or      *)
(* kSingleStep, has no run thread working on that state.                   *)
StateOwnership ==
    /\ \A r, s \in RunThread : Owns(r) /\ Owns(s) => r = s
    /\ \A r \in RunThread : Owns(r) => ~UserOwns /\ run_status = "kRunning"

(* previous_pc_, and the locals pc it is copied from in Step and in the    *)
(* run thread, may be indeterminate; nobody uses previous_pc_ then, since  *)
(* it is read only when the reason of the halt is a breakpoint.            *)
UninitNeverUsed ==
    /\ user.at \in {"stepOver", "runOver"} => previous_pc # Uninit
    /\ user.at = "idle" /\ run_status = "kHalted" => ReadRegister # Uninit

(* The debugger's view of the pc is the address of the next instruction    *)
(* the program will retire, in whichever way the core came to halt.        *)
PcView ==
    user.at = "idle" /\ run_status = "kHalted" /\ ~fault
        => ReadRegister = arch_pc

(* Whatever the history of breakpoints, step-overs, disassembly and        *)
(* caching: fetching from an address gives the breakpoint's ebreak if one  *)
(* is enabled there and the instruction of the program otherwise.          *)
FetchCorrect ==
    \A a \in Addr : Fetched(code, a) =
        IF code.bp[a] = "enabled" THEN "ebreak" ELSE Program[a]

(* The disassembly of any address is that of the program's instruction,    *)
(* breakpoint or not, whatever breakpoints, step-overs and fetches have    *)
(* left in the decode cache.                                               *)
ShowsOriginal == \A a \in Addr : Disassembled(code, a).cache[a] = Program[a]

(* A debugger write to code (WriteMemory, which tells neither the decode   *)
(* cache nor the breakpoint manager) is the only step that can make cache, *)
(* memory and breakpoints disagree, only about the address it writes, and  *)
(* setting, clearing, enabling or disabling a breakpoint there, even by a  *)
(* call that fails half-way, makes them agree again.                       *)
CoherenceKept ==
    [][\A a \in Addr :
        /\ Coherent(code, a) =>
               Coherent(code', a) \/ \E op \in Op : code' = Store(code, a, op)
        /\ code'.bp[a] # code.bp[a] => Coherent(code', a)]_vars

(* Stepping over a breakpoint and disassembling it leave it armed. *)
BreakpointsRearmed == \A a \in Addr : code.bp[a] # "disabled"

(* A halt requested since Step or Run began stays requested. *)
NoLostHalt == halt_due => halted

(* The exported statistics count every retired instruction once, and a     *)
(* breakpoint hit as an ebreak, on each of the three paths that execute.   *)
InstructionMix ==
    /\ \A o \in Op \ {"ebreak"} : counters.opcode[o] = retired[o]
    /\ counters.opcode["ebreak"] >= retired["ebreak"]
    /\ counters.num = counters.opcode["alu"] + counters.opcode["branch"]
                       + counters.opcode["tohost"] + counters.opcode["ebreak"]

(* Instructions retire in the order of the program: the whole run control  *)
(* implements ProgramOrder.                                                *)
Busy ==
    \/ user.at \in {"stepOver", "stepLoop", "runOver", "runStatus", "runClear",
                    "runSpawn"}
    \/ \E r \in RunThread : Owns(r)

Order == INSTANCE ProgramOrder WITH pc <- arch_pc, busy <- Busy

RetiresInProgramOrder == Order!Spec

(* Reading and writing memory through the debug interface makes no halt    *)
(* request: with no Halt() call, the flag of an idle core stays as it is.  *)
DebugAccessQuiet ==
    [][user.at = "idle" /\ user'.at = "idle" /\ run_status = "kHalted"
        => halted' = halted]_vars

(* A run thread that has yet to notify the end of its run has a            *)
(* Notification to do it with, whatever Wait() does in the meantime.       *)
NotificationOutlivesRun ==
    \A r \in RunThread : runner[r].at # "none" => run_halted # "null"

(* A run thread leaves its loop once the flag is set while it is running,  *)
(* whoever set it.                                                         *)
HaltStopsRun ==
    \A r \in RunThread :
        runner[r].at = "loop" /\ halted ~> runner[r].at # "loop" \/ fault

(* Wait() returns once a halt is requested. *)
WaitReturns ==
    user.at = "waiting" /\ halted ~> user.at # "waiting" \/ fault

(* Step() and Run() return. *)
CallsReturn ==
    user.at \in {"stepOver", "stepLoop", "runOver", "runStatus", "runClear",
                 "runSpawn"} ~> user.at = "idle" \/ fault

(* The destructor asks a running core to halt, so that its wait ends. *)
DestructorReturns == user.at = "dtorWait" ~> user.at = "destroyed" \/ fault

=============================================================================
