------------------------------ MODULE SimMain -------------------------------
(***************************************************************************)
(* The program rv32i_sim: main() as the thread that makes the calls of     *)
(* RV32ITop, in the order of the batch mode or as the command shell's user *)
(* wants them, and the process around it.  A control-C kills the process   *)
(* until sigaction() has run; from then on it calls sim_sigint_handler on  *)
(* any thread, which goes through the static pointer `top`.                *)
(***************************************************************************)
EXTENDS RV32ITop

CONSTANTS
    EntryPoint,      \* what LoadProgram returns
    Interactive      \* values the flag -i may have

ASSUME MainAssumption ==
    /\ EntryPoint \in Addr
    /\ Interactive \subseteq BOOLEAN

VARIABLES
    main_at,         \* the next statement of main()
    interactive,     \* mode, once determined
    top,             \* the static pointer: "null" or "rv32i_top"
    handler,         \* is sim_sigint_handler installed?
    exported         \* the counters that Export() was given: a set of at most
                     \* one (failing to write the file only logs)

main_vars == <<main_at, interactive, top, handler, exported>>
all_vars == <<vars, main_vars>>

MainInit ==
    /\ Init
    /\ main_at = "args"
    /\ interactive \in Interactive
    /\ top = "null"
    /\ handler = FALSE
    /\ exported = {}

-----------------------------------------------------------------------------
(* main(), one statement after the other.  A statement that calls RV32ITop *)
(* begins once the call before it has returned (At("idle")).               *)

Goto(p, q) ==
    /\ At("idle") /\ main_at = p
    /\ main_at' = q
    /\ UNCHANGED interactive

Quiet == UNCHANGED <<vars, top, handler, exported>>

(* More than one file: return -1.  No file: arg_vec[1] does not exist. *)
ParseCommandLine ==
    \/ Goto("args", "exited") /\ Quiet
    \/ Goto("args", "exited") /\ fault' = TRUE
       /\ UNCHANGED <<members, user, runner, halt_call, signals, history, top,
                      handler, exported>>
    \/ Goto("args", "top") /\ Quiet

(* Mutant: the pointer is left null. *)
SetTopForgotten ==
    /\ Goto("top", "sigaction")
    /\ UNCHANGED <<vars, top, handler, exported>>

SetTop ==
    /\ Goto("top", "sigaction")
    /\ top' = "rv32i_top"
    /\ UNCHANGED <<vars, handler, exported>>

SigAction ==
    /\ Goto("sigaction", "load")
    /\ handler' = TRUE
    /\ UNCHANGED <<vars, top, exported>>

(* A failed load is reported, and then load_result.value() aborts. *)
LoadProgram ==
    \/ Goto("load", "write_pc") /\ Quiet
    \/ Goto("load", "aborted") /\ Quiet

WritePc ==
    /\ Goto("write_pc", "semihost")
    /\ WriteRegister(EntryPoint)
    /\ UNCHANGED <<top, handler, exported>>

(* TRUE if the program has all four symbols, which it may or may not. *)
GetMagicAddresses == BOOLEAN

(* SetUpSemiHosting cannot fail here: nothing runs yet. *)
SetUp ==
    LET next == IF interactive THEN "shell" ELSE "run" IN
    /\ Goto("semihost", next)
    /\ \E found \in GetMagicAddresses :
           IF found THEN SetUpSemiHosting ELSE UNCHANGED vars
    /\ UNCHANGED <<top, handler, exported>>

BatchRun ==
    /\ Goto("run", "wait")
    /\ RunBegin
    /\ UNCHANGED <<top, handler, exported>>

(* Mutant: main does not wait for the run it has started. *)
BatchNoWait ==
    /\ Goto("wait", "export")
    /\ UNCHANGED <<vars, top, handler, exported>>

BatchWait ==
    /\ Goto("wait", "export")
    /\ WaitReturn \/ WaitBlock
    /\ UNCHANGED <<top, handler, exported>>

(* The shell makes any call of the debug interface, until it is told to    *)
(* quit, the core running or not.                                          *)
ShellCall ==
    /\ main_at = "shell"
    /\ Call
    /\ user'.at \notin {"dtorWait", "destroyed"}
    /\ UNCHANGED main_vars

ShellQuit == Goto("shell", "export") /\ Quiet

Export ==
    /\ Goto("export", "return")
    /\ exported' = {counters}
    /\ UNCHANGED <<vars, top, handler>>

(* main returns: the destructor of its local rv32i_top, then exit(). *)
Destroy ==
    /\ Goto("return", "exit")
    /\ DestroyAtOnce \/ DestroyBlock
    /\ UNCHANGED <<top, handler, exported>>

Exit ==
    /\ main_at = "exit"
    /\ user.at = "destroyed" /\ ~fault
    /\ main_at' = "exited"
    /\ UNCHANGED <<vars, interactive, top, handler, exported>>

-----------------------------------------------------------------------------
(* What goes on besides main's statements, as long as the process lives.   *)

Over == main_at \in {"exited", "aborted"}

Alone == ~Over /\ UNCHANGED main_vars

Continue == Alone /\ (StepStep \/ RunStep \/ WaitStep)

RunThreadStep(r) == Alone /\ RunnerStep(r)

(* sim_sigint_handler with the core still there; once it has read          *)
(* run_status_ it goes on whatever main does.                              *)
HandlerStep(t) ==
    /\ Alone
    /\ handler /\ top # "null"
    /\ HaltStep(t)

HandlerAfterFree == Alone /\ handler /\ UseAfterFree(MainThread)

(* The default action of SIGINT, and the handler's exit(-1). *)
Killed ==
    /\ ~fault /\ ~Over
    /\ signals < MaxSignals
    /\ handler => top = "null"
    /\ main_at' = "exited"
    /\ UNCHANGED <<vars, interactive, top, handler, exported>>

Ended ==
    /\ \/ Over \/ fault
       \/ MaxCount > 0 /\ counters.num = MaxCount
    /\ UNCHANGED all_vars

MainStep ==
    \/ ParseCommandLine \/ SetTop \/ SigAction \/ LoadProgram \/ WritePc
    \/ SetUp \/ BatchRun \/ BatchWait \/ Export \/ Destroy \/ Exit

MainNext ==
    \/ MainStep \/ ShellCall \/ ShellQuit \/ Continue
    \/ \E r \in RunThread : RunThreadStep(r)
    \/ \E t \in Thread : HandlerStep(t)
    \/ HandlerAfterFree \/ Killed \/ Ended

MainSpec == MainInit /\ [][MainNext]_all_vars

(* main goes from statement to statement, and the threads run, as in       *)
(* FairSpec; the shell's user need not do anything.                        *)
FairMainSpec ==
    /\ MainSpec
    /\ WF_all_vars(MainStep) /\ WF_all_vars(Continue)
    /\ \A r \in RunThread : WF_all_vars(RunThreadStep(r))
    /\ \A t \in Thread :
           WF_all_vars(HandlerStep(t) /\ halt_call[t] # "no")

-----------------------------------------------------------------------------
(* Properties. *)

(* The statistics a batch simulation writes are those of the whole run:    *)
(* every instruction the program retired is counted, and the run thread,   *)
(* which may still be about to notify, executes nothing after the export.  *)
ExportedFinal ==
    ~interactive =>
        \A e \in exported : e = counters /\ counters.opcode = retired

(* A control-C that reaches the handler does not cost the statistics: from *)
(* then on the process exits only after they are written, its exit(-1) for *)
(* a null pointer is never reached, and a failed load aborts instead.      *)
EndsAfterExport == handler /\ main_at = "exited" => exported # {}

(* A batch simulation with a halt request ends, be it the program's own    *)
(* exit through semihosting or a control-C.                                *)
BatchEnds ==
    ~interactive /\ main_at = "export" /\ halted
        ~> main_at = "exited" \/ fault

=============================================================================
