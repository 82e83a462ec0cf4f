---------------------------- MODULE ProgramOrder ----------------------------
(***************************************************************************)
(* What a debugger's user is promised about a simulated program: its       *)
(* instructions retire one after the other along the program's flow of     *)
(* control, only while the simulator has been told to step or to run, and  *)
(* the program counter moves to anywhere else only when the user writes it *)
(* while the simulator is halted.  Breakpoints, threads, signals, the      *)
(* decode cache and semihosting are invisible at this level.               *)
(***************************************************************************)
CONSTANTS
    Addr,      \* instruction addresses
    Flow,      \* [Addr -> SUBSET Addr]: where control may go from an address
    ResetPc    \* the pc of a newly constructed core

VARIABLES pc, busy

vars == <<pc, busy>>

Init == pc = ResetPc /\ busy = FALSE

(* The user starts a step or a run. *)
Begin == ~busy /\ busy' = TRUE /\ UNCHANGED pc

(* One instruction of the program completes. *)
Retire == busy /\ pc' \in Flow[pc] /\ UNCHANGED busy

(* The step or the run is over. *)
End == busy /\ busy' = FALSE /\ UNCHANGED pc

(* The user moves the program counter. *)
SetPc == ~busy /\ pc' \in Addr /\ UNCHANGED busy

Next == Begin \/ Retire \/ End \/ SetPc

Spec == Init /\ [][Next]_vars

=============================================================================
