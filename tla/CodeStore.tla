----------------------------- MODULE CodeStore -----------------------------
(***************************************************************************)
(* The instruction side of the simulated core as RV32ITop sees it: the     *)
(* flat memory holding the program, the breakpoint manager on top of the   *)
(* action point manager (which plants `ebreak` over an instruction and     *)
(* keeps the original), and the decode cache.  The three managers are      *)
(* library classes; they are modelled from the calls RV32ITop makes and    *)
(* from how it wires them together in its constructor.  An instruction is  *)
(* abstracted to what the run control can tell apart.                      *)
(***************************************************************************)
EXTENDS Naturals

CONSTANTS
    Addr,      \* instruction addresses
    Program,   \* the loaded program: the kind of instruction at each address
    Target,    \* where the branch at an address goes when it is taken
    Succ       \* address + size of the instruction, in 32-bit arithmetic

(* "alu": no effect on control; "branch": writes the pc when taken;        *)
(* "tohost": a store to the semihosting address; "ebreak": RV32IEbreak.    *)
Op == {"alu", "branch", "tohost", "ebreak"}

None == "none"

ASSUME CodeAssumption ==
    /\ Program \in [Addr -> Op]
    /\ Target \in [Addr -> Addr]
    /\ Succ \in [Addr -> Addr]

(* memory: what memory_ holds; bp: state of the breakpoint map;            *)
(* saved: the original instruction kept by the action point manager;       *)
(* cache: the decode cache (None = no entry).                              *)
CodeType ==
    [memory : [Addr -> Op],
     bp     : [Addr -> {None, "enabled", "disabled"}],
     saved  : [Addr -> Op \cup {None}],
     cache  : [Addr -> Op \cup {None}]]

LoadedCode ==
    [memory |-> Program,
     bp     |-> [a \in Addr |-> None],
     saved  |-> [a \in Addr |-> None],
     cache  |-> [a \in Addr |-> None]]

-----------------------------------------------------------------------------
(* A store to memory_ that nobody tells the decode cache about. *)
Store(c, a, op) == [c EXCEPT !.memory[a] = op]

(* Mutant: the decode cache is not told. *)
StalePatch(c, a, op) == Store(c, a, op)

(* A store of the action point manager: the constructor hands it           *)
(* DecodeCache::Invalidate as the callback to run after each such store.   *)
Patch(c, a, op) == [c EXCEPT !.memory[a] = op, !.cache[a] = None]

(* What GetDecodedInstruction(a) returns, and the cache it leaves behind. *)
Fetched(c, a) == IF c.cache[a] = None THEN c.memory[a] ELSE c.cache[a]

GetDecodedInstruction(c, a) == [c EXCEPT !.cache[a] = Fetched(c, a)]

HasBreakpoint(c, a) == c.bp[a] # None

SetBreakpoint(c, a) ==
    IF HasBreakpoint(c, a) THEN c
    ELSE [Patch(c, a, "ebreak") EXCEPT !.bp[a] = "enabled",
                                       !.saved[a] = c.memory[a]]

DisableBreakpoint(c, a) ==
    IF HasBreakpoint(c, a)
    THEN [Patch(c, a, c.saved[a]) EXCEPT !.bp[a] = "disabled"]
    ELSE c

(* Mutant: the breakpoint is not armed again. *)
EnableForgotten(c, a) == c

EnableBreakpoint(c, a) ==
    IF HasBreakpoint(c, a)
    THEN [Patch(c, a, "ebreak") EXCEPT !.bp[a] = "enabled"]
    ELSE c

ClearBreakpoint(c, a) ==
    IF HasBreakpoint(c, a)
    THEN [Patch(c, a, c.saved[a]) EXCEPT !.bp[a] = None, !.saved[a] = None]
    ELSE c

ClearAllBreakpoints(c) ==
    [memory |-> [a \in Addr |->
                    IF HasBreakpoint(c, a) THEN c.saved[a] ELSE c.memory[a]],
     bp     |-> [a \in Addr |-> None],
     saved  |-> [a \in Addr |-> None],
     cache  |-> [a \in Addr |->
                    IF HasBreakpoint(c, a) THEN None ELSE c.cache[a]]]

(* Mutant: the breakpoint is shown instead of the instruction under it. *)
DisassembledAsIs(c, a) == GetDecodedInstruction(c, a)

(* The code as GetDisassembly has it when it takes the instruction to show *)
(* from the cache: an enabled breakpoint (IsBreakpoint) is disabled first. *)
Disassembled(c, a) ==
    GetDecodedInstruction(IF c.bp[a] = "enabled" THEN DisableBreakpoint(c, a)
                          ELSE c, a)

-----------------------------------------------------------------------------
(* The three managers agree on address a: a cached instruction is the one  *)
(* in memory, and an enabled breakpoint is planted there.                  *)
Coherent(c, a) ==
    /\ c.cache[a] \in {None, c.memory[a]}
    /\ c.bp[a] = "enabled" => c.memory[a] = "ebreak"

(* Where control may go from address a in the loaded program. *)
Flow == [a \in Addr |->
            {Succ[a]} \cup IF Program[a] = "branch" THEN {Target[a]} ELSE {}]

=============================================================================
