------------------------------ MODULE Decoder -------------------------------
(***************************************************************************)
(* RiscV32Decoder and its two callers.  One decoder object, with one data  *)
(* buffer and one parsed word, serves the debugger thread and the thread   *)
(* of Run(); nothing but run_status_ keeps the two apart, and              *)
(* GetInstruction does not look at it.  A decode is three steps: load the  *)
(* word, parse it, build the instruction object from the parsed word.  The *)
(* decode cache is left out: a call here is a miss.                        *)
(***************************************************************************)
EXTENDS Encoding, Manual

CONSTANTS
    UserWords,       \* words memory may hold where the user looks
    RunWords         \* words memory may hold where the run thread executes

ASSUME DecoderAssumption ==
    /\ UserWords \subseteq Word
    /\ RunWords \subseteq Word

VARIABLES
    memory,          \* the word at the address each caller decodes
    run_status,      \* run_status_ of RV32ITop
    inst_db,         \* contents of inst_db_
    inst_word,       \* inst_word_ of the encoding
    opcode,          \* opcode_ of the encoding
    call,            \* the DecodeInstruction call of each thread
    raced            \* history: whose last decode overlapped another one
                     \* because of GetInstruction

vars == <<memory, run_status, inst_db, inst_word, opcode, call, raced>>

Caller == {"user", "run"}

NoCall == [at |-> "none"]

Init ==
    /\ memory \in [user : UserWords, run : RunWords]
    /\ run_status = "kHalted"
    /\ inst_db = {}
    /\ inst_word = {}
    /\ opcode = "none"
    /\ call = [t \in Caller |-> NoCall]
    /\ raced = {}

-----------------------------------------------------------------------------

InDecoder(t) == call[t].at \in {"load", "parse", "decode"}

(* Does a call that now begins share the decoder with another one, where   *)
(* one of the two comes from GetInstruction?                               *)
Overlaps(t, by) ==
    \E s \in Caller \ {t} :
        InDecoder(s) /\ "GetInstruction" \in {by, call[s].by}

Begin(t, by) ==
    /\ call[t].at = "none"
    /\ call' = [call EXCEPT ![t] = [at |-> "load", by |-> by]]
    /\ raced' = IF Overlaps(t, by) THEN Caller ELSE raced \ {t}

(* Mutant: the core may be in any state. *)
AnyStatus == TRUE

CoreHalted == run_status = "kHalted"

GetDisassembly ==
    /\ CoreHalted
    /\ Begin("user", "GetDisassembly")
    /\ UNCHANGED <<memory, run_status, inst_db, inst_word, opcode>>

(* GetInstruction makes no check: the core may be running. *)
GetInstruction ==
    /\ Begin("user", "GetInstruction")
    /\ UNCHANGED <<memory, run_status, inst_db, inst_word, opcode>>

Run ==
    /\ run_status = "kHalted"
    /\ call["user"].at \in {"none", "done"}
    /\ run_status' = "kRunning"
    /\ UNCHANGED <<memory, inst_db, inst_word, opcode, call, raced>>

RunFetch ==
    /\ run_status = "kRunning"
    /\ Begin("run", "Run")
    /\ UNCHANGED <<memory, run_status, inst_db, inst_word, opcode>>

RunHalted ==
    /\ run_status = "kRunning"
    /\ call["run"].at = "none"
    /\ run_status' = "kHalted"
    /\ UNCHANGED <<memory, inst_db, inst_word, opcode, call, raced>>

-----------------------------------------------------------------------------
(* DecodeInstruction. *)

Load(t) ==
    /\ call[t].at = "load"
    /\ inst_db' = memory[t]
    /\ call' = [call EXCEPT ![t].at = "parse"]
    /\ UNCHANGED <<memory, run_status, inst_word, opcode, raced>>

ParseInstruction(t) ==
    /\ call[t].at = "parse"
    /\ inst_word' = inst_db
    /\ opcode' = DecodeRiscVInst32(inst_db)
    /\ call' = [call EXCEPT ![t].at = "decode"]
    /\ UNCHANGED <<memory, run_status, inst_db, raced>>

BuildInstruction(t) ==
    /\ call[t].at = "decode"
    /\ call' = [call EXCEPT ![t] =
                   [at |-> "done", inst |-> Decode(opcode, inst_word)]]
    /\ UNCHANGED <<memory, run_status, inst_db, inst_word, opcode, raced>>

(* The caller takes the instruction and goes on. *)
Return(t) ==
    /\ call[t].at = "done"
    /\ call' = [call EXCEPT ![t] = NoCall]
    /\ UNCHANGED <<memory, run_status, inst_db, inst_word, opcode, raced>>

Next ==
    \/ GetDisassembly \/ GetInstruction
    \/ Run \/ RunFetch \/ RunHalted
    \/ \E t \in Caller : Load(t) \/ ParseInstruction(t) \/ BuildInstruction(t)
                         \/ Return(t)

Spec == Init /\ [][Next]_vars

-----------------------------------------------------------------------------
(* The immediates among the sources of an instruction object, and the      *)
(* numbers of the registers it reads and writes.                           *)
Immediates(inst) ==
    {inst.sources[i][2] : i \in {k \in DOMAIN inst.sources :
                                     inst.sources[k][1] = "imm"}}
RegistersOf(operands) ==
    {operands[i][2] : i \in {k \in DOMAIN operands : operands[k][1] = "x"}}

-----------------------------------------------------------------------------
(* Properties. *)

(* No word satisfies the constraints of two entries of RiscVInst32, so the *)
(* opcode does not depend on the order in which the decoder generated from *)
(* riscv32i.bin_fmt tries them.                                            *)
Unambiguous ==
    \A t \in Caller :
        call[t].at = "load" => Cardinality(Matching(memory[t])) <= 1

(* The instruction object has the opcode, the immediate, and the source    *)
(* and destination registers that the RISC-V manual gives the word it was  *)
(* decoded for; x0 is neither read nor written as a register.  A word that *)
(* is no instruction to the manual, or one of the twelve in Unimplemented, *)
(* which riscv32i.bin_fmt does not have, becomes the illegal instruction.  *)
(* Decodes that raced with GetInstruction on a running core are excepted.  *)
DecodedAsSpecified ==
    \A t \in Caller \ raced :
        call[t].at = "done" =>
            LET inst == call[t].inst
                w    == memory[t]
                type == ImmediateType(inst.opcode)
            IN
            /\ inst.opcode = Specified(w)
            /\ Immediates(inst) =
                   IF type = "no" THEN {} ELSE {Immediate(type, w)}
            /\ RegistersOf(inst.sources) = ReadRegisters(w)
            /\ RegistersOf(inst.destinations) = WrittenRegisters(w)

(* Each caller of DecodeInstruction gets the instruction of the address it *)
(* asked about, although inst_db_, inst_word_ and opcode_ are shared.  The *)
(* one exception is a decode that overlaps one which GetInstruction makes  *)
(* on a running core, and that one itself: no other decode suffers, also   *)
(* not the next one, whatever the race left in the shared members.         *)
OwnWordDecoded ==
    \A t \in Caller \ raced :
        call[t].at = "done" =>
            call[t].inst = Decode(DecodeRiscVInst32(memory[t]), memory[t])

=============================================================================
