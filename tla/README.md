# A TLA+ model of the MPACT-Sim codelab simulator

The repository builds an instruction-set simulator for RV32I. This directory
holds TLA+ models of its parts, TLC configurations that check them on small
instances, and TLAPS proofs of what holds for every instance. Paths below are
relative to the repository's source tree.

## 1. The system

| part | state it keeps | operations | talks to |
|---|---|---|---|
| `RV32ITop` (`other/rv32i_top.*`), the run control behind the debug interface | `run_status_`, `halt_reason_`, `halted_`, `previous_pc_`, the `Notification` `run_halted_`, counters | `Step`, `Run` (starts a detached thread), `Wait`, `Halt`, register, memory and breakpoint calls, disassembly, semihosting, destructor | everything below; called by the command shell and by the signal handler |
| `main` and `sim_sigint_handler` (`other/rv32i_sim.cc`) | the static pointer `top`, the installed handler | load the program, set the pc, run in batch or under the shell, export the counters; control-C calls `Halt()` on whichever thread gets the signal | `RV32ITop` |
| breakpoint manager, action point manager, decode cache (library; wired together in `RV32ITop`'s constructor) | breakpoint map, saved originals, decoded instructions | set, clear, enable, disable; look up, invalidate | memory; the ebreak handler calls back `RequestHalt` |
| `RiscV32Decoder` and `RiscV32IEncoding` (`riscv_full_decoder`) | one data buffer `inst_db_`, the parsed `inst_word_` and `opcode_` | `DecodeInstruction`, `ParseInstruction`, operand getters | memory, the generated decoders |
| `riscv32i.bin_fmt`, `riscv32i.isa` | none | word to opcode; opcode to operands, size and semantic function | the encoding |
| semantic functions (`riscv_semantic_functions`) | none of their own | one per instruction | registers, data buffers, memory, `RiscVState` |
| `RiscVState`, `RV32Register`, `LoadContext` (`other`) | the map from names to registers, the pc register, handlers, reference counts | find or create a register, add an alias, load, store, `EBreak`, `Fence` | memory or memory watcher; the encoding and the run control look registers up by name |

What is hard here. Nothing but `run_status_` keeps the user's thread and the
run thread apart. `Halt()` runs inside a signal handler between any two
statements of either thread. Starting and ending a run are several writes in a
row that the other side can see half-done. A breakpoint is an `ebreak` patched
over the code that has to be removed, executed past and planted again, with the
decode cache told each time. The pc the user sees is kept in two places and
depends on why the core stopped. The run loop recognises a jump by comparing
the addresses of recycled buffers. A register is looked up, and created if the
name is new, by three parties that only agree on its name; an instruction's
operands are listed in one file and picked by index in another.

What makes each part correct:

* run control: instructions retire in program order, none skipped or repeated;
  the pc shown is that of the next one; a halt request stops the core and is not
  lost; no two threads work on the machine; calls return.
* code store: a fetch gives the `ebreak` of an armed breakpoint or the program's
  instruction; the disassembly shows the program's; breakpoints stay armed;
  memory, cache and breakpoints agree unless the debugger overwrites code.
* decoder: every word has one opcode; opcode, immediate and registers are those
  of the RISC-V manual, and words that are none of the instructions implemented
  are illegal; each caller gets its own word.
* semantic functions: what they do is what the instruction set says, x0
  included, at the edges of every range; every buffer is released once.
* decoder and semantic functions together: a word does what the manual says.
* registers: the name shown, the name used by the debugger, the decoded operand
  and the run loop's pointer mean one register.
* main program: exported statistics are final; a control-C does not cost them;
  a halted batch run ends.

## 2. Modules

| module | models | composes |
|---|---|---|
| `CodeStore` | memory, breakpoints, decode cache, as pure operators on one record | |
| `RV32ITop` | the run control with its threads, `Halt()` calls and callbacks | extends `CodeStore` |
| `ProgramOrder` | abstract: a program retiring its instructions in order | implemented by `RV32ITop` |
| `RV32ITopProofs`, `RV32ITopOrderProofs` | theorems about `RV32ITop` and `CodeStore`; the second has the pc, the order of retirement and halt requests | |
| `Encoding` | `riscv32i.bin_fmt`, `riscv32i.isa` and the operand getters, on 32-bit words | |
| `Manual` | reference: the instruction tables and formats of the RISC-V manual for RV32I, Zicsr and Zifencei, complete, and the list `Unimplemented` of what the simulator leaves out | |
| `Decoder` | `DecodeInstruction` with its two callers | extends `Encoding`, `Manual` |
| `DecoderProofs`, `DecoderManualProofs` | theorems about `Decoder` and `Encoding`; the second compares `Encoding` with `Manual` | |
| `Isa` | abstract: the RV32I machine of the manual | implemented by `Core` |
| `Hart` | the semantic functions and the loop that executes them | |
| `HartProofs` | theorems about `Hart` | |
| `Core` | the instructions of `Hart` as the decoder makes them from words, against `Isa` executing what `Manual` says of the words | extends `Hart`, `Encoding`, `Manual` |
| `RegisterFile` | the register map, its two names per register, and everyone who points into it | |
| `RegisterFileProofs` | theorems about `RegisterFile` | |
| `SimMain` | `main`, the signal handler and the process | extends `RV32ITop` |
| `SimMainProofs` | theorems about `SimMain` | |
| `MCRV32ITop`, `MCDecoder`, `MCCore`, `MCRegisterFile`, `MCSimMain` | programs, words and instructions for TLC | |

### RV32ITop

The variables `run_status`, `halt_reason`, `halted`, `previous_pc`, `run_halted`
are the members of that name. `pc` is the content of the pc register's buffer,
`semihost` whether the memory watcher is installed, `code` the `CodeStore`
record, `counters` the exported counters. `user` and `runner[r]` are the program
points and locals of the user's thread and of each thread `Run()` started;
`halt_call[t]` is the progress of a `Halt()` call on thread `t`. `Uninit` stands
for the value of `previous_pc_` and of the local `pc` before they are assigned.
`fault` records the use of a null, deleted or used-up object, after which the
process is taken to have crashed. `arch_pc`, `halt_due` and `retired` are
history: they are never read by a guard.

Calls are split where another thread can interfere:

| code | actions |
|---|---|
| `Step` | `StepBegin`, `StepOver`, `StepLoop` per instruction, `StepEnd` |
| `Run` | `RunBegin`, `StepOver`, `RunSetStatus`, `RunClearFlag`, `RunSpawn` |
| run thread | `RunLoop` per instruction, `RunLoopExit`, `RunSetHalted`, `RunNotify` |
| `Halt` | `HaltCheck`, `HaltSetReason`, `HaltSetFlag`, on any thread |
| `Wait` | `WaitReturn`, or `WaitBlock` and `WaitDone` |
| destructor | `DestroyAtOnce`, or `DestroyBlock` and `DestroyDone`; `UseAfterFree` |
| calls on a halted core | one action each |

An instruction is reduced to what the run control can tell apart: `alu` (no
effect on control), `branch` (writes the pc or not), `tohost` (a store that
semihosting watches) and `ebreak`. An instruction with its callbacks is one
step: they run on the same thread, and nobody but a `Halt()` call may interfere
there. `Halt()` calls that do not find the core running change nothing and are
not counted. Members are read and written in program order, one at a time.
They are not atomics, but every iteration of the loops goes through virtual
calls the compiler cannot see through, so they are reloaded; reordering by weakly
ordered hardware is not modelled.

### Decoder

A word is the set of its one-bits, so fields and overlays are sequences of bit
positions and nothing is scaled down. `inst_db`, `inst_word` and `opcode` are the
shared members; `call[t]` is where the decode of each caller is. `GetDisassembly`
checks `run_status_`, `GetInstruction` does not and may come while the core runs.
`raced` is history: the callers whose last decode overlapped another one of which
`GetInstruction` was a party. The decode cache is left out: every call is a miss.

`Manual` names the instruction of every word (`Mnemonic`), then the simulator's
opcode for it (`OpcodeName`: `csrrw` and `csrrs` have variants) and, taking away
`Unimplemented`, what a decoder without these should make of it (`Specified`).

### Hart

The state is the registers, memory, the reference counts and contents of data
buffers, which buffer the pc register holds (`pc_buffer`), and the locals `pc_db`
and `next_pc` of the loop. Buffers are chosen freely among those with count zero,
so recycling is as hostile as it can be. A load and its child are one step, since
the code gives the buffer latency 0. The width is a parameter: a byte has
`ByteBits` bits and `0x1f` becomes `WordBits - 1`. `last` is history: it makes the
refinement compare each step with the abstract step of the *same* instruction.
A load releases its `LoadContext`, whose `value_db` is released by `OnRefCountIsZero`,
cleared, and looked at again by the destructor. The CSR functions and the illegal
instruction leave all of it alone but the pc;
`WriteMemory` is the debugger's write of data.

### Core

`DecodeInstruction(w)` follows a word through `riscv32i.bin_fmt` (opcode),
`riscv32i.isa` (semantic function, operand lists), the operand getters, and the
indices at which the semantic function looks for its operands. `Meaning(w)` is
what the manual says of the word, straight from its fields. `Annotated(w)` is the
decoded instruction with its meaning attached, and `ExecutesWord` says that the
hart executing the one is the machine of `Isa` executing the other.

### RegisterFile

`file.registers` maps names to register objects, `file.value` holds their values,
`operands[inst]` is what the decode cache keeps of a decoded instruction, `pc_` the
run control's pointer. `FindPc` and `AddXRegister` are the constructor,
`GetInstruction`, `Evict` and `Execute` decode, forget and run an instruction,
`SavePc` is the end of the loops, `WriteRegister` the debugger. `ReadRegister` is the
value that function finds; its check of `run_status_` and what it says of the pc at
a breakpoint are in `RV32ITop`. `arch` is history:
the registers by number, as the instruction set has them. The names of the
calling convention (`AbiName`) are given group by group, as its rules have them, so
the two tables of the code are checked against a third source. The buffers behind the registers
are the subject of `Hart` and are left out here.

### SimMain

`main_at` is the next statement of `main`. A statement that calls the core is the
action of `RV32ITop` for that call; the shell makes any call. A signal before
`sigaction` kills the process; after it, the handler may run on any thread, also
while `main` returns. A missing argument is the out-of-range access it is in the
code (`fault`), a failed load the abort of `load_result.value()`.

## 3. Runs

| run | checks | size |
|---|---|---|
| `session` | `PcView`, `FetchCorrect`, `ShowsOriginal`, `BreakpointsRearmed`, `NoLostHalt`, `RetiresInProgramOrder`, and under fairness `CallsReturn`, `WaitReturns`; breakpoints on a branch and on an `ebreak`, no `Halt()` | 500,000 states |
| `interrupts` | `PcView`, `RetiresInProgramOrder`, and under fairness `HaltStopsRun`; two `Halt()` calls, no breakpoints | 870,000 |
| `races` | `TypeOK`, `StateOwnership`, `UninitNeverUsed`, `CoherenceKept` with everything on | 4,100,000 |
| `main_program` | `InstructionMix`, `ExportedFinal`, `EndsAfterExport`, and under fairness `BatchEnds`; both modes, a breakpoint, a control-C | 480,000 |
| `decoder` | `Unambiguous`, `OwnWordDecoded`, `DecodedAsSpecified` on 4,680 words | 880,000 |
| `core` | `ExecutesWord`, `BuffersBalanced`, `JumpsNoticed` on 85 words | 270,000 |
| `registers` | `TypeOK`, `SameRegister`, `RegisterView` | 37,000 |
| `lost_interrupt`, `skipped_instruction`, `deleted_notification`, `debug_write`, `destructor` | one property each, which the code violates | |

Bounds and why they are enough.

* Two run threads: a thread can outlive its run only between `RunSetHalted` and
  `RunNotify`, and one late thread next to the current one shows every
  interference; `StateOwnership` is proved for any number.
* The program of four instructions has one of each kind and wraps around; the
  program of two (a semihosting store and a branch to itself) is used where
  interleavings are many. `MaxStep` 2 covers a step count that ends in the
  step-over and one that goes on; two `Halt()` calls cover one overtaking another.
* `MaxCount` caps the instructions counted in `main_program` (four: enough for a
  breakpoint hit, its step-over and what follows); elsewhere it is 0 and the
  counters are not kept. `MaxSignals` caps `Halt()` calls.
* Decoder words: every RV32I major opcode and two others, every `funct3`, and in
  the rest no bit, one bit, bit 30 with another, or all bits. Extraction moves
  bits independently, so one bit at a time shows where each goes. The run thread
  decodes one word: what matters for the race is that it is another one.
* Core: 16-bit registers of four 4-bit bytes, so that all immediates but those of
  `lui`, `auipc` and `jal` keep every bit and their sign (`decoder` checks those three
  at full width); one word or more for every opcode, and `slt`, `ecall` and
  `csrrw` with a destination for those left out, with x0 in each role, forward
  and backward jumps, shifts by 1 and 15; register values around 0, the sign change
  and the maximum; five bytes of memory (unaligned words), the pc at 65532 so that
  it wraps, two instructions in a row, debugger writes to x0, the pc and a byte of
  data. Two buffers force every allocation to reuse the one released last.
* RegisterFile: all 32 registers and both names; instructions that use x0, x1
  and x31 in each role; 2-bit registers and 3-bit debugger values, enough for
  truncation and for telling two writes apart.
* SimMain: one run thread (in batch mode `main` calls `Run` once), the program of two
  instructions, one control-C.

Fairness (`FairSpec`): a call that has begun continues, each run thread is
scheduled, and a `Halt()` call that has begun completes. That is what an operating
system's scheduler gives the threads. Nobody is assumed to make any call, and
no branch outcome is assumed. `FairMainSpec` adds that `main` goes from statement
to statement; the shell's user still need not do anything, and no signal need
come.

Deadlock is checked in every run. `Terminated` is the stuttering of a destroyed
or crashed process, and of a run whose bound on counted instructions is reached.

## 4. What the code gets wrong

Five runs end in a counterexample, each against a line of the repository quoted
in `PROJECT.json`:

* `lost_interrupt`: `Run()` sets `run_status_` before it clears `halted_`. A
  control-C between the two is erased.
* `skipped_instruction`: `Halt()` replaces the reason of a breakpoint hit that is
  just happening. The pc then reads one instruction too far and the next `Step`
  or `Run` skips the instruction under the breakpoint.
* `deleted_notification`: `Wait()` between `run_status_ = kHalted` and `Notify()`
  deletes the notification the thread is about to use; batch mode is enough to
  reach it.
* `debug_write`: `WriteMemory` "bypassing any watch points/semihosting" goes
  through the memory watcher.
* `destructor`: it does not request the halt its comment says it does.

Related behaviours that the model shows and that have no run of their own: a
semihosting exit executed by `Run()`'s step-over is lost for the same reason as
the control-C (with `Breakable` containing the semihosting store, `NoLostHalt`
fails in `session`); a late `Notify()` can end the `Wait()` of the next run; a
failing `EnableBreakpoint` leaves `kSingleStep` behind, after which only `Run()`
is accepted. The handler's static pointer is not reset when `main` returns, so a
control-C during exit calls `Halt()` on a destroyed core (`HandlerAfterFree`). The debugger can give x0 a value and read it back, though no
instruction sees it (`RegisterView` therefore leaves x0 out of what the debugger
reads). The register `CSR` exists for the debugger only once a CSR instruction has
been decoded. A destination x0 is a `DevNullOperand` without the name `zero` that
the source operand gets. The comments of `rv32i_instructions.h` give the operands
of branches as numbers 2 and 3; code and `riscv32i.isa` use 1 and 2.
`GetInstruction` on a running core races with the run thread in the decoder, and either
may get the other's instruction; `OwnWordDecoded` says that decodes which do not overlap
such a call are right, also after one. A wrong instruction that the race leaves in the
decode cache is beyond `Decoder`, which has no cache. `WriteMemory` over code is not seen by the decode cache: `FetchCorrect` fails with a non-empty
`WritableCode`, and `CoherenceKept` says how far the damage goes.

Against the RISC-V manual the simulator deviates in two ways. No line of the
repository claims otherwise (`riscv32i.bin_fmt` speaks of "the RiscV instructions we
care about"), so they are part of the reference and not runs of their own:

* Instructions of RV32I, Zicsr and Zifencei that `riscv32i.bin_fmt` does not have:
  `slt`, `slti`, `sltiu`, `srl`, `sra`, `ecall`, `fence.i`, `csrrw` with a destination
  other than x0, `csrrc`, `csrrwi`, `csrrsi`, `csrrci`. Their words are decoded as
  the illegal instruction, which reports itself and has no other effect.
  `DecodedAsSpecified` and `ExecutesWord` say just this, for these words and no others.
* `jalr` keeps bit 0 of its target, which the manual clears. `ExecutesWord` compares with
  the machine `Isa` that keeps it (`JalrClearsBit0 = FALSE`); with `TRUE` it fails.

The CSR instructions that exist have no effect either, their functions being empty.

This is why some passing runs restrict the environment: `session` has no `Halt()`
calls and no breakpoint on the semihosting store, `interrupts` has no
breakpoints. `races`, `decoder` and `core` have no such restriction.

## 5. Proofs

Every safety property that a passing run checks is also a theorem, except
`ExecutesWord`. A hypothesis on the constants of a theorem excludes a case in which
the code does not keep the property; the defects among them are those of section 4,
whose runs show the property failing without the hypothesis.

| module | theorem | states | hypothesis |
|---|---|---|---|
| `RV32ITopProofs` | `TypeCorrect` | `[]TypeOK` | |
| | `OwnershipSafe` | `[]StateOwnership` | |
| | `UninitSafe` | `[]UninitNeverUsed` | |
| | `FetchSafe` | `[]FetchCorrect` | the user writes no code |
| | `DisassemblySafe` | `[]ShowsOriginal` | the user writes no code |
| | `RearmSafe` | `[]BreakpointsRearmed` | enabling does not fail |
| | `CoherenceSafe` | `CoherenceKept` | |
| | `MixSafe` | `[]InstructionMix` | |
| `RV32ITopOrderProofs` | `PcViewSafe` | `[]PcView` | `PcTrusted` |
| | `OrderRefined` | `RetiresInProgramOrder` | `PcTrusted`, the user writes no code |
| | `HaltRequestKept` | `[]NoLostHalt` | no `Halt()`, no breakpoint on a semihosting store, the user writes no code |
| `SimMainProofs` | `MainMixSafe` | `[]InstructionMix` | |
| | `EndsAfterExportSafe` | `[]EndsAfterExport` | |
| | `ExportedFinalSafe` | `[]ExportedFinal` | |
| `DecoderProofs` | `OwnWordSafe` | `[]OwnWordDecoded` | |
| | `UnambiguousSafe` | `[]Unambiguous` | |
| `DecoderManualProofs` | `DecodedSafe` | `[]DecodedAsSpecified` | |
| `RegisterFileProofs` | `TypeSafe`, `SameRegisterSafe`, `RegisterViewSafe` | `[]TypeOK`, `[]SameRegister`, `[]RegisterView` | |
| `HartProofs` | `BuffersSafe`, `JumpsSafe` | `[]BuffersBalanced`, `JumpsNoticed` | |

Apart from that the constants are free: any program (`Addr`, `Program`, `Target`,
`Succ`), set of run threads, number of `Halt()` calls, memory contents, set of
instructions, width and number of buffers, from the named assumptions of the
modules (the constants have their types, `Uninit` is no address).

**Run control.** The first seven theorems rest on one inductive invariant,
`IndInv`. Types alone are not inductive, because `StepOver` uses `previous_pc_`
as an address: it must be known to be assigned, which holds because the halt
reason is a breakpoint only after an instruction has executed (`BreakpointPc`),
and no other reason leads there (`SteppedOver`). `StepLoop`'s count needs that a
step-over begins with a positive one (`CallInv`). `StateOwnership` is not inductive
because of `Run()`, which checks `run_status_` several steps before it starts the
thread: `OneOwner` says that no run thread works during any of them. Putting back
an instruction needs that there is one to put back (`SavedKept`). `FetchSafe`,
`DisassemblySafe` and `RearmSafe` add invariants of the code record to it, proved
operation by operation in lemmas. `CoherenceSafe` rests on a relation between two
code records (`Kept`) that every operation of the managers satisfies and that is
transitive, so that a step made of several operations satisfies it too (`CodeSteps`
says which operations a step can be made of). `InstructionMix` is inductive
relative to `IndInv`.

**The pc and the order of retirement.** `PcView` speaks of a halted core only and
says nothing while a thread is in its loop. `View` adds where the true pc is at
each moment: in the register, in `previous_pc_` after a breakpoint hit, or in the
local `next_pc` of the thread that executes. `HitInv` says that a loop
that has hit a breakpoint executes nothing more, and that the address it hit is in
the loop's local `pc` until `previous_pc_` has it, which is where the step-over
looks for it. `PcTrusted` is a disjunction of
what keeps a reason from being replaced: no breakpoints, or no `Halt()` call, no
debugger write to the semihosting address and no failing enable; the other cases are the
defect of `skipped_instruction` and its relatives. Under `View` each action is
matched with a step of `ProgramOrder` or a stutter (`OrderRefined`). `HaltKept`
adds to `NoLostHalt` that no request is outstanding between the start of `Run()`
and the clearing of the flag.

**Main program.** `MainInd` shows that `IndInv` survives the statements of `main`
and the handler. `ExportedFinal` needs `BatchInv`: batch mode sets no breakpoint
and starts one thread, so once `Wait()` has returned nobody executes, although the
thread may still be about to notify. `EndInv` relates the handler's static pointer to
the statement `main` has reached.

**Decoder.** `OwnWordDecoded` is about the last step of a decode; `DecoderInv` says
what `inst_db_`, `inst_word_` and `opcode_` hold before it for a call that is not in
`raced` (`Progress`), and that two callers are in the decoder together only if one of
them is `GetInstruction`, and then both are in `raced` (`Separated`). The rest holds for each of the
2^32 words and is not an induction: `FieldNumber` turns a constraint on a field
into the number the field holds, so that each entry of `riscv32i.bin_fmt` becomes
an equation between numbers. From these follow that no word matches two entries
(`UniqueMatch`) and that the entry it matches is the manual's: `MnemonicBy` and
`SpecifiedBy` compute the full tables of the manual by major opcode, less `Unimplemented`,
and `SameOpcode` compares. For the
immediates, `SPositions`, `UPositions`, `BPositions` and `JPositions` compute the
overlays and say which bit of the word is bit `j` of the operand, and `SameImmediate`
compares with the manual bit by bit, sign extension included. `SameOperands` does
the registers for each group of opcodes; register 0 is no register on both sides.

**Registers.** `RegInv` says which object each name means at each point of the
constructor (the pc is the first, `x`n the one n + 1 places after it, `CSR` whatever comes
after those), and that every cached operand is the one decoding would make again:
a lookup after the constructor creates nothing but `CSR`.

**Hart.** `BufferInv` adds the shape of `refs` and that the pc register holds a
buffer; the step that matters is `SubmitBalanced`: the buffer a jump takes cannot
be the register's, since that one is in use. `ContextReleasesOnce` is the double
release of a `LoadContext`, of which the second finds a null pointer. `LoopInv` adds that `pc_db` is the
register's buffer whenever the loop is entered or goes round. From both, the
buffer of a jump differs from `pc_db`, which is what the loop's comparison needs.

**Only model-checked.** The liveness properties `CallsReturn`, `WaitReturns`,
`HaltStopsRun` and `BatchEnds`, since the prover has no rules for fairness; and
`ExecutesWord`, since the functions that put bits and bytes together (`BitByBit`,
`LoadBytes`, `Low32`) are recursive and what they compute for every width needs an
induction over data. `core` checks it on 16-bit registers.

## 6. Not modelled

* Weak memory ordering and torn accesses; recompilation that would hoist the flag.
* Eviction in the decode cache of `CodeStore` (`RegisterFile` has it); the library's
  error returns other than a failing `EnableBreakpoint` (and a `DisableBreakpoint`
  of a cleared breakpoint); the reference counts of decoded instructions.
* The ELF loader beyond success and failure, the layout of the exported counters,
  disassembly text beyond the names of registers.
* `ECall`, `WFI`, `FenceI`, vector memory accesses and atomics, which nothing in
  the repository calls; the bodies of the CSR functions, which are empty.
* How long a caller keeps what `GetRegisterDataBuffer` returned.
* Memory accesses across the end of the address space.
* The exercise skeletons and the build files.

## 7. Plan

Done: run control, code store, decoder, semantic functions, decoder and semantic
functions composed, registers, main program; the theorems above. In this order,
next:

1. The part of `ExecutesWord` that needs no induction: that for every word the
   operands which the semantic function reads at its indices are the manual's
   (from `SameOpcode`, `SameImmediate` and `SameOperands`).
2. From it, the refinement for the instructions that move no bits: jumps, branches,
   additions and comparisons.
3. `Hart` and `RV32ITop` composed: `branch` of the run control as the abstraction
   of the jump instructions.
