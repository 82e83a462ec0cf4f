----------------------------- MODULE MCRV32ITop -----------------------------
(***************************************************************************)
(* The instances of RV32ITop that TLC checks: a program of four            *)
(* instructions, one of each kind, in an address space that wraps around   *)
(* as the 32-bit pc does.                                                  *)
(*     0: alu     4: branch to 0     8: store to tohost     12: ebreak     *)
(***************************************************************************)
EXTENDS RV32ITop, TLC

AddrDef == {0, 4, 8, 12}
SuccDef == [a \in AddrDef |-> (a + 4) % 16]
TargetDef == [a \in AddrDef |-> 0]
ProgramDef == (0 :> "alu") @@ (4 :> "branch") @@ (8 :> "tohost")
              @@ (12 :> "ebreak")

(* A program of two instructions, for the runs with many interleavings.    *)
(*     0: store to tohost     4: branch to 4                               *)
AddrSmall == {0, 4}
SuccSmall == [a \in AddrSmall |-> (a + 4) % 8]
TargetSmall == [a \in AddrSmall |-> 4]
ProgramSmall == (0 :> "tohost") @@ (4 :> "branch")

(* Run threads are interchangeable. *)
Symmetry == Permutations(RunThread)

=============================================================================
