----------------------------- MODULE MCDecoder ------------------------------
(***************************************************************************)
(* The words TLC decodes: every major opcode of RV32I and two others, with *)
(* every funct3, and in the other fields no bit, one bit, bit 30 and       *)
(* another one, or all bits.  Every field is a permutation of word bits,   *)
(* so one bit at a time shows where each of them goes.                     *)
(***************************************************************************)
EXTENDS Decoder

Major == {3, 15, 19, 23, 35, 51, 55, 99, 103, 111, 115, 47, 7}
Rest == (7..11) \cup (15..31)
Fill == {{}, Rest} \cup {{k} : k \in Rest} \cup {{30, k} : k \in Rest}

UserWordsDef ==
    {Bits(m) \cup f \cup {k + 12 : k \in Bits(f3)} :
         m \in Major, f3 \in 0..7, f \in Fill}

(* sw x1, 0(x2) *)
RunWordsDef == {Bits(35) \cup {13, 16, 20}}

=============================================================================
