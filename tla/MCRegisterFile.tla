--------------------------- MODULE MCRegisterFile ---------------------------
EXTENDS RegisterFile

(* x0, x1 and x31 in every role. *)
MCInstr ==
    {[does |-> "alu",  rd |-> 1,  rs1 |-> 31],
     [does |-> "alu",  rd |-> 0,  rs1 |-> 1],
     [does |-> "alu",  rd |-> 31, rs1 |-> 0],
     [does |-> "jump", rd |-> 1,  rs1 |-> 1],
     [does |-> "csr",  rd |-> 31, rs1 |-> 1]}

MCDebugName == {"x1", "t6", "zero", "pc", "CSR"}

=============================================================================
