----------------------------- MODULE MCSimMain ------------------------------
(***************************************************************************)
(* The program rv32i_sim with the simulated programs of MCRV32ITop.        *)
(***************************************************************************)
EXTENDS SimMain, MCRV32ITop

=============================================================================
