---------------------------- MODULE OutputDatabuf ----------------------------
(***************************************************************************)
(* TL_output_databuf_t: the ring the gpu thread fills and the output       *)
(* thread empties.                                                         *)
(***************************************************************************)
EXTENDS Databuf

CONSTANT N_OUTPUT_BLOCKS      \* 3 in the code

ASSUME OutputBlocksAssumption == N_OUTPUT_BLOCKS \in Nat \ {0}

VARIABLES out_sem, out_netmcnt, out_data

output_vars == <<out_sem, out_netmcnt, out_data>>

OutBlocks == 0 .. N_OUTPUT_BLOCKS - 1

(* TL_output_databuf_create: fresh shared memory is zeroed, and every      *)
(* block is free.                                                          *)
TL_output_databuf_create ==
  /\ out_sem     = [b \in OutBlocks |-> FREE]
  /\ out_netmcnt = [b \in OutBlocks |-> 0]
  /\ out_data    = [b \in OutBlocks |-> [s \in Slots |-> Blank]]
=============================================================================
