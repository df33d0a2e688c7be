---------------------------- MODULE InputDatabuf ----------------------------
(***************************************************************************)
(* TL_input_databuf_t: the ring the net thread fills and the gpu thread    *)
(* empties.  Each block has a semaphore, a header with the packet counter  *)
(* netmcnt, and N_SPEC_BUFF packet slots.                                  *)
(***************************************************************************)
EXTENDS Databuf

CONSTANT N_INPUT_BLOCKS       \* 3 in the code

(* The net thread waits for blocks 0 and 1 before it receives anything, so *)
(* a ring of one block is not a configuration of the program.              *)
ASSUME InputBlocksAssumption == N_INPUT_BLOCKS \in Nat /\ N_INPUT_BLOCKS >= 2

VARIABLES in_sem, in_netmcnt, in_data

input_vars == <<in_sem, in_netmcnt, in_data>>

InBlocks == 0 .. N_INPUT_BLOCKS - 1

(* TL_input_databuf_create: fresh shared memory is zeroed, and every block *)
(* is free.                                                                *)
TL_input_databuf_create ==
  /\ in_sem     = [b \in InBlocks |-> FREE]
  /\ in_netmcnt = [b \in InBlocks |-> 0]
  /\ in_data    = [b \in InBlocks |-> [s \in Slots |-> Blank]]
=============================================================================
