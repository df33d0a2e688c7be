----------------------------- MODULE GpuThread -----------------------------
(***************************************************************************)
(* TL_gpu_thread.c: the thread between the two rings.  It copies a filled  *)
(* input block into a local buffer, splitting the beams, frees the input   *)
(* block, waits for a free output block and copies the buffer there.       *)
(* cov_pc names the place where the thread can be blocked or overtaken by  *)
(* the others.  The variable names are those of its status keys COVT-IN,   *)
(* COVT-OUT and COV-STAT.                                                  *)
(***************************************************************************)
EXTENDS InputDatabuf, OutputDatabuf, Globals

VARIABLES cov_pc,
          cov_in_idx,         \* binfo.in_block_idx
          cov_out_idx,        \* binfo.out_block_idx
          cov_data,           \* the local BeamGroup_data_t data
          cov_netmcnt         \* the local netmcnt

cov_private == <<cov_pc, cov_in_idx, cov_out_idx, cov_data, cov_netmcnt>>

GpuInit ==
  /\ cov_pc = "wait_in"
  /\ cov_in_idx = 0
  /\ cov_out_idx = 0
  /\ cov_data = [s \in Slots |-> Garbage]
  /\ cov_netmcnt = 0

-----------------------------------------------------------------------------
(* polarization_process copies the block only if the packet the net thread *)
(* received last says data_type 0, whatever packets the block holds.       *)
(* Otherwise it returns a structure it never wrote; the build leaves the   *)
(* caller's buffer as it was: what the previous block left there, or, the  *)
(* first time, an uninitialised piece of stack.                            *)
polarization_process(block) == IF data_type = 0 THEN block ELSE cov_data

(* Mutated forms: no wait for a filled input block, or for a free output   *)
(* block; a wait for the other ring's condition.                           *)
GpuMayTakeAnyway  == TRUE
GpuMayWriteAnyway == TRUE
GpuMayWriteFilled == wait_filled(out_sem, cov_out_idx)

GpuMayTake  == wait_filled(in_sem, cov_in_idx)
GpuMayWrite == wait_free(out_sem, cov_out_idx)

GpuProcess ==
  /\ cov_pc = "wait_in"
  /\ GpuMayTake
  /\ cov_data' = polarization_process(in_data[cov_in_idx])
  /\ cov_pc' = "free_in"
  /\ UNCHANGED <<input_vars, output_vars, global_vars, cov_in_idx, cov_out_idx,
                 cov_netmcnt>>

(* Mutated form: the block's header is reset as well.                      *)
GpuFreeInputReset ==
  /\ cov_pc = "free_in"
  /\ cov_netmcnt' = in_netmcnt[cov_in_idx]
  /\ in_netmcnt' = [in_netmcnt EXCEPT ![cov_in_idx] = 0]
  /\ in_sem' = set_free(in_sem, cov_in_idx)
  /\ cov_in_idx' = Following(cov_in_idx, N_INPUT_BLOCKS)
  /\ cov_pc' = "wait_out"
  /\ UNCHANGED <<in_data, output_vars, global_vars, cov_out_idx, cov_data>>

(* The input block is free for the net thread again before the gpu thread  *)
(* has a place for its data.                                               *)
GpuFreeInput ==
  /\ cov_pc = "free_in"
  /\ cov_netmcnt' = in_netmcnt[cov_in_idx]
  /\ in_sem' = set_free(in_sem, cov_in_idx)
  /\ cov_in_idx' = Following(cov_in_idx, N_INPUT_BLOCKS)
  /\ cov_pc' = "wait_out"
  /\ UNCHANGED <<in_netmcnt, in_data, output_vars, global_vars, cov_out_idx,
                 cov_data>>

GpuCopyOut ==
  /\ cov_pc = "wait_out"
  /\ GpuMayWrite
  /\ out_netmcnt' = [out_netmcnt EXCEPT ![cov_out_idx] = cov_netmcnt]
  /\ out_data' = [out_data EXCEPT ![cov_out_idx] = cov_data]
  /\ cov_pc' = "mark_out"
  /\ UNCHANGED <<input_vars, out_sem, global_vars, cov_in_idx, cov_out_idx,
                 cov_data, cov_netmcnt>>

GpuMarkOut ==
  /\ cov_pc = "mark_out"
  /\ out_sem' = set_filled(out_sem, cov_out_idx)
  /\ cov_out_idx' = Following(cov_out_idx, N_OUTPUT_BLOCKS)
  /\ cov_pc' = "wait_in"
  /\ UNCHANGED <<input_vars, out_netmcnt, out_data, global_vars, cov_in_idx,
                 cov_data, cov_netmcnt>>

GpuInternal == GpuProcess \/ GpuFreeInput \/ GpuCopyOut \/ GpuMarkOut

(* A wait that fails with anything but a timeout ends the thread.          *)
GpuWaitError ==
  /\ cov_pc \in {"wait_in", "wait_out"}
  /\ cov_pc' = "exited"
  /\ UNCHANGED <<input_vars, output_vars, global_vars, cov_in_idx, cov_out_idx,
                 cov_data, cov_netmcnt>>

GpuTypeOK ==
  /\ cov_pc \in {"wait_in", "free_in", "wait_out", "mark_out", "exited"}
  /\ cov_in_idx \in InBlocks
  /\ cov_out_idx \in OutBlocks
  /\ cov_data \in [Slots -> Mcnts \cup {Blank, Garbage}]
  /\ cov_netmcnt \in Mcnts
=============================================================================
