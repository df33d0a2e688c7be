------------------------------ MODULE Databuf ------------------------------
(***************************************************************************)
(* The shared-memory ring buffers that join the three threads: what is     *)
(* common to the input ring (net thread -> gpu thread) and to the output   *)
(* ring (gpu thread -> output thread).  The wrappers of TL_databuf.h only  *)
(* cast and forward to the hashpipe library, which keeps one System V      *)
(* semaphore per block, 0 while the block is free and 1 while it is        *)
(* filled; that library is not in the repository and is modelled from how  *)
(* the three threads use it.                                               *)
(*                                                                         *)
(* A block holds N_SPEC_BUFF packets, one per spectrum.  The payload of a  *)
(* packet is represented by the packet's counter, zeroed memory by Blank   *)
(* and memory nobody initialised by Garbage.                               *)
(***************************************************************************)
EXTENDS Integers

CONSTANT N_SPEC_BUFF          \* packets (spectra) in a block: 1024 in the code

ASSUME BlockSizeAssumption == N_SPEC_BUFF \in Nat \ {0}

Slots == 0 .. N_SPEC_BUFF - 1

Blank   == -1
Garbage == -2

FREE   == 0
FILLED == 1

(* The polling loops of the callers spin on a timeout, so waiting for a    *)
(* block is a guard on its semaphore.                                      *)
wait_free(sem, block_id)   == sem[block_id] = FREE
wait_filled(sem, block_id) == sem[block_id] = FILLED

set_free(sem, block_id)    == [sem EXCEPT ![block_id] = FREE]
set_filled(sem, block_id)  == [sem EXCEPT ![block_id] = FILLED]

(* (block_idx + 1) % n_block: how every thread walks its ring.             *)
Following(block_id, n_block) == (block_id + 1) % n_block

(* Block b is one of those from lo up to, not including, hi, going round   *)
(* the ring; there are none when lo = hi.                                  *)
InWindow(b, lo, hi) ==
  IF lo <= hi THEN lo <= b /\ b < hi ELSE lo <= b \/ b < hi
=============================================================================
