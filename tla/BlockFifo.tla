----------------------------- MODULE BlockFifo -----------------------------
(***************************************************************************)
(* What the pipeline promises about the blocks the net thread hands over:  *)
(* a first-in first-out buffer of bounded capacity that neither loses,     *)
(* repeats, reorders nor alters a block, and that delivers every block it  *)
(* accepted.                                                               *)
(***************************************************************************)
EXTENDS Naturals, Sequences

CONSTANTS Capacity,           \* blocks in flight, at most
          Block               \* the blocks there can be

VARIABLES queue,              \* blocks accepted and not yet delivered
          delivered           \* blocks delivered, oldest first

fifo_vars == <<queue, delivered>>

FifoInit == queue = <<>> /\ delivered = <<>>

Accept ==
  /\ Len(queue) < Capacity
  /\ \E b \in Block : queue' = Append(queue, b)
  /\ UNCHANGED delivered

Deliver ==
  /\ queue # <<>>
  /\ queue' = Tail(queue)
  /\ delivered' = Append(delivered, Head(queue))

FifoSafe == FifoInit /\ [][Accept \/ Deliver]_fifo_vars

FifoSpec == FifoSafe /\ WF_fifo_vars(Deliver)
=============================================================================
