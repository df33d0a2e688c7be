------------------------------ MODULE Pipeline ------------------------------
(***************************************************************************)
(* One hashpipe instance of TL_init.sh: the net, gpu and output threads,   *)
(* each running its own loop on its own core, joined by the two rings and  *)
(* by the unlocked variables of module Globals.                            *)
(***************************************************************************)
EXTENDS NetThread, GpuThread, OutputThread

VARIABLE stored               \* history: the blocks the output thread is done with

vars == <<input_vars, output_vars, global_vars, net_private, cov_private,
          out_private, fs_vars, stored>>

PipelineInit ==
  /\ NetInit
  /\ TL_output_databuf_create
  /\ GpuInit
  /\ OutputInit
  /\ stored = <<>>

-----------------------------------------------------------------------------
(* A write to a stream that is not open kills all three threads.           *)
Alive == out_pc # "crashed"

NetMoves(A) ==
  Alive /\ A /\ UNCHANGED <<output_vars, cov_private, out_private, fs_vars, stored>>

GpuMoves(A) ==
  Alive /\ A /\ UNCHANGED <<net_private, out_private, fs_vars, stored>>

OutputMoves(A) ==
  Alive /\ A /\ UNCHANGED <<input_vars, net_private, cov_private>>

(* The output thread gives a block back: it has written all it ever will.  *)
StoreBlock ==
  /\ OutputMoves(FreeOutput)
  /\ stored' = Append(stored, [netmcnt |-> out_netmcnt[file_idx],
                               data    |-> out_data[file_idx]])

OutputElse ==
  /\ \/ TakeBlock \/ NameDirectory \/ MakeDirectory \/ StampFiles \/ CheckType
     \/ FormatName \/ CreateFile \/ OpenFiles \/ WriteBeam \/ WriteCrash
     \/ CountBlock \/ RenameFile
  /\ OutputMoves(TRUE)
  /\ UNCHANGED stored

NetRuns    == NetMoves(NetInternal)
GpuRuns    == GpuMoves(GpuInternal)
OutputRuns == StoreBlock \/ OutputElse

(* Nothing is left to do: every thread waits for its input, or is gone.    *)
Idle ==
  /\ net_pc \in {"recv", "exited"}
  /\ \/ cov_pc = "wait_in" /\ ~GpuMayTake
     \/ cov_pc = "exited"
  /\ \/ out_pc = "wait" /\ ~OutMayTake
     \/ out_pc \in {"exited", "crashed"}
  /\ UNCHANGED vars

PipelineNext ==
  \/ NetMoves(Receive)
  \/ NetRuns
  \/ GpuRuns
  \/ OutputRuns
  \/ NetMoves(NetWaitError)
  \/ WaitErrors /\ GpuMoves(GpuWaitError)
  \/ WaitErrors /\ OutputMoves(OutputWaitError) /\ UNCHANGED stored
  \/ Idle

PipelineSpec == PipelineInit /\ [][PipelineNext]_vars

(* Each thread is pinned to a core of its own and its waits poll, so a     *)
(* thread that can move does.  Packets may stop coming.                    *)
PipelineFairSpec ==
  /\ PipelineSpec
  /\ WF_vars(NetRuns)
  /\ WF_vars(GpuRuns)
  /\ WF_vars(OutputRuns)

-----------------------------------------------------------------------------
(* The blocks in flight.                                                   *)

(* The filled blocks of a ring, oldest first, from the reader's position.  *)
RingSeq(sem, netmcnt, data, first, n) ==
  [i \in 1 .. Cardinality({b \in DOMAIN sem : sem[b] = FILLED}) |->
     LET b == (first + i - 1) % n
     IN  [netmcnt |-> netmcnt[b], data |-> data[b]]]

InRing  == RingSeq(in_sem, in_netmcnt, in_data, cov_in_idx, N_INPUT_BLOCKS)
OutRing == RingSeq(out_sem, out_netmcnt, out_data, file_idx, N_OUTPUT_BLOCKS)

InHand == IF cov_pc \in {"wait_out", "mark_out"}
          THEN <<[netmcnt |-> cov_netmcnt, data |-> cov_data]>>
          ELSE <<>>

InFlight == OutRing \o InHand \o InRing

Fifo == INSTANCE BlockFifo WITH
          queue     <- InFlight,
          delivered <- stored,
          Capacity  <- N_INPUT_BLOCKS + 1 + N_OUTPUT_BLOCKS,
          Block     <- [netmcnt : Mcnts, data : [Slots -> Mcnts \cup {Blank}]]

-----------------------------------------------------------------------------
(* Properties.                                                             *)

(* The type invariant of all three threads and both rings.                 *)
PipelineTypeOK ==
  /\ NetTypeOK
  /\ GpuTypeOK
  /\ OutputTypeOK
  /\ out_sem \in [OutBlocks -> {FREE, FILLED}]
  /\ out_netmcnt \in [OutBlocks -> Mcnts]
  /\ out_data \in [OutBlocks -> [Slots -> Mcnts \cup {Blank, Garbage}]]

(* The filled blocks of a ring are those from the reader's position up to  *)
(* the writer's; when the two meet, the ring is all empty or all full.     *)
ExactWindow(sem, reader, writer) ==
  IF reader = writer
  THEN \/ \A b \in DOMAIN sem : sem[b] = FREE
       \/ \A b \in DOMAIN sem : sem[b] = FILLED
  ELSE \A b \in DOMAIN sem : sem[b] = FILLED <=> InWindow(b, reader, writer)

(* The threads on either side of a ring walk it with private indices that  *)
(* are never compared; the semaphores keep them one lap apart at most, so  *)
(* that neither skips a block nor visits one twice.                        *)
InputWindow  == ExactWindow(in_sem, cov_in_idx, net_idx)
OutputWindow == ExactWindow(out_sem, file_idx, cov_out_idx)

(* The gpu thread reads, and the output thread writes to disk, a block     *)
(* nobody else may touch.                                                  *)
ReadersOwn ==
  /\ cov_pc = "free_in" => in_sem[cov_in_idx] = FILLED
  /\ cov_pc = "mark_out" => out_sem[cov_out_idx] = FREE
  /\ out_pc \notin {"wait", "exited"} => out_sem[file_idx] = FILLED

(* All blocks from the first one published on, in the order of the stream. *)
Stream == stored \o InFlight

(* With nothing missed, what is on disk, in the rings and in the gpu       *)
(* thread's hands together is exactly the stream received so far, up to    *)
(* the packets of the block being filled (unless the gpu thread gave up    *)
(* with a block in its hands).                                             *)
LossFreeExact ==
  net_pc = "recv" /\ start_file /\ miss_pkt = 0 /\ cov_pc # "exited" =>
    /\ Len(Stream) * N_SPEC_BUFF + offset = cur_mcnt - init_mcnt
    /\ \A k \in 1 .. Len(Stream), s \in Slots :
         Stream[k].data[s] = init_mcnt + (k - 1) * N_SPEC_BUFF + s

(* Whatever is missed, packets stay in order from the network to the disk. *)
StreamOrdered ==
  /\ \A k \in 1 .. Len(Stream) : Increasing(Stream[k].data)
  /\ \A k \in 1 .. Len(Stream) - 1 : Precedes(Stream[k].data, Stream[k + 1].data)

(* A block is only ever written to files that are open: the first block    *)
(* cannot reach the output thread before the net thread set start_file.    *)
StreamOpenAtWrite == out_pc = "write" => is_open /\ start_file

(* The two rings and the gpu thread between them are a FIFO of blocks.     *)
ImplementsFifo     == Fifo!FifoSpec
ImplementsFifoSafe == Fifo!FifoSafe

(* The net thread, in the pipeline, behaves as it does when any filled     *)
(* block may be freed at any time.                                         *)
ImplementsNetSpec == NetSpec

(* Backpressure: a thread that waits for a free block gets it, however     *)
(* slow the disk is, so the net thread always gets back to its socket.     *)
NetReturnsToSocket == net_pc \notin {"recv", "exited"} ~> net_pc \in {"recv", "exited"}

(* Whenever the net thread has published as many blocks as fill a file,    *)
(* those very blocks get to the disk as one file under its final name, for *)
(* every beam, without waiting for more packets: what the programs that    *)
(* pick up *.fil rely on.  (A later file may then replace it.)             *)
FileOfBlocks(k, j) ==
  \E p \in FilPaths :
    /\ p.beam = beam_ID[j]
    /\ files[p].blocks = [i \in 1 .. BlocksPerFile |->
                            Stream[(k - 1) * BlocksPerFile + i].netmcnt]

FileDelivered ==
  \A k \in 1 .. (MaxMcnt + 1) \div N_SPEC_PER_FILE, j \in Beams :
    Len(Stream) >= k * BlocksPerFile
      ~> Len(Stream) >= k * BlocksPerFile /\ FileOfBlocks(k, j)

(* What the comment on polarization_process says, "abstract polarization   *)
(* (I,Q,U,V) form Original Data, according to data type information": what *)
(* it forwards comes from the original data.                               *)
ForwardsOriginalData ==
  \A b \in OutBlocks : out_sem[b] = FILLED =>
    \A s \in Slots : out_data[b][s] # Garbage
=============================================================================
