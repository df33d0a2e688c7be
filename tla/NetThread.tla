----------------------------- MODULE NetThread -----------------------------
(***************************************************************************)
(* TL_net_thread.c: packets received from one network port are laid out in *)
(* the blocks of the input ring.  A step of the thread runs from one       *)
(* blocking call (recv, wait_free) to the next; net_pc names the call the  *)
(* thread is blocked in, or "mark" between the copy that completes a block *)
(* and its publication.                                                    *)
(*                                                                         *)
(* Sizes are counted in packets instead of bytes: all of them are          *)
(* multiples of DATA_SIZE_PACK, so the 64-bit product                      *)
(* miss_pkt * DATA_SIZE_PACK becomes arithmetic modulo Word = 2^64 / 2^12. *)
(*                                                                         *)
(* Here the ring's reader is an environment that may free any filled       *)
(* block; in module Pipeline it is the gpu thread.                         *)
(***************************************************************************)
EXTENDS InputDatabuf, Globals

CONSTANTS Word,               \* 2^52: 64-bit byte counts, in packets
          CountMod,           \* 2^32: width of total_packets_counted
          FirstMcnts,         \* counters the first packet may carry
          MaxLoss,            \* bound on packets lost in a row
          LateDelivery,       \* may packets arrive late or twice?
          WaitErrors          \* may the semaphore calls fail?

(* Counters are 56 bits wide and the first one is small, so a counter      *)
(* cannot fall back by almost 2^52: a late packet always looks like a gap  *)
(* of more than a block.                                                   *)
ASSUME WordAssumption == Word \in Nat /\ Word > MaxMcnt + N_SPEC_BUFF + 1
ASSUME CountAssumption == CountMod \in Nat /\ CountMod >= 2
ASSUME ArrivalAssumption ==
  /\ FirstMcnts \subseteq Mcnts
  /\ MaxLoss \in Nat
  /\ LateDelivery \in BOOLEAN
  /\ WaitErrors \in BOOLEAN

VARIABLES net_pc,                 \* where the thread is blocked
          pkt_mcnt,               \* counter of the packet in hand
          cur_mcnt,               \* binfo.cur_mcnt: counter expected next
          miss_pkt,               \* binfo.miss_pkt: packets missed so far
          offset,                 \* binfo.offset, in packets
          net_idx,                \* binfo.block_idx
          total_packets_counted

net_private == <<net_pc, pkt_mcnt, cur_mcnt, miss_pkt, offset, net_idx,
                 total_packets_counted>>
net_vars == <<input_vars, global_vars, net_private>>

N_PACKETS_PER_SPEC == 1

NetInit ==
  /\ TL_input_databuf_create
  /\ GlobalsInit
  /\ net_pc = "check0"
  /\ pkt_mcnt = 0
  /\ cur_mcnt = 0
  /\ miss_pkt = 0
  /\ offset = 0
  /\ net_idx = 0
  /\ total_packets_counted = 0

-----------------------------------------------------------------------------
(* The network and the operations the handlers are made of.                *)

(* The packets that may be received next: packets may be lost, up to       *)
(* MaxLoss in a row, and with LateDelivery they may also be duplicated or  *)
(* arrive after a packet that was sent later.                              *)
Arrivals ==
  IF ~start_file
  THEN FirstMcnts
  ELSE {m \in Mcnts : m <= cur_mcnt + MaxLoss /\ (LateDelivery \/ m >= cur_mcnt)}

(* binfo.cur_mcnt as the packet with counter m finds it: the very first    *)
(* packet (or the one after the 32-bit count wrapped) sets it.             *)
CurMcntAt(m) == IF total_packets_counted = 0 THEN m ELSE cur_mcnt

(* uint64_t miss_size, in packets: huge when m is behind cur_mcnt.         *)
MissSize(m) == (m - CurMcntAt(m)) % Word
miss_size   == (pkt_mcnt - cur_mcnt) % Word     \* the same, once parsed

(* Mutated forms: a gap of exactly one block counts as too large; the      *)
(* block's size is not taken off the new offset.                           *)
ExceedsOrEqualsBlock(size)    == size >= N_SPEC_BUFF
OffsetPastEndUnwrapped(at, size) == at + size

PassesBlockEnd(at, size) == at + size >= N_SPEC_BUFF /\ size < N_SPEC_BUFF
ExceedsBlock(size)       == size > N_SPEC_BUFF
OffsetPastEnd(at, size)  == at + size - N_SPEC_BUFF

(* Mutated form: the first slot of the range is left as it was.            *)
ZeroRangeShort(data, lo, hi) ==
  [s \in Slots |-> IF lo < s /\ s < hi THEN Blank ELSE data[s]]

ZeroRange(data, lo, hi) ==
  [s \in Slots |-> IF lo <= s /\ s < hi THEN Blank ELSE data[s]]

(* Mutated form: the packet that revealed the gap is expected again.       *)
NextSpectrumSame(m) == m

NextSpectrum(m) == (m + N_PACKETS_PER_SPEC) - (m % N_PACKETS_PER_SPEC)

(* Mutated form: no wait for the block.                                    *)
NetMayWriteAnyway == TRUE

NetMayWrite == wait_free(in_sem, net_idx)

(* header.netmcnt = mcnt; set_filled; block_idx = (block_idx+1) % n_block  *)
PublishBlock(mcnt) ==
  /\ in_netmcnt' = [in_netmcnt EXCEPT ![net_idx] = mcnt]
  /\ in_sem'     = set_filled(in_sem, net_idx)
  /\ net_idx'    = Following(net_idx, N_INPUT_BLOCKS)

-----------------------------------------------------------------------------
(* The thread's steps.                                                     *)

(* Before it opens its socket the thread waits until blocks 0 and 1 are    *)
(* free.                                                                   *)
CheckFirstTwoBlocks ==
  /\ \/ net_pc = "check0" /\ wait_free(in_sem, 0) /\ net_pc' = "check1"
     \/ net_pc = "check1" /\ wait_free(in_sem, 1) /\ net_pc' = "recv"
  /\ UNCHANGED <<input_vars, global_vars, pkt_mcnt, cur_mcnt, miss_pkt, offset,
                 net_idx, total_packets_counted>>

(* What process_packet does with every packet before it compares its       *)
(* counter with the one it expects.                                        *)
ParsePacket(m, source_from, group) ==
  /\ net_pc = "recv"
  /\ pkt_mcnt'  = m
  /\ data_type' = source_from
  /\ beam_ID'   = BeamsOfGroup(group)
  /\ start_file' = (start_file \/ total_packets_counted = 0)
  /\ init_mcnt' = IF total_packets_counted = 0 THEN m ELSE init_mcnt
  /\ cur_mcnt'  = CurMcntAt(m)
  /\ total_packets_counted' = (total_packets_counted + 1) % CountMod
  /\ UNCHANGED <<input_vars, offset, net_idx>>

ReceiveExpected(m, source_from, group) ==
  /\ ParsePacket(m, source_from, group)
  /\ CurMcntAt(m) = m
  /\ net_pc' = "copy"
  /\ UNCHANGED miss_pkt

(* miss_pkt_process, up to its first blocking call.  A gap of more than a  *)
(* block, or a packet behind the expected one, ends the thread.            *)
ReceiveUnexpected(m, source_from, group) ==
  /\ ParsePacket(m, source_from, group)
  /\ CurMcntAt(m) # m
  /\ miss_pkt' = miss_pkt + (m - CurMcntAt(m))
  /\ net_pc' = IF PassesBlockEnd(offset, MissSize(m)) THEN "roll_tail"
               ELSE IF ExceedsBlock(MissSize(m)) THEN "exited"
               ELSE "gap"

(* The expected packet goes to the current offset.                         *)
CopyPacket ==
  /\ net_pc = "copy"
  /\ NetMayWrite
  /\ in_data'  = [in_data EXCEPT ![net_idx][offset] = pkt_mcnt]
  /\ offset'   = offset + 1
  /\ cur_mcnt' = cur_mcnt + 1
  /\ net_pc'   = IF offset + 1 = N_SPEC_BUFF THEN "mark" ELSE "recv"
  /\ UNCHANGED <<in_sem, in_netmcnt, global_vars, pkt_mcnt, miss_pkt, net_idx,
                 total_packets_counted>>

(* The block is complete: publish it and start the next one.               *)
MarkBlock ==
  /\ net_pc = "mark"
  /\ PublishBlock(pkt_mcnt)
  /\ offset' = 0
  /\ net_pc' = "recv"
  /\ UNCHANGED <<in_data, global_vars, pkt_mcnt, cur_mcnt, miss_pkt,
                 total_packets_counted>>

(* A gap that reaches the end of the block: zero the rest of the block and *)
(* publish it ...                                                          *)
ZeroTail ==
  /\ net_pc = "roll_tail"
  /\ NetMayWrite
  /\ in_data' = [in_data EXCEPT ![net_idx] = ZeroRange(@, offset, N_SPEC_BUFF)]
  /\ offset'  = OffsetPastEnd(offset, miss_size)
  /\ PublishBlock(pkt_mcnt)
  /\ net_pc'  = "roll_head"
  /\ UNCHANGED <<global_vars, pkt_mcnt, cur_mcnt, miss_pkt,
                 total_packets_counted>>

(* ... then zero the start of the following block, when that is free.      *)
ZeroHead ==
  /\ net_pc = "roll_head"
  /\ NetMayWrite
  /\ in_data'  = [in_data EXCEPT ![net_idx] = ZeroRange(@, 0, offset)]
  /\ cur_mcnt' = NextSpectrum(pkt_mcnt)
  /\ net_pc'   = "recv"
  /\ UNCHANGED <<in_sem, in_netmcnt, global_vars, pkt_mcnt, miss_pkt, offset,
                 net_idx, total_packets_counted>>

(* Any other gap: zero as many slots as packets are missing, counted from  *)
(* the start of the block, and leave the offset where it is.               *)
ZeroGap ==
  /\ net_pc = "gap"
  /\ NetMayWrite
  /\ in_data'  = [in_data EXCEPT ![net_idx] = ZeroRange(@, 0, miss_size)]
  /\ cur_mcnt' = NextSpectrum(pkt_mcnt)
  /\ net_pc'   = "recv"
  /\ UNCHANGED <<in_sem, in_netmcnt, global_vars, pkt_mcnt, miss_pkt, offset,
                 net_idx, total_packets_counted>>

(* A semaphore call that fails with anything but a timeout ends the thread.*)
NetWaitError ==
  /\ WaitErrors
  /\ net_pc \notin {"recv", "exited"}
  /\ net_pc' = "exited"
  /\ UNCHANGED <<input_vars, global_vars, pkt_mcnt, cur_mcnt, miss_pkt, offset,
                 net_idx, total_packets_counted>>

(* process_packet for whatever packet the network delivers.                *)
Receive ==
  \E m \in Arrivals, source_from \in SourceTypes, group \in BeamGroups :
    \/ ReceiveExpected(m, source_from, group)
    \/ ReceiveUnexpected(m, source_from, group)

(* The steps that need no packet: fairness is assumed of these.            *)
NetInternal ==
  \/ CheckFirstTwoBlocks
  \/ CopyPacket
  \/ MarkBlock
  \/ ZeroTail
  \/ ZeroHead
  \/ ZeroGap

NetStep == NetInternal \/ Receive \/ NetWaitError

-----------------------------------------------------------------------------
(* The reader of the ring, as the net thread may rely on it: it frees      *)
(* filled blocks and changes nothing else of this module's state.          *)
FreeBlock(b) ==
  /\ wait_filled(in_sem, b)
  /\ in_sem' = set_free(in_sem, b)
  /\ UNCHANGED <<in_netmcnt, in_data, global_vars, net_private>>

NetNext == NetStep \/ \E b \in InBlocks : FreeBlock(b)

NetSpec == NetInit /\ [][NetNext]_net_vars

-----------------------------------------------------------------------------
(* Properties.                                                             *)

(* The type invariant: in particular the offset never leaves the block,    *)
(* and it reaches the end of the block only between the copy of the last   *)
(* packet and the publication (memcpy and memset in process_packet and     *)
(* miss_pkt_process stay inside block[block_idx].data).                    *)
NetTypeOK ==
  /\ in_sem \in [InBlocks -> {FREE, FILLED}]
  /\ in_netmcnt \in [InBlocks -> Mcnts]
  /\ in_data \in [InBlocks -> [Slots -> Mcnts \cup {Blank}]]
  /\ data_type \in {0, 1}
  /\ beam_ID \in [Beams -> Nat]
  /\ start_file \in BOOLEAN
  /\ init_mcnt \in Mcnts
  /\ net_pc \in {"check0", "check1", "recv", "copy", "mark", "roll_tail",
                 "roll_head", "gap", "exited"}
  /\ pkt_mcnt \in Mcnts
  /\ cur_mcnt \in 0 .. MaxMcnt + 1
  /\ miss_pkt \in Int
  /\ offset \in 0 .. N_SPEC_BUFF
  /\ offset = N_SPEC_BUFF => net_pc \in {"mark", "exited"}
  /\ net_idx \in InBlocks
  /\ total_packets_counted \in 0 .. CountMod - 1

(* Once anything has been laid out in the current block, the thread owns   *)
(* it: nobody sees the block as filled until the thread publishes it.      *)
(* Between the two blocks of a roll the offset already belongs to a block  *)
(* that is yet to be waited for.                                           *)
CurrentBlockFree ==
  offset > 0 /\ net_pc \notin {"roll_head", "exited"} => in_sem[net_idx] = FREE

(* The net thread never touches a block the gpu thread may be reading,     *)
(* neither its header nor one slot of it, however late the reader is: each *)
(* memcpy and memset is preceded by a wait for that very block.            *)
FilledImmutable ==
  [][\A b \in InBlocks : in_sem[b] = FILLED /\ in_sem'[b] = FILLED =>
        in_data'[b] = in_data[b] /\ in_netmcnt'[b] = in_netmcnt[b]]_net_vars

(* Every counter value since the first packet is accounted for, as a packet*)
(* counted in NPACKETS or as one missed in MiSSPKT, whatever the order of  *)
(* losses: between two packets cur_mcnt - init_mcnt is the sum of both.    *)
Accounting ==
  net_pc = "recv" /\ start_file =>
    cur_mcnt - init_mcnt = total_packets_counted + miss_pkt

(* Slots that hold packets, in the order of the block.                     *)
Increasing(data) ==
  \A i, j \in Slots : i < j /\ data[i] # Blank /\ data[j] # Blank =>
    data[i] < data[j]

Precedes(older, newer) ==
  \A i, j \in Slots : older[i] # Blank /\ newer[j] # Blank => older[i] < newer[j]

(* The three cases of miss_pkt_process leave no hole and no overlap: when a *)
(* packet is received the thread gives up exactly if more than one block   *)
(* of packets is missing, down to the packet, or if the packet is behind   *)
(* the one expected; whatever gap is repaired ends in the block being laid *)
(* out or in the one after it.                                             *)
ExitIffLargeGap ==
  [][net_pc = "recv" /\ net_pc' # "recv" /\ pkt_mcnt' # cur_mcnt' =>
       /\ net_pc' = "exited" <=> \/ pkt_mcnt' < cur_mcnt'
                                \/ pkt_mcnt' > cur_mcnt' + N_SPEC_BUFF
       /\ net_pc' = "roll_tail" =>
            offset + (pkt_mcnt' - cur_mcnt') \in N_SPEC_BUFF .. 2 * N_SPEC_BUFF - 1
       /\ net_pc' = "gap" =>
            \/ offset + (pkt_mcnt' - cur_mcnt') < N_SPEC_BUFF
            \/ pkt_mcnt' - cur_mcnt' = N_SPEC_BUFF]_net_vars

(* What "Add misspkt correct mechanism" promises: a packet lost leaves its *)
(* slot blank and the packets around it keep their distance, so that the   *)
(* slot of a spectrum tells its time.                                      *)
SlotMatchesCounter ==
  \A b \in InBlocks : in_sem[b] = FILLED =>
    \A i, j \in Slots : in_data[b][i] # Blank /\ in_data[b][j] # Blank =>
      in_data[b][j] - in_data[b][i] = j - i
=============================================================================
