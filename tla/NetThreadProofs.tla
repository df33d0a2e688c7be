-------------------------- MODULE NetThreadProofs --------------------------
(***************************************************************************)
(* Theorems about the net thread, for every size of block and of ring and  *)
(* for every behaviour of the network module NetThread allows.             *)
(***************************************************************************)
EXTENDS NetThread, ModLemmas

USE DEF FREE, FILLED, Blank

(* The assumptions the proofs use, in one place.                           *)
LEMMA Constants ==
  /\ N_SPEC_BUFF \in Nat \ {0}
  /\ N_INPUT_BLOCKS \in Nat \ {0}
  /\ N_INPUT_BLOCKS >= 2
  /\ MaxMcnt \in Nat
  /\ Word \in Nat \ {0}
  /\ Word > MaxMcnt + N_SPEC_BUFF + 1
  /\ CountMod \in Nat \ {0}
  /\ FirstMcnts \subseteq Mcnts
  /\ SourceTypes \subseteq {0, 1}
  /\ BeamGroups \subseteq Nat
  /\ N_BEAM_PER_PACK \in Nat \ {0}
BY BlockSizeAssumption, InputBlocksAssumption, McntAssumption, WordAssumption,
   CountAssumption, ArrivalAssumption, SourceAssumption, GroupAssumption,
   BeamsAssumption

-----------------------------------------------------------------------------
(* What each place of the thread tells about the packet in hand.           *)
NetControl ==
  /\ net_pc = "copy" => cur_mcnt = pkt_mcnt
  /\ net_pc = "mark" => offset = N_SPEC_BUFF
  /\ net_pc = "roll_tail" => PassesBlockEnd(offset, miss_size)

(* The inductive invariant.                                                *)
NetInv == NetTypeOK /\ CurrentBlockFree /\ NetControl

LEMMA FollowingInRing ==
  ASSUME NEW b \in InBlocks
  PROVE  Following(b, N_INPUT_BLOCKS) \in InBlocks
BY ModRange, Constants DEF Following, InBlocks

(* Zeroing part of a block leaves a block.                                 *)
LEMMA ZeroRangeType ==
  ASSUME NEW data \in [Slots -> Mcnts \cup {Blank}], NEW lo, NEW hi
  PROVE  ZeroRange(data, lo, hi) \in [Slots -> Mcnts \cup {Blank}]
BY DEF ZeroRange

LEMMA NextSpectrumIs ==
  ASSUME NEW m \in Int
  PROVE  NextSpectrum(m) = m + 1
<1>1. m % 1 = 0
  <2>1. m % 1 \in 0 .. 1 - 1
    BY ModRange
  <2> QED BY <2>1
<1> QED BY <1>1 DEF NextSpectrum, N_PACKETS_PER_SPEC

LEMMA NetInitInv == NetInit => NetInv
<1> SUFFICES ASSUME NetInit PROVE NetInv
  OBVIOUS
<1>1. /\ in_sem \in [InBlocks -> {FREE, FILLED}]
      /\ in_netmcnt \in [InBlocks -> Mcnts]
      /\ in_data \in [InBlocks -> [Slots -> Mcnts \cup {Blank}]]
  BY Constants DEF NetInit, TL_input_databuf_create, Mcnts
<1>2. beam_ID \in [Beams -> Nat]
  BY DEF NetInit, GlobalsInit
<1>3. 0 \in Mcnts /\ 0 \in InBlocks /\ 0 \in 0 .. CountMod - 1 /\ 0 < N_SPEC_BUFF
  BY Constants DEF Mcnts, InBlocks
<1>4. NetTypeOK
  <2>1. data_type \in {0, 1} /\ start_file \in BOOLEAN /\ init_mcnt \in Mcnts
    BY <1>3 DEF NetInit, GlobalsInit
  <2>2. /\ pkt_mcnt \in Mcnts /\ cur_mcnt \in 0 .. MaxMcnt + 1 /\ miss_pkt \in Int
        /\ offset \in 0 .. N_SPEC_BUFF /\ offset # N_SPEC_BUFF
        /\ net_idx \in InBlocks /\ total_packets_counted \in 0 .. CountMod - 1
    BY <1>3, Constants DEF NetInit
  <2>3. net_pc = "check0"
    BY DEF NetInit
  <2> QED BY <1>1, <1>2, <2>1, <2>2, <2>3 DEF NetTypeOK
<1>5. CurrentBlockFree /\ NetControl
  BY DEF NetInit, CurrentBlockFree, NetControl
<1> QED BY <1>4, <1>5 DEF NetInv

(* A packet changes no block: it sets the counters and the next place.     *)
LEMMA ParseInv ==
  ASSUME NetInv, NEW m \in Arrivals, NEW source_from \in SourceTypes,
         NEW group \in BeamGroups, ParsePacket(m, source_from, group)
  PROVE  /\ m \in Mcnts
         /\ cur_mcnt' \in 0 .. MaxMcnt + 1
         /\ data_type' \in {0, 1}
         /\ beam_ID' \in [Beams -> Nat]
         /\ start_file' \in BOOLEAN
         /\ init_mcnt' \in Mcnts
         /\ total_packets_counted' \in 0 .. CountMod - 1
         /\ miss_size' = (m - cur_mcnt') % Word
         /\ offset < N_SPEC_BUFF
<1>1. m \in Mcnts
  BY Constants DEF Arrivals
<1>2. total_packets_counted' \in 0 .. CountMod - 1
  BY ModRange, Constants DEF ParsePacket, NetInv, NetTypeOK
<1>3. beam_ID' \in [Beams -> Nat]
  BY Constants DEF ParsePacket, BeamsOfGroup, Beams
<1>4. cur_mcnt' \in 0 .. MaxMcnt + 1
  BY <1>1, Constants DEF ParsePacket, NetInv, NetTypeOK, CurMcntAt, Mcnts
<1>5. offset < N_SPEC_BUFF
  BY Constants DEF ParsePacket, NetInv, NetTypeOK
<1> QED BY <1>1, <1>2, <1>3, <1>4, <1>5, Constants
        DEF ParsePacket, NetInv, NetTypeOK, miss_size

LEMMA NetNextInv == NetInv /\ [NetNext]_net_vars => NetInv'
<1> SUFFICES ASSUME NetInv, [NetNext]_net_vars PROVE NetInv'
  OBVIOUS
<1> USE Constants
<1>1. CASE CheckFirstTwoBlocks
  BY <1>1 DEF CheckFirstTwoBlocks, NetInv, NetTypeOK, CurrentBlockFree,
     NetControl, input_vars, global_vars, miss_size
<1>2. ASSUME NEW m \in Arrivals, NEW s \in SourceTypes, NEW g \in BeamGroups,
             ReceiveExpected(m, s, g)
      PROVE  NetInv'
  <2>1. ParsePacket(m, s, g)
    BY <1>2 DEF ReceiveExpected
  <2>2. NetTypeOK'
    BY <1>2, <2>1, ParseInv
    DEF ReceiveExpected, ParsePacket, NetInv, NetTypeOK, input_vars
  <2>3. CurrentBlockFree'
    BY <1>2, <2>1 DEF ReceiveExpected, ParsePacket, NetInv, CurrentBlockFree,
       input_vars
  <2>4. NetControl'
    BY <1>2, <2>1 DEF ReceiveExpected, ParsePacket, NetControl
  <2> QED BY <2>2, <2>3, <2>4 DEF NetInv
<1>3. ASSUME NEW m \in Arrivals, NEW s \in SourceTypes, NEW g \in BeamGroups,
             ReceiveUnexpected(m, s, g)
      PROVE  NetInv'
  <2>1. ParsePacket(m, s, g)
    BY <1>3 DEF ReceiveUnexpected
  <2>2. NetTypeOK'
    <3>1. miss_pkt' \in Int
      BY <1>3, <2>1, ParseInv
      DEF ReceiveUnexpected, ParsePacket, NetInv, NetTypeOK, Mcnts, CurMcntAt
    <3>2. net_pc' \in {"roll_tail", "gap", "exited"}
      BY <1>3 DEF ReceiveUnexpected
    <3> QED BY <2>1, <3>1, <3>2, ParseInv
            DEF ParsePacket, NetInv, NetTypeOK, input_vars
  <2>3. CurrentBlockFree'
    BY <1>3, <2>1 DEF ReceiveUnexpected, ParsePacket, NetInv, CurrentBlockFree,
       input_vars
  <2>4. NetControl'
    BY <1>3, <2>1 DEF ReceiveUnexpected, ParsePacket, NetControl, MissSize,
       miss_size, PassesBlockEnd
  <2> QED BY <2>2, <2>3, <2>4 DEF NetInv
<1>4. CASE CopyPacket
  <2>1. NetTypeOK'
    <3>1. in_data' \in [InBlocks -> [Slots -> Mcnts \cup {Blank}]]
      BY <1>4 DEF CopyPacket, NetInv, NetTypeOK
    <3>2. /\ offset' \in 0 .. N_SPEC_BUFF
          /\ offset' = N_SPEC_BUFF => net_pc' = "mark"
          /\ cur_mcnt' \in 0 .. MaxMcnt + 1
      BY <1>4 DEF CopyPacket, NetInv, NetTypeOK, NetControl, Mcnts
    <3> QED BY <1>4, <3>1, <3>2 DEF CopyPacket, NetInv, NetTypeOK, global_vars
  <2>2. CurrentBlockFree'
    BY <1>4 DEF CopyPacket, CurrentBlockFree, NetMayWrite, wait_free
  <2>3. NetControl'
    BY <1>4 DEF CopyPacket, NetControl
  <2> QED BY <2>1, <2>2, <2>3 DEF NetInv
<1>5. CASE MarkBlock
  <2>1. NetTypeOK'
    BY <1>5, FollowingInRing
    DEF MarkBlock, PublishBlock, set_filled, NetInv, NetTypeOK, global_vars
  <2>2. CurrentBlockFree' /\ NetControl'
    BY <1>5 DEF MarkBlock, CurrentBlockFree, NetControl
  <2> QED BY <2>1, <2>2 DEF NetInv
<1>6. CASE ZeroTail
  <2>1. offset' \in 0 .. N_SPEC_BUFF - 1
    <3>1. miss_size \in 0 .. Word - 1
      BY ModRange DEF miss_size, NetInv, NetTypeOK, Mcnts
    <3> QED BY <1>6, <3>1
            DEF ZeroTail, NetInv, NetTypeOK, NetControl, PassesBlockEnd,
                OffsetPastEnd
  <2>2. in_data' \in [InBlocks -> [Slots -> Mcnts \cup {Blank}]]
    BY <1>6, ZeroRangeType DEF ZeroTail, NetInv, NetTypeOK
  <2>3. NetTypeOK'
    BY <1>6, <2>1, <2>2, FollowingInRing
    DEF ZeroTail, PublishBlock, set_filled, NetInv, NetTypeOK, global_vars
  <2>4. CurrentBlockFree' /\ NetControl'
    BY <1>6 DEF ZeroTail, CurrentBlockFree, NetControl
  <2> QED BY <2>3, <2>4 DEF NetInv
<1>7. CASE ZeroHead \/ ZeroGap
  <2>1. in_data' \in [InBlocks -> [Slots -> Mcnts \cup {Blank}]]
    BY <1>7, ZeroRangeType DEF ZeroHead, ZeroGap, NetInv, NetTypeOK
  <2>2. cur_mcnt' \in 0 .. MaxMcnt + 1
    BY <1>7, NextSpectrumIs DEF ZeroHead, ZeroGap, NetInv, NetTypeOK, Mcnts
  <2>3. NetTypeOK'
    BY <1>7, <2>1, <2>2 DEF ZeroHead, ZeroGap, NetInv, NetTypeOK, global_vars
  <2>4. CurrentBlockFree' /\ NetControl'
    BY <1>7 DEF ZeroHead, ZeroGap, CurrentBlockFree, NetControl, NetMayWrite,
       wait_free
  <2> QED BY <2>3, <2>4 DEF NetInv
<1>8. CASE NetWaitError
  BY <1>8 DEF NetWaitError, NetInv, NetTypeOK, CurrentBlockFree, NetControl,
     input_vars, global_vars
<1>9. ASSUME NEW b \in InBlocks, FreeBlock(b)
      PROVE  NetInv'
  BY <1>9 DEF FreeBlock, set_free, NetInv, NetTypeOK, CurrentBlockFree,
     NetControl, global_vars, net_private, miss_size
<1>10. CASE UNCHANGED net_vars
  BY <1>10 DEF net_vars, NetInv, NetTypeOK, CurrentBlockFree, NetControl,
     input_vars, global_vars, net_private, miss_size
<1> QED BY <1>1, <1>2, <1>3, <1>4, <1>5, <1>6, <1>7, <1>8, <1>9, <1>10
        DEF NetNext, NetStep, NetInternal, Receive

LEMMA NetInvariant == NetSpec => []NetInv
BY NetInitInv, NetNextInv, PTL DEF NetSpec

(* No memcpy or memset of the net thread leaves its block, for any sizes   *)
(* and any pattern of losses and late packets.                             *)
THEOREM NetTypeCorrect == NetSpec => []NetTypeOK
BY NetInvariant, PTL DEF NetInv

(* The block being laid out belongs to the net thread.                     *)
THEOREM OwnsCurrentBlock == NetSpec => []CurrentBlockFree
BY NetInvariant, PTL DEF NetInv

-----------------------------------------------------------------------------
(* A block the gpu thread may read is never written to, in a ring of any   *)
(* number of blocks.                                                       *)
THEOREM FilledBlocksImmutable == NetSpec => FilledImmutable
<1> DEFINE Immutable ==
      \A b \in InBlocks : in_sem[b] = FILLED /\ in_sem'[b] = FILLED =>
        in_data'[b] = in_data[b] /\ in_netmcnt'[b] = in_netmcnt[b]
<1>1. NetInv /\ [NetNext]_net_vars => [Immutable]_net_vars
  <2> SUFFICES ASSUME NetInv, NetNext PROVE Immutable
    OBVIOUS
  <2>1. CASE CopyPacket \/ ZeroTail \/ ZeroHead \/ ZeroGap
    BY <2>1 DEF CopyPacket, ZeroTail, ZeroHead, ZeroGap, PublishBlock,
       NetMayWrite, wait_free, NetInv, NetTypeOK
  <2>2. CASE MarkBlock
    <3>1. in_sem[net_idx] = FREE
      BY <2>2, Constants DEF MarkBlock, NetInv, NetControl, CurrentBlockFree
    <3> QED BY <2>2, <3>1 DEF MarkBlock, PublishBlock, NetInv, NetTypeOK
  <2>3. CASE CheckFirstTwoBlocks \/ NetWaitError
    BY <2>3 DEF CheckFirstTwoBlocks, NetWaitError, input_vars
  <2>4. CASE Receive
    BY <2>4 DEF Receive, ReceiveExpected, ReceiveUnexpected, ParsePacket,
       input_vars
  <2>5. CASE \E b \in InBlocks : FreeBlock(b)
    BY <2>5 DEF FreeBlock
  <2> QED BY <2>1, <2>2, <2>3, <2>4, <2>5 DEF NetNext, NetStep, NetInternal
<1> QED BY <1>1, NetInvariant, PTL DEF NetSpec, FilledImmutable

-----------------------------------------------------------------------------
(* A packet behind the expected one looks, to the 64-bit arithmetic of     *)
(* miss_pkt_process, like a gap of more than a block.                      *)
LEMMA LateLooksLarge ==
  ASSUME NEW cur \in 0 .. MaxMcnt + 1, NEW m \in Mcnts, m < cur
  PROVE  (m - cur) % Word > N_SPEC_BUFF
<1>1. (m - cur) % Word = (m - cur) + Word
  BY ModNegative, Constants DEF Mcnts
<1> QED BY <1>1, Constants DEF Mcnts

(* So it ends the thread: a gap that is repaired is before the packet.     *)
LEMMA UnexpectedAhead ==
  ASSUME NetInv, NEW m \in Arrivals, NEW s \in SourceTypes, NEW g \in BeamGroups,
         ReceiveUnexpected(m, s, g), net_pc' # "exited"
  PROVE  m > CurMcntAt(m)
<1>1. m \in Mcnts /\ CurMcntAt(m) \in 0 .. MaxMcnt + 1
  BY Constants DEF Arrivals, CurMcntAt, NetInv, NetTypeOK, Mcnts
<1>2. m - CurMcntAt(m) \in Int
  BY <1>1, Constants DEF Mcnts
<1>3. MissSize(m) \in 0 .. Word - 1
  BY <1>2, ModRange, Constants DEF MissSize
<1>4. ~(MissSize(m) > N_SPEC_BUFF)
  BY <1>3, Constants DEF ReceiveUnexpected, PassesBlockEnd, ExceedsBlock
<1>5. ~(m < CurMcntAt(m))
  BY <1>1, <1>4, LateLooksLarge DEF MissSize
<1> QED BY <1>1, <1>5, Constants DEF ReceiveUnexpected, Mcnts

(* How far the counters have got at each place.  Received packets plus     *)
(* missed ones are never more than there are counters, so the count cannot *)
(* wrap.                                                                   *)
AccountingInv ==
  /\ ~start_file => /\ total_packets_counted = 0
                    /\ miss_pkt = 0
                    /\ net_pc \in {"check0", "check1", "recv", "exited"}
  /\ start_file /\ net_pc # "exited" => total_packets_counted > 0
  /\ start_file /\ net_pc \in {"recv", "mark"} =>
       cur_mcnt - init_mcnt = total_packets_counted + miss_pkt
  /\ net_pc = "copy" =>
       cur_mcnt + 1 - init_mcnt = total_packets_counted + miss_pkt
  /\ net_pc \in {"roll_tail", "roll_head", "gap"} =>
       pkt_mcnt + 1 - init_mcnt = total_packets_counted + miss_pkt
  /\ net_pc # "exited" => miss_pkt >= 0
  /\ net_pc \in {"check0", "check1"} => ~start_file

LEMMA AccountingStep ==
  ASSUME CountMod > MaxMcnt + 2, NetInv, AccountingInv, [NetNext]_net_vars
  PROVE  AccountingInv'
<1> USE Constants
<1>1. CASE CheckFirstTwoBlocks
  BY <1>1 DEF CheckFirstTwoBlocks, AccountingInv, global_vars
<1>2. ASSUME NEW m \in Arrivals, NEW s \in SourceTypes, NEW g \in BeamGroups,
             ParsePacket(m, s, g)
      PROVE  /\ start_file'
             /\ init_mcnt' \in Mcnts
             /\ total_packets_counted' = total_packets_counted + 1
             /\ start_file => cur_mcnt' = cur_mcnt /\ init_mcnt' = init_mcnt
             /\ ~start_file => cur_mcnt' = m /\ init_mcnt' = m
             /\ CurMcntAt(m) = cur_mcnt'
  <2>1. total_packets_counted + 1 \in 0 .. CountMod - 1
    BY <1>2 DEF ParsePacket, AccountingInv, NetInv, NetTypeOK, Mcnts
  <2>2. total_packets_counted' = total_packets_counted + 1
    BY <1>2, <2>1, ModId DEF ParsePacket
  <2>3. start_file' /\ init_mcnt' \in Mcnts
    BY <1>2, ParseInv DEF ParsePacket, AccountingInv, NetInv, NetTypeOK
  <2>4. start_file <=> total_packets_counted # 0
    BY <1>2 DEF ParsePacket, AccountingInv, NetInv, NetTypeOK
  <2> QED BY <1>2, <2>2, <2>3, <2>4 DEF ParsePacket, CurMcntAt
<1>3. ASSUME NEW m \in Arrivals, NEW s \in SourceTypes, NEW g \in BeamGroups,
             ReceiveExpected(m, s, g)
      PROVE  AccountingInv'
  <2>1. ParsePacket(m, s, g)
    BY <1>3 DEF ReceiveExpected
  <2>2. m \in Mcnts
    BY <2>1, ParseInv
  <2>3. net_pc' = "copy" /\ miss_pkt' = miss_pkt /\ cur_mcnt' = m
    BY <1>2, <1>3, <2>1 DEF ReceiveExpected
  <2>4. miss_pkt >= 0 /\ start_file' /\ total_packets_counted' > 0
    BY <1>2, <2>1 DEF ParsePacket, AccountingInv, NetInv, NetTypeOK
  <2>5. cur_mcnt' + 1 - init_mcnt' = total_packets_counted' + miss_pkt'
    <3>1. CASE start_file
      <4>1. cur_mcnt - init_mcnt = total_packets_counted + miss_pkt
        BY <2>1, <3>1 DEF ParsePacket, AccountingInv
      <4>2. /\ cur_mcnt \in Int /\ init_mcnt \in Int
            /\ total_packets_counted \in Int /\ miss_pkt \in Int
        BY DEF NetInv, NetTypeOK, Mcnts
      <4> QED BY <1>2, <2>1, <2>3, <3>1, <4>1, <4>2
    <3>2. CASE ~start_file
      BY <1>2, <2>1, <2>2, <2>3, <3>2 DEF AccountingInv, Mcnts
    <3> QED BY <3>1, <3>2
  <2> QED BY <2>3, <2>4, <2>5 DEF AccountingInv
<1>4. ASSUME NEW m \in Arrivals, NEW s \in SourceTypes, NEW g \in BeamGroups,
             ReceiveUnexpected(m, s, g)
      PROVE  AccountingInv'
  <2>1. ParsePacket(m, s, g)
    BY <1>4 DEF ReceiveUnexpected
  <2>2. m \in Mcnts /\ cur_mcnt' \in 0 .. MaxMcnt + 1
    BY <2>1, ParseInv
  <2>3. start_file
    BY <1>2, <1>4, <2>1 DEF ReceiveUnexpected, ParsePacket, NetInv, NetTypeOK
  <2>4. cur_mcnt - init_mcnt = total_packets_counted + miss_pkt
    BY <2>1, <2>3 DEF ParsePacket, AccountingInv
  <2>5. miss_pkt' = miss_pkt + (m - cur_mcnt)
    BY <1>2, <1>4, <2>1, <2>3 DEF ReceiveUnexpected
  <2>6. m + 1 - init_mcnt' = total_packets_counted' + miss_pkt'
    BY <1>2, <2>1, <2>2, <2>3, <2>4, <2>5 DEF NetInv, NetTypeOK, Mcnts
  <2>7. net_pc' # "exited" => miss_pkt' >= 0
    <3>1. net_pc' # "exited" => m > cur_mcnt
      BY <1>2, <1>4, <2>1, <2>3, UnexpectedAhead
    <3> QED BY <2>1, <2>2, <2>5, <3>1 DEF ParsePacket, AccountingInv, NetInv, NetTypeOK, Mcnts
  <2>8. net_pc' \in {"roll_tail", "gap", "exited"}
    BY <1>4 DEF ReceiveUnexpected
  <2>9. start_file' /\ total_packets_counted' > 0
    BY <1>2, <2>1 DEF NetInv, NetTypeOK
  <2> QED BY <2>1, <2>6, <2>7, <2>8, <2>9 DEF ParsePacket, AccountingInv
<1>5. CASE CopyPacket
  BY <1>5 DEF CopyPacket, AccountingInv, NetInv, NetTypeOK, NetControl, Mcnts,
     global_vars
<1>6. CASE MarkBlock
  BY <1>6 DEF MarkBlock, AccountingInv, global_vars
<1>7. CASE ZeroTail
  BY <1>7 DEF ZeroTail, AccountingInv, global_vars
<1>8. CASE ZeroHead \/ ZeroGap
  BY <1>8, NextSpectrumIs
  DEF ZeroHead, ZeroGap, AccountingInv, NetInv, NetTypeOK, Mcnts, global_vars
<1>9. CASE NetWaitError
  BY <1>9 DEF NetWaitError, AccountingInv, global_vars
<1>10. CASE \E b \in InBlocks : FreeBlock(b)
  BY <1>10 DEF FreeBlock, AccountingInv, global_vars, net_private
<1>11. CASE UNCHANGED net_vars
  BY <1>11 DEF net_vars, AccountingInv, global_vars, net_private
<1> QED BY <1>1, <1>3, <1>4, <1>5, <1>6, <1>7, <1>8, <1>9, <1>10, <1>11
        DEF NetNext, NetStep, NetInternal, Receive

(* NPACKETS plus MiSSPKT is the number of counters passed since the first  *)
(* packet, as long as the 32-bit count does not wrap; AccountingAcrossWraps*)
(* of module NetBench says what happens when it does.                      *)
THEOREM PacketsAccountedFor ==
  ASSUME CountMod > MaxMcnt + 2
  PROVE  NetSpec => []Accounting
<1>1. NetInit => AccountingInv
  BY DEF NetInit, GlobalsInit, AccountingInv
<1>2. NetInv /\ AccountingInv /\ [NetNext]_net_vars => AccountingInv'
  BY AccountingStep
<1>3. AccountingInv => Accounting
  BY DEF AccountingInv, Accounting
<1> QED BY <1>1, <1>2, <1>3, NetInvariant, PTL DEF NetSpec

-----------------------------------------------------------------------------
(* The distance of a packet that is not behind is what it looks like.      *)
LEMMA AheadLooksRight ==
  ASSUME NEW cur \in 0 .. MaxMcnt + 1, NEW m \in Mcnts, m >= cur
  PROVE  (m - cur) % Word = m - cur
<1>1. m - cur \in 0 .. Word - 1
  BY Constants DEF Mcnts
<1> QED BY <1>1, ModId, Constants

(* What follows a packet that is not the expected one, from the distance   *)
(* alone.                                                                  *)
LEMMA UnexpectedLeadsTo ==
  ASSUME NetInv, NEW m \in Arrivals, NEW s \in SourceTypes, NEW g \in BeamGroups,
         ReceiveUnexpected(m, s, g)
  PROVE  /\ pkt_mcnt' = m /\ m \in Mcnts /\ cur_mcnt' \in 0 .. MaxMcnt + 1
         /\ m < cur_mcnt' => net_pc' = "exited"
         /\ m >= cur_mcnt' =>
              net_pc' = IF PassesBlockEnd(offset, m - cur_mcnt') THEN "roll_tail"
                        ELSE IF ExceedsBlock(m - cur_mcnt') THEN "exited"
                        ELSE "gap"
<1>1. ParsePacket(m, s, g)
  BY DEF ReceiveUnexpected
<1>2. m \in Mcnts /\ cur_mcnt' \in 0 .. MaxMcnt + 1
  BY <1>1, ParseInv
<1>3. pkt_mcnt' = m /\ cur_mcnt' = CurMcntAt(m)
  BY <1>1 DEF ParsePacket
<1>4. MissSize(m) = (m - cur_mcnt') % Word
  BY <1>3 DEF MissSize
<1>5. net_pc' = IF PassesBlockEnd(offset, MissSize(m)) THEN "roll_tail"
                ELSE IF ExceedsBlock(MissSize(m)) THEN "exited"
                ELSE "gap"
  BY DEF ReceiveUnexpected
<1>6. m < cur_mcnt' => net_pc' = "exited"
  <2> SUFFICES ASSUME m < cur_mcnt' PROVE net_pc' = "exited"
    OBVIOUS
  <2>1. m - cur_mcnt' \in Int
    BY <1>2, Constants DEF Mcnts
  <2>2. MissSize(m) \in 0 .. Word - 1
    BY <1>4, <2>1, ModRange, Constants
  <2>3. MissSize(m) > N_SPEC_BUFF
    BY <1>2, <1>4, LateLooksLarge
  <2>4. ~PassesBlockEnd(offset, MissSize(m)) /\ ExceedsBlock(MissSize(m))
    BY <2>2, <2>3, Constants DEF PassesBlockEnd, ExceedsBlock
  <2> QED BY <1>5, <2>4
<1>7. m >= cur_mcnt' => MissSize(m) = m - cur_mcnt'
  BY <1>2, <1>4, AheadLooksRight
<1> QED BY <1>2, <1>3, <1>5, <1>6, <1>7

(* A distance and its ends.                                                *)
LEMMA DistanceAhead ==
  ASSUME NEW from \in Int, NEW to \in Int, NEW n \in Nat, to >= from
  PROVE  to - from \in Nat /\ (to > from + n <=> to - from > n) /\ ~(to < from)
OBVIOUS

(* The thread gives up on exactly the gaps it cannot repair, whatever the  *)
(* offset, and the others end in this block or in the next one.            *)
THEOREM ExitsOnLargeGaps == NetSpec => ExitIffLargeGap
<1> DEFINE Exits ==
      net_pc = "recv" /\ net_pc' # "recv" /\ pkt_mcnt' # cur_mcnt' =>
       /\ net_pc' = "exited" <=> \/ pkt_mcnt' < cur_mcnt'
                                \/ pkt_mcnt' > cur_mcnt' + N_SPEC_BUFF
       /\ net_pc' = "roll_tail" =>
            offset + (pkt_mcnt' - cur_mcnt') \in N_SPEC_BUFF .. 2 * N_SPEC_BUFF - 1
       /\ net_pc' = "gap" =>
            \/ offset + (pkt_mcnt' - cur_mcnt') < N_SPEC_BUFF
            \/ pkt_mcnt' - cur_mcnt' = N_SPEC_BUFF
<1>1. NetInv /\ [NetNext]_net_vars => [Exits]_net_vars
  <2> SUFFICES ASSUME NetInv, NetNext, net_pc = "recv", net_pc' # "recv",
                      pkt_mcnt' # cur_mcnt'
               PROVE  /\ net_pc' = "exited" <=> \/ pkt_mcnt' < cur_mcnt'
                                               \/ pkt_mcnt' > cur_mcnt' + N_SPEC_BUFF
                      /\ net_pc' = "roll_tail" =>
                           offset + (pkt_mcnt' - cur_mcnt')
                             \in N_SPEC_BUFF .. 2 * N_SPEC_BUFF - 1
                      /\ net_pc' = "gap" =>
                           \/ offset + (pkt_mcnt' - cur_mcnt') < N_SPEC_BUFF
                           \/ pkt_mcnt' - cur_mcnt' = N_SPEC_BUFF
    OBVIOUS
  <2>1. Receive
    BY DEF NetNext, NetStep, NetInternal, CheckFirstTwoBlocks, CopyPacket, MarkBlock,
       ZeroTail, ZeroHead, ZeroGap, NetWaitError, FreeBlock, net_private
  <2>2. PICK m \in Arrivals, s \in SourceTypes, g \in BeamGroups :
          ReceiveUnexpected(m, s, g)
    BY <2>1 DEF Receive, ReceiveExpected, ParsePacket
  <2>3. /\ pkt_mcnt' = m /\ m \in Mcnts /\ cur_mcnt' \in 0 .. MaxMcnt + 1
        /\ m < cur_mcnt' => net_pc' = "exited"
        /\ m >= cur_mcnt' =>
             net_pc' = IF PassesBlockEnd(offset, m - cur_mcnt') THEN "roll_tail"
                       ELSE IF ExceedsBlock(m - cur_mcnt') THEN "exited"
                       ELSE "gap"
    BY <2>2, UnexpectedLeadsTo
  <2>4. offset \in 0 .. N_SPEC_BUFF - 1
    BY <2>2, ParseInv, Constants DEF ReceiveUnexpected, NetInv, NetTypeOK
  <2>5. m \in Int /\ cur_mcnt' \in Int /\ N_SPEC_BUFF \in Nat
    BY <2>3, Constants DEF Mcnts
  <2>6. CASE m < cur_mcnt'
    BY <2>3, <2>6
  <2>7. CASE m >= cur_mcnt'
    <3>1. /\ m - cur_mcnt' \in Nat
          /\ m > cur_mcnt' + N_SPEC_BUFF <=> m - cur_mcnt' > N_SPEC_BUFF
          /\ ~(m < cur_mcnt')
      BY <2>5, <2>7, DistanceAhead
    <3>2. N_SPEC_BUFF \in Nat
      BY <2>5
    <3>3. CASE PassesBlockEnd(offset, m - cur_mcnt')
      <4>1. net_pc' = "roll_tail"
        BY <2>3, <2>7, <3>3
      <4>2. offset + (m - cur_mcnt') \in N_SPEC_BUFF .. 2 * N_SPEC_BUFF - 1
        BY <2>4, <3>1, <3>2, <3>3 DEF PassesBlockEnd
      <4>3. ~(m - cur_mcnt' > N_SPEC_BUFF)
        BY <3>1, <3>2, <3>3 DEF PassesBlockEnd
      <4> QED BY <2>3, <3>1, <4>1, <4>2, <4>3
    <3>4. CASE ~PassesBlockEnd(offset, m - cur_mcnt') /\ ExceedsBlock(m - cur_mcnt')
      BY <2>3, <2>7, <3>1, <3>4 DEF ExceedsBlock
    <3>5. CASE ~PassesBlockEnd(offset, m - cur_mcnt') /\ ~ExceedsBlock(m - cur_mcnt')
      <4>1. net_pc' = "gap"
        BY <2>3, <2>7, <3>5
      <4>2. \/ offset + (m - cur_mcnt') < N_SPEC_BUFF
            \/ m - cur_mcnt' = N_SPEC_BUFF
        BY <2>4, <3>1, <3>2, <3>5 DEF PassesBlockEnd, ExceedsBlock
      <4>3. ~(m - cur_mcnt' > N_SPEC_BUFF)
        BY <3>5 DEF ExceedsBlock
      <4> QED BY <2>3, <3>1, <4>1, <4>2, <4>3
    <3> QED BY <3>3, <3>4, <3>5
  <2>8. m < cur_mcnt' \/ m >= cur_mcnt'
    BY <2>5
  <2> QED BY <2>6, <2>7, <2>8
<1> QED BY <1>1, NetInvariant, PTL DEF NetSpec, ExitIffLargeGap
=============================================================================
