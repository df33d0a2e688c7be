--------------------------- MODULE PipelineProofs ---------------------------
(***************************************************************************)
(* Theorems about the three threads together, for rings and blocks of any  *)
(* size.  The net thread sees only what module NetThread assumes of its    *)
(* reader, and the semaphores alone keep the threads on either side of a   *)
(* ring in step.  The two rings and the gpu thread between them are a      *)
(* first-in first-out buffer of blocks.  The packets between the network   *)
(* and the disk are, without losses, the stream that was sent, and they    *)
(* keep their order whatever is lost.                                      *)
(***************************************************************************)
EXTENDS Pipeline, NetThreadProofs, OutputProofs, SequenceTheorems, FiniteSetTheorems

USE DEF FREE, FILLED, Blank

-----------------------------------------------------------------------------
(* A ring whose filled blocks are exactly the window between its reader    *)
(* and its writer stays so when the writer publishes the block it stands   *)
(* on ...                                                                  *)
LEMMA WindowFill ==
  ASSUME NEW n \in Nat \ {0}, NEW sem \in [0 .. n - 1 -> {FREE, FILLED}],
         NEW r \in 0 .. n - 1, NEW w \in 0 .. n - 1,
         ExactWindow(sem, r, w), sem[w] = FREE
  PROVE  ExactWindow(set_filled(sem, w), r, Following(w, n))
<1>1. Following(w, n) = IF w + 1 = n THEN 0 ELSE w + 1
  BY ModSucc DEF Following
<1>2. /\ DOMAIN sem = 0 .. n - 1
      /\ DOMAIN set_filled(sem, w) = 0 .. n - 1
      /\ \A b \in 0 .. n - 1 :
           set_filled(sem, w)[b] = IF b = w THEN FILLED ELSE sem[b]
  BY DEF set_filled
<1>3. CASE r = w
  <2>1. \A b \in 0 .. n - 1 : sem[b] = FREE
    BY <1>2, <1>3 DEF ExactWindow
  <2>2. CASE n = 1
    BY <1>1, <1>2, <1>3, <2>1, <2>2 DEF ExactWindow
  <2>3. CASE n # 1
    <3>1. Following(w, n) # w
      BY <1>1, <2>3
    <3>2. \A b \in 0 .. n - 1 : set_filled(sem, w)[b] = FILLED <=> InWindow(b, r, Following(w, n))
      <4> TAKE b \in 0 .. n - 1
      <4>1. InWindow(b, r, Following(w, n)) <=> b = w
        BY <1>1, <1>3, <2>3 DEF InWindow
      <4>2. set_filled(sem, w)[b] = FILLED <=> b = w
        BY <1>2, <2>1
      <4> QED BY <4>1, <4>2
    <3>3. r # Following(w, n)
      BY <1>3, <3>1
    <3> QED BY ONLY <1>2, <3>2, <3>3 DEF ExactWindow
  <2> QED BY <2>2, <2>3
<1>4. CASE r # w
  BY <1>1, <1>2, <1>4 DEF ExactWindow, InWindow
<1> QED BY <1>3, <1>4

(* ... and when the reader frees the block it stands on.                   *)
LEMMA WindowFree ==
  ASSUME NEW n \in Nat \ {0}, NEW sem \in [0 .. n - 1 -> {FREE, FILLED}],
         NEW r \in 0 .. n - 1, NEW w \in 0 .. n - 1,
         ExactWindow(sem, r, w), sem[r] = FILLED
  PROVE  ExactWindow(set_free(sem, r), Following(r, n), w)
<1>1. Following(r, n) = IF r + 1 = n THEN 0 ELSE r + 1
  BY ModSucc DEF Following
<1>2. /\ DOMAIN sem = 0 .. n - 1
      /\ DOMAIN set_free(sem, r) = 0 .. n - 1
      /\ \A b \in 0 .. n - 1 :
           set_free(sem, r)[b] = IF b = r THEN FREE ELSE sem[b]
  BY DEF set_free
<1>3. CASE r = w
  <2>1. \A b \in 0 .. n - 1 : sem[b] = FILLED
    BY <1>2, <1>3 DEF ExactWindow
  <2>2. CASE n = 1
    BY <1>1, <1>2, <1>3, <2>1, <2>2 DEF ExactWindow
  <2>3. CASE n # 1
    <3>1. Following(r, n) # r
      BY <1>1, <2>3
    <3>2. \A b \in 0 .. n - 1 : set_free(sem, r)[b] = FILLED <=> InWindow(b, Following(r, n), w)
      <4> TAKE b \in 0 .. n - 1
      <4>1. InWindow(b, Following(r, n), w) <=> b # r
        BY <1>1, <1>3, <2>3 DEF InWindow
      <4>2. set_free(sem, r)[b] = FILLED <=> b # r
        BY <1>2, <2>1
      <4> QED BY <4>1, <4>2
    <3>3. Following(r, n) # w
      BY <1>3, <3>1
    <3> QED BY ONLY <1>2, <3>2, <3>3 DEF ExactWindow
  <2> QED BY <2>2, <2>3
<1>4. CASE r # w
  BY <1>1, <1>2, <1>4 DEF ExactWindow, InWindow
<1> QED BY <1>3, <1>4

-----------------------------------------------------------------------------
(* The other threads do to the net thread's state nothing but free filled  *)
(* input blocks.                                                           *)

(* The gpu thread frees a block only while it holds it.                    *)
GpuHolds ==
  /\ cov_in_idx \in InBlocks
  /\ cov_pc = "free_in" => in_sem[cov_in_idx] = FILLED

LEMMA OutputLeavesNet ==
  ASSUME OutputRuns \/ OutputMoves(OutputWaitError)
  PROVE  UNCHANGED net_vars /\ UNCHANGED cov_private
<1>1. UNCHANGED global_vars
  BY DEF OutputRuns, StoreBlock, OutputElse, OutputMoves, OutputWaitError, FreeOutput,
     TakeBlock, NameDirectory, MakeDirectory, StampFiles, CheckType, FormatName,
     CreateFile, OpenFiles, WriteBeam, WriteCrash, CountBlock, RenameFile
<1> QED BY <1>1 DEF OutputRuns, StoreBlock, OutputElse, OutputMoves, net_vars

LEMMA GpuStepForNet ==
  ASSUME GpuHolds, NetInv, GpuMoves(GpuInternal) \/ GpuMoves(GpuWaitError)
  PROVE  [NetNext]_net_vars
<1>1. CASE GpuFreeInput /\ GpuMoves(GpuInternal)
  <2>1. FreeBlock(cov_in_idx)
    BY <1>1 DEF GpuFreeInput, GpuMoves, FreeBlock, GpuHolds, wait_filled,
       input_vars, global_vars
  <2> QED BY <2>1 DEF GpuHolds, NetNext
<1>2. CASE GpuMoves(GpuProcess \/ GpuCopyOut \/ GpuMarkOut \/ GpuWaitError)
  BY <1>2 DEF GpuMoves, GpuProcess, GpuCopyOut, GpuMarkOut, GpuWaitError, net_vars
<1> QED BY <1>1, <1>2 DEF GpuMoves, GpuInternal

LEMMA GpuHoldsStep ==
  ASSUME NetInv, GpuHolds, [PipelineNext]_vars
  PROVE  GpuHolds'
<1>1. CASE NetMoves(Receive) \/ NetRuns \/ NetMoves(NetWaitError)
  <2>1. UNCHANGED cov_private
    BY <1>1 DEF NetMoves, NetRuns
  <2>2. \A b \in InBlocks : in_sem[b] = FILLED => in_sem'[b] = FILLED
    BY <1>1 DEF NetMoves, NetRuns, Receive, ReceiveExpected, ReceiveUnexpected,
       ParsePacket, NetInternal, CheckFirstTwoBlocks, CopyPacket, MarkBlock,
       ZeroTail, ZeroHead, ZeroGap, NetWaitError, PublishBlock, set_filled,
       input_vars, NetInv, NetTypeOK
  <2> QED BY <2>1, <2>2 DEF GpuHolds, cov_private
<1>2. CASE GpuRuns \/ GpuMoves(GpuWaitError)
  <2>1. Following(cov_in_idx, N_INPUT_BLOCKS) \in InBlocks
    BY FollowingInRing DEF GpuHolds
  <2> QED BY <1>2, <2>1
          DEF GpuRuns, GpuMoves, GpuInternal, GpuProcess, GpuFreeInput, GpuCopyOut,
              GpuMarkOut, GpuWaitError, GpuMayTake, wait_filled, GpuHolds, input_vars
<1>3. CASE OutputRuns \/ OutputMoves(OutputWaitError)
  BY <1>3, OutputLeavesNet DEF GpuHolds, net_vars, input_vars, cov_private
<1>4. CASE Idle \/ UNCHANGED vars
  BY <1>4 DEF Idle, vars, GpuHolds, input_vars, cov_private
<1> QED BY <1>1, <1>2, <1>3, <1>4 DEF PipelineNext

LEMMA PipelineStepForNet ==
  ASSUME NetInv, GpuHolds, [PipelineNext]_vars
  PROVE  [NetNext]_net_vars
<1>1. CASE NetMoves(Receive) \/ NetRuns \/ NetMoves(NetWaitError)
  BY <1>1 DEF NetMoves, NetRuns, NetNext, NetStep
<1>2. CASE GpuRuns \/ GpuMoves(GpuWaitError)
  BY <1>2, GpuStepForNet DEF GpuRuns
<1>3. CASE OutputRuns \/ OutputMoves(OutputWaitError)
  BY <1>3, OutputLeavesNet
<1>4. CASE Idle \/ UNCHANGED vars
  BY <1>4 DEF Idle, vars, net_vars
<1> QED BY <1>1, <1>2, <1>3, <1>4 DEF PipelineNext

LEMMA PipelineNetInvariant == PipelineSpec => [](NetInv /\ GpuHolds)
<1>1. PipelineInit => NetInv /\ GpuHolds
  <2>1. PipelineInit => NetInit /\ GpuInit
    BY DEF PipelineInit
  <2>2. GpuInit => GpuHolds
    BY Constants DEF GpuInit, GpuHolds, InBlocks
  <2> QED BY <2>1, <2>2, NetInitInv
<1>2. NetInv /\ GpuHolds /\ [PipelineNext]_vars => (NetInv /\ GpuHolds)'
  BY GpuHoldsStep, PipelineStepForNet, NetNextInv
<1> QED BY <1>1, <1>2, PTL DEF PipelineSpec

(* The net thread in the pipeline behaves as in module NetThread, where    *)
(* its reader may free any filled block at any moment: everything proved   *)
(* there holds here.                                                       *)
THEOREM PipelineRefinesNet == PipelineSpec => ImplementsNetSpec
<1>1. PipelineInit => NetInit
  BY DEF PipelineInit
<1>2. NetInv /\ GpuHolds /\ [PipelineNext]_vars => [NetNext]_net_vars
  BY PipelineStepForNet
<1> QED BY <1>1, <1>2, PipelineNetInvariant, PTL DEF PipelineSpec, NetSpec,
           ImplementsNetSpec

-----------------------------------------------------------------------------
(* The rings.                                                              *)

(* The inductive invariant: both rings hold exactly the window between     *)
(* their two threads, and a thread that has been given a block still has   *)
(* it.                                                                     *)
RingInv ==
  /\ cov_in_idx \in InBlocks
  /\ cov_out_idx \in OutBlocks
  /\ file_idx \in OutBlocks
  /\ out_sem \in [OutBlocks -> {FREE, FILLED}]
  /\ InputWindow
  /\ OutputWindow
  /\ ReadersOwn

LEMMA RingConstants == N_INPUT_BLOCKS \in Nat \ {0} /\ N_OUTPUT_BLOCKS \in Nat \ {0}
BY InputBlocksAssumption, OutputBlocksAssumption

LEMMA RingInit == PipelineInit => RingInv
<1> SUFFICES ASSUME PipelineInit PROVE RingInv
  OBVIOUS
<1>1. /\ in_sem = [b \in InBlocks |-> FREE] /\ net_idx = 0 /\ cov_in_idx = 0
      /\ out_sem = [b \in OutBlocks |-> FREE] /\ cov_out_idx = 0 /\ file_idx = 0
      /\ cov_pc = "wait_in" /\ out_pc = "wait"
  BY DEF PipelineInit, NetInit, GpuInit, OutputInit, TL_input_databuf_create,
     TL_output_databuf_create
<1>2. 0 \in InBlocks /\ 0 \in OutBlocks
  BY RingConstants DEF InBlocks, OutBlocks
<1>3. InputWindow /\ OutputWindow
  BY <1>1 DEF InputWindow, OutputWindow, ExactWindow
<1>4. ReadersOwn
  BY <1>1 DEF ReadersOwn
<1> QED BY <1>1, <1>2, <1>3, <1>4 DEF RingInv

(* The net thread touches the semaphores only to publish the block it      *)
(* stands on, which is free, and moves on as it does so.                   *)
LEMMA NetPublishes ==
  ASSUME NetInv, NetStep
  PROVE  \/ UNCHANGED <<in_sem, net_idx>>
         \/ /\ in_sem[net_idx] = FREE
            /\ in_sem' = set_filled(in_sem, net_idx)
            /\ net_idx' = Following(net_idx, N_INPUT_BLOCKS)
<1>1. CASE MarkBlock
  <2>1. in_sem[net_idx] = FREE
    BY <1>1, Constants DEF MarkBlock, NetInv, NetControl, CurrentBlockFree
  <2> QED BY <1>1, <2>1 DEF MarkBlock, PublishBlock
<1>2. CASE ZeroTail
  BY <1>2 DEF ZeroTail, PublishBlock, NetMayWrite, wait_free
<1>3. CASE CheckFirstTwoBlocks \/ CopyPacket \/ ZeroHead \/ ZeroGap \/ NetWaitError
  BY <1>3 DEF CheckFirstTwoBlocks, CopyPacket, ZeroHead, ZeroGap, NetWaitError,
     input_vars
<1>4. CASE Receive
  BY <1>4 DEF Receive, ReceiveExpected, ReceiveUnexpected, ParsePacket, input_vars
<1> QED BY <1>1, <1>2, <1>3, <1>4 DEF NetStep, NetInternal

LEMMA RingNext ==
  ASSUME NetInv, RingInv, [PipelineNext]_vars
  PROVE  RingInv'
<1> USE RingConstants
<1>1. CASE NetMoves(Receive) \/ NetRuns \/ NetMoves(NetWaitError)
  <2>1. NetStep /\ UNCHANGED <<output_vars, cov_private, out_private>>
    BY <1>1 DEF NetMoves, NetRuns, NetStep
  <2>2. net_idx \in InBlocks /\ in_sem \in [InBlocks -> {FREE, FILLED}]
    BY DEF NetInv, NetTypeOK
  <2>3. InputWindow'
    <3>1. CASE UNCHANGED <<in_sem, net_idx>>
      BY <2>1, <3>1 DEF RingInv, InputWindow, cov_private
    <3>2. CASE /\ in_sem[net_idx] = FREE
               /\ in_sem' = set_filled(in_sem, net_idx)
               /\ net_idx' = Following(net_idx, N_INPUT_BLOCKS)
      BY <2>1, <2>2, <3>2, WindowFill DEF RingInv, InputWindow, cov_private, InBlocks
    <3> QED BY <2>1, <3>1, <3>2, NetPublishes
  <2>4. \A b \in InBlocks : in_sem[b] = FILLED => in_sem'[b] = FILLED
    BY <2>1, <2>2, NetPublishes DEF set_filled
  <2>5. ReadersOwn'
    BY <2>1, <2>4 DEF RingInv, ReadersOwn, output_vars, cov_private, out_private
  <2> QED BY <2>1, <2>3, <2>5
          DEF RingInv, OutputWindow, output_vars, cov_private, out_private
<1>2. CASE GpuRuns \/ GpuMoves(GpuWaitError)
  <2>1. UNCHANGED <<net_idx, file_idx, out_pc>>
    BY <1>2 DEF GpuRuns, GpuMoves, net_private, out_private
  <2>2. CASE GpuProcess \/ GpuCopyOut \/ GpuWaitError
    BY <2>1, <2>2 DEF GpuProcess, GpuCopyOut, GpuWaitError, GpuMayTake, GpuMayWrite,
       wait_filled, wait_free, RingInv, ReadersOwn, InputWindow, OutputWindow,
       input_vars, output_vars
  <2>3. CASE GpuFreeInput
    <3>1. InputWindow'
      BY <2>1, <2>3, WindowFree
      DEF GpuFreeInput, RingInv, ReadersOwn, InputWindow, NetInv, NetTypeOK, InBlocks
    <3> QED BY <2>1, <2>3, <3>1, FollowingInRing
            DEF GpuFreeInput, RingInv, ReadersOwn, OutputWindow, output_vars
  <2>4. CASE GpuMarkOut
    <3>1. OutputWindow'
      BY <2>1, <2>4, WindowFill
      DEF GpuMarkOut, RingInv, ReadersOwn, OutputWindow, OutBlocks
    <3>2. out_sem' \in [OutBlocks -> {FREE, FILLED}] /\ cov_out_idx' \in OutBlocks
      BY <2>4, FollowingOutput DEF GpuMarkOut, RingInv, set_filled
    <3>3. ReadersOwn'
      BY <2>1, <2>4 DEF GpuMarkOut, RingInv, ReadersOwn, set_filled
    <3> QED BY <2>1, <2>4, <3>1, <3>2, <3>3
            DEF GpuMarkOut, RingInv, InputWindow, input_vars
  <2> QED BY <1>2, <2>2, <2>3, <2>4 DEF GpuRuns, GpuMoves, GpuInternal
<1>3. CASE OutputRuns \/ OutputMoves(OutputWaitError)
  <2>1. UNCHANGED net_vars /\ UNCHANGED cov_private
    BY <1>3, OutputLeavesNet
  <2>2. InputWindow'
    BY <2>1 DEF RingInv, InputWindow, net_vars, input_vars, net_private, cov_private
  <2>3. CASE FreeOutput
    <3>1. OutputWindow'
      BY <2>1, <2>3, WindowFree
      DEF FreeOutput, RingInv, ReadersOwn, OutputWindow, OutBlocks, cov_private
    <3>2. out_sem' \in [OutBlocks -> {FREE, FILLED}] /\ file_idx' \in OutBlocks
      BY <2>3, FollowingOutput DEF FreeOutput, RingInv, set_free
    <3>3. ReadersOwn'
      BY <2>1, <2>3 DEF FreeOutput, RingInv, ReadersOwn, set_free, net_vars,
         input_vars, cov_private
    <3> QED BY <2>1, <2>2, <3>1, <3>2, <3>3 DEF RingInv, cov_private
  <2>4. CASE \/ TakeBlock \/ NameDirectory \/ MakeDirectory \/ StampFiles \/ CheckType
             \/ FormatName \/ CreateFile \/ OpenFiles \/ WriteBeam \/ WriteCrash \/ CountBlock \/ RenameFile \/ OutputWaitError
    <3>1. UNCHANGED <<out_sem, file_idx>>
      BY <2>4 DEF TakeBlock, NameDirectory, MakeDirectory, StampFiles, CheckType,
         FormatName, CreateFile, OpenFiles, WriteBeam, WriteCrash, CountBlock, RenameFile,
         OutputWaitError, output_vars
    <3>2. out_pc' \notin {"wait", "exited"} => out_sem[file_idx] = FILLED
      BY <2>4 DEF TakeBlock, NameDirectory, MakeDirectory, StampFiles, CheckType,
         FormatName, CreateFile, OpenFiles, WriteBeam, WriteCrash, CountBlock, RenameFile,
         OutputWaitError, OutMayTake, wait_filled, RingInv, ReadersOwn
    <3> QED BY <2>1, <2>2, <3>1, <3>2
            DEF RingInv, ReadersOwn, OutputWindow, net_vars, input_vars, cov_private
  <2> QED BY <1>3, <2>3, <2>4
          DEF OutputRuns, StoreBlock, OutputElse, OutputMoves
<1>4. CASE Idle \/ UNCHANGED vars
  BY <1>4 DEF Idle, vars, RingInv, ReadersOwn, InputWindow, OutputWindow, input_vars,
     output_vars, net_private, cov_private, out_private
<1> QED BY <1>1, <1>2, <1>3, <1>4 DEF PipelineNext

LEMMA RingInvariant == PipelineSpec => []RingInv
<1>1. NetInv /\ RingInv /\ [PipelineNext]_vars => RingInv'
  BY RingNext
<1> QED BY <1>1, RingInit, PipelineNetInvariant, PTL DEF PipelineSpec

(* However many blocks there are and however the threads are scheduled,    *)
(* the filled blocks of the input ring are exactly those from the gpu      *)
(* thread's position to the net thread's.                                  *)
THEOREM InputRingExact == PipelineSpec => []InputWindow
BY RingInvariant, PTL DEF RingInv

(* The same of the output ring, between the gpu and the output thread.     *)
THEOREM OutputRingExact == PipelineSpec => []OutputWindow
BY RingInvariant, PTL DEF RingInv

(* No thread works on a block another thread may take away.                *)
THEOREM BlocksAreOwned == PipelineSpec => []ReadersOwn
BY RingInvariant, PTL DEF RingInv

-----------------------------------------------------------------------------
(* Types.                                                                  *)

(* What the type invariant of the pipeline says beyond the net thread's.   *)
RestTypeOK ==
  /\ GpuTypeOK
  /\ OutputTypeOK
  /\ out_netmcnt \in [OutBlocks -> Mcnts]
  /\ out_data \in [OutBlocks -> [Slots -> Mcnts \cup {Blank, Garbage}]]

LEMMA RestTypeInit == PipelineInit => RestTypeOK
<1> SUFFICES ASSUME PipelineInit PROVE RestTypeOK
  OBVIOUS
<1>1. 0 \in InBlocks /\ 0 \in OutBlocks /\ 0 \in Mcnts
  BY Constants, OutputConstants DEF InBlocks, OutBlocks, Mcnts
<1>2. GpuTypeOK
  BY <1>1 DEF PipelineInit, GpuInit, GpuTypeOK
<1>3. OutputTypeOK
  BY OutputTypeInit DEF PipelineInit
<1>4. /\ out_netmcnt \in [OutBlocks -> Mcnts]
      /\ out_data \in [OutBlocks -> [Slots -> Mcnts \cup {Blank, Garbage}]]
  BY <1>1 DEF PipelineInit, TL_output_databuf_create
<1> QED BY <1>2, <1>3, <1>4 DEF RestTypeOK

LEMMA RestTypeNext ==
  ASSUME NetInv, RestTypeOK, [PipelineNext]_vars
  PROVE  RestTypeOK'
<1>1. CASE NetMoves(Receive) \/ NetRuns \/ NetMoves(NetWaitError) \/ Idle \/ UNCHANGED vars
  <2>1. UNCHANGED <<output_vars, cov_private, out_private, fs_vars>>
    BY <1>1 DEF NetMoves, NetRuns, Idle, vars
  <2> QED BY <2>1 DEF RestTypeOK, GpuTypeOK, OutputTypeOK, output_vars,
             cov_private, out_private, fs_vars
<1>2. CASE GpuRuns \/ GpuMoves(GpuWaitError)
  <2>1. UNCHANGED <<out_private, fs_vars>>
    BY <1>2 DEF GpuRuns, GpuMoves
  <2>2. OutputTypeOK'
    BY <2>1 DEF RestTypeOK, OutputTypeOK, out_private, fs_vars
  <2>3. CASE GpuProcess
    <3>1. in_data[cov_in_idx] \in [Slots -> Mcnts \cup {Blank, Garbage}]
      <4>1. in_data[cov_in_idx] \in [Slots -> Mcnts \cup {Blank}]
        BY DEF NetInv, NetTypeOK, RestTypeOK, GpuTypeOK
      <4> QED BY <4>1
    <3>2. cov_data' \in [Slots -> Mcnts \cup {Blank, Garbage}]
      BY <2>3, <3>1 DEF GpuProcess, polarization_process, RestTypeOK, GpuTypeOK
    <3> QED BY <2>2, <2>3, <3>2 DEF GpuProcess, RestTypeOK, GpuTypeOK, output_vars
  <2>4. CASE GpuFreeInput
    <3>1. Following(cov_in_idx, N_INPUT_BLOCKS) \in InBlocks /\ in_netmcnt[cov_in_idx] \in Mcnts
      BY FollowingInRing DEF RestTypeOK, GpuTypeOK, NetInv, NetTypeOK
    <3> QED BY <2>2, <2>4, <3>1 DEF GpuFreeInput, RestTypeOK, GpuTypeOK, output_vars
  <2>5. CASE GpuCopyOut
    BY <2>2, <2>5 DEF GpuCopyOut, RestTypeOK, GpuTypeOK
  <2>6. CASE GpuMarkOut
    <3>1. Following(cov_out_idx, N_OUTPUT_BLOCKS) \in OutBlocks
      BY FollowingOutput DEF RestTypeOK, GpuTypeOK
    <3> QED BY <2>2, <2>6, <3>1 DEF GpuMarkOut, RestTypeOK, GpuTypeOK
  <2>7. CASE GpuWaitError
    BY <2>2, <2>7 DEF GpuWaitError, RestTypeOK, GpuTypeOK, output_vars
  <2> QED BY <1>2, <2>3, <2>4, <2>5, <2>6, <2>7 DEF GpuRuns, GpuMoves, GpuInternal
<1>3. CASE OutputRuns \/ OutputMoves(OutputWaitError)
  <2>1. UNCHANGED net_vars /\ UNCHANGED cov_private
    BY <1>3, OutputLeavesNet
  <2>2. OutputInternal \/ OutputWaitError
    BY <1>3 DEF OutputRuns, StoreBlock, OutputElse, OutputMoves, OutputInternal
  <2>3. OutputTypeOK'
    BY <2>2, OutputTypeStep DEF NetInv, NetTypeOK, RestTypeOK
  <2>4. UNCHANGED <<out_netmcnt, out_data>>
    BY <2>2 DEF OutputInternal, TakeBlock, NameDirectory, MakeDirectory, StampFiles,
       CheckType, FormatName, CreateFile, OpenFiles, WriteBeam, WriteCrash, CountBlock,
       RenameFile, FreeOutput, OutputWaitError, output_vars
  <2> QED BY <2>1, <2>3, <2>4 DEF RestTypeOK, GpuTypeOK, cov_private
<1> QED BY <1>1, <1>2, <1>3 DEF PipelineNext

LEMMA RestTypeInvariant == PipelineSpec => []RestTypeOK
<1>1. NetInv /\ RestTypeOK /\ [PipelineNext]_vars => RestTypeOK'
  BY RestTypeNext
<1> QED BY <1>1, RestTypeInit, PipelineNetInvariant, PTL DEF PipelineSpec

(* Every variable of the three threads and of both rings keeps its range;  *)
(* in particular every path on the disk has its directory.                 *)
THEOREM PipelineTypeCorrect == PipelineSpec => []PipelineTypeOK
<1>1. NetInv /\ RingInv /\ RestTypeOK => PipelineTypeOK
  BY DEF NetInv, RingInv, RestTypeOK, PipelineTypeOK
<1> QED BY <1>1, PipelineNetInvariant, RingInvariant, RestTypeInvariant, PTL
-----------------------------------------------------------------------------
(* The streams.                                                            *)

(* Before the first packet nothing is in the rings, and the other threads  *)
(* have never had a block.                                                 *)
StartInv ==
  ~start_file =>
    /\ total_packets_counted = 0
    /\ net_pc \in {"check0", "check1", "recv", "exited"}
    /\ \A b \in InBlocks : in_sem[b] = FREE
    /\ cov_pc \in {"wait_in", "exited"}
    /\ \A b \in OutBlocks : out_sem[b] = FREE
    /\ out_pc \in {"wait", "exited"}

LEMMA StartNext ==
  ASSUME RestTypeOK, StartInv, [PipelineNext]_vars
  PROVE  StartInv'
<1>1. CASE start_file
  <2>1. start_file'
    BY <1>1 DEF PipelineNext, NetMoves, NetRuns, GpuRuns, GpuMoves, OutputRuns,
       StoreBlock, OutputElse, OutputMoves, Idle, vars, Receive, ReceiveExpected,
       ReceiveUnexpected, ParsePacket, NetInternal, CheckFirstTwoBlocks, CopyPacket,
       MarkBlock, ZeroTail, ZeroHead, ZeroGap, NetWaitError, GpuInternal, GpuProcess,
       GpuFreeInput, GpuCopyOut, GpuMarkOut, GpuWaitError, TakeBlock, NameDirectory,
       MakeDirectory, StampFiles, CheckType, FormatName, CreateFile, OpenFiles, WriteBeam,
       WriteCrash, CountBlock, RenameFile, FreeOutput, OutputWaitError, global_vars
  <2> QED BY <2>1 DEF StartInv
<1>2. CASE ~start_file
  <2>1. /\ cov_in_idx \in InBlocks /\ file_idx \in OutBlocks
        /\ total_packets_counted = 0
        /\ net_pc \in {"check0", "check1", "recv", "exited"}
        /\ \A b \in InBlocks : in_sem[b] = FREE
        /\ cov_pc \in {"wait_in", "exited"}
        /\ \A b \in OutBlocks : out_sem[b] = FREE
        /\ out_pc \in {"wait", "exited"}
    BY <1>2 DEF StartInv, RestTypeOK, GpuTypeOK, OutputTypeOK
  <2>2. CASE NetMoves(Receive)
    <3>1. start_file'
      BY <2>1, <2>2 DEF NetMoves, Receive, ReceiveExpected, ReceiveUnexpected, ParsePacket
    <3> QED BY <3>1 DEF StartInv
  <2>3. CASE NetRuns \/ NetMoves(NetWaitError)
    BY <2>1, <2>3 DEF NetRuns, NetMoves, NetInternal, CheckFirstTwoBlocks, CopyPacket,
       MarkBlock, ZeroTail, ZeroHead, ZeroGap, NetWaitError, StartInv, input_vars,
       output_vars, cov_private, out_private
  <2>4. CASE GpuRuns \/ GpuMoves(GpuWaitError)
    BY <2>1, <2>4 DEF GpuRuns, GpuMoves, GpuInternal, GpuProcess, GpuFreeInput,
       GpuCopyOut, GpuMarkOut, GpuWaitError, GpuMayTake, wait_filled, StartInv,
       input_vars, output_vars, net_private, out_private
  <2>5. CASE OutputRuns \/ OutputMoves(OutputWaitError)
    BY <2>1, <2>5 DEF OutputRuns, StoreBlock, OutputElse, OutputMoves, TakeBlock,
       NameDirectory, MakeDirectory, StampFiles, CheckType, FormatName, CreateFile,
       OpenFiles, WriteBeam, WriteCrash, CountBlock, RenameFile, FreeOutput,
       OutputWaitError, OutMayTake, wait_filled, StartInv, input_vars, output_vars,
       net_private, cov_private
  <2>6. CASE Idle \/ UNCHANGED vars
    BY <2>1, <2>6 DEF Idle, vars, StartInv, input_vars, output_vars, net_private,
       cov_private, out_private
  <2> QED BY <2>2, <2>3, <2>4, <2>5, <2>6 DEF PipelineNext
<1> QED BY <1>1, <1>2

LEMMA StartInvariant == PipelineSpec => []StartInv
<1>1. PipelineInit => StartInv
  BY DEF PipelineInit, NetInit, GpuInit, OutputInit, TL_input_databuf_create,
     TL_output_databuf_create, StartInv
<1>2. RestTypeOK /\ StartInv /\ [PipelineNext]_vars => StartInv'
  BY StartNext
<1> QED BY <1>1, <1>2, RestTypeInvariant, PTL DEF PipelineSpec

(* With packets of data_type 0 only, the names are always formatted.       *)
StreamInv == data_type = 0 /\ OpenInv

LEMMA StreamNext ==
  ASSUME SourceTypes \subseteq {0}, RestTypeOK, StartInv, StreamInv, [PipelineNext]_vars
  PROVE  StreamInv'
<1>1. CASE NetMoves(Receive)
  <2>1. PICK m \in Arrivals, s \in SourceTypes, g \in BeamGroups : ParsePacket(m, s, g)
    BY <1>1 DEF NetMoves, Receive, ReceiveExpected, ReceiveUnexpected
  <2>2. UNCHANGED <<out_private, fs_vars>>
    BY <1>1 DEF NetMoves
  <2> QED BY <2>1, <2>2 DEF ParsePacket, StreamInv, OpenInv, NameStands, out_private, fs_vars
<1>2. CASE NetRuns \/ NetMoves(NetWaitError) \/ Idle \/ UNCHANGED vars
  <2>1. UNCHANGED <<global_vars, out_private, fs_vars>>
    BY <1>2 DEF NetRuns, NetMoves, NetInternal, CheckFirstTwoBlocks, CopyPacket,
       MarkBlock, ZeroTail, ZeroHead, ZeroGap, NetWaitError, Idle, vars
  <2> QED BY <2>1 DEF StreamInv, OpenInv, NameStands, global_vars, out_private, fs_vars
<1>3. CASE GpuRuns \/ GpuMoves(GpuWaitError)
  <2>1. UNCHANGED <<global_vars, out_private, fs_vars>>
    BY <1>3 DEF GpuRuns, GpuMoves, GpuInternal, GpuProcess, GpuFreeInput, GpuCopyOut,
       GpuMarkOut, GpuWaitError
  <2> QED BY <2>1 DEF StreamInv, OpenInv, NameStands, global_vars, out_private, fs_vars
<1>4. CASE OutputRuns \/ OutputMoves(OutputWaitError)
  <2>1. OutputInternal \/ OutputWaitError
    BY <1>4 DEF OutputRuns, StoreBlock, OutputElse, OutputMoves, OutputInternal
  <2>2. UNCHANGED global_vars
    BY <1>4, OutputLeavesNet DEF net_vars
  <2>3. OpenInv'
    <3>1. CASE start_file
      BY <2>1, <3>1, OpenStep DEF StreamInv, RestTypeOK
    <3>2. CASE ~start_file
      <4>1. file_idx \in OutBlocks
        BY DEF RestTypeOK, OutputTypeOK
      <4>2. OutputWaitError
        BY <2>1, <3>2, <4>1 DEF StartInv, OutputInternal, TakeBlock, NameDirectory,
           MakeDirectory, StampFiles, CheckType, FormatName, CreateFile, OpenFiles,
           WriteBeam, WriteCrash, CountBlock, RenameFile, FreeOutput, OutMayTake,
           wait_filled
      <4> QED BY <4>2 DEF OutputWaitError, StreamInv, OpenInv, NameStands, fs_vars
    <3> QED BY <3>1, <3>2
  <2> QED BY <2>2, <2>3 DEF StreamInv, global_vars
<1> QED BY <1>1, <1>2, <1>3, <1>4 DEF PipelineNext

LEMMA StreamInvariant ==
  ASSUME SourceTypes \subseteq {0}
  PROVE  PipelineSpec => []StreamInv
<1>1. PipelineInit => StreamInv
  BY DEF PipelineInit, NetInit, GlobalsInit, OutputInit, StreamInv, OpenInv
<1>2. RestTypeOK /\ StartInv /\ StreamInv /\ [PipelineNext]_vars => StreamInv'
  BY StreamNext
<1> QED BY <1>1, <1>2, RestTypeInvariant, StartInvariant, PTL DEF PipelineSpec

(* The output thread never writes to a stream that is not open, which would*)
(* end the process, and never before the first packet: the variables it    *)
(* reads without a lock are set before the first block reaches it.  (With  *)
(* packets of data_type 1 the names are never formatted.)                  *)
THEOREM StreamsOpen ==
  ASSUME SourceTypes \subseteq {0}
  PROVE  PipelineSpec => []StreamOpenAtWrite
<1>1. StartInv /\ StreamInv => StreamOpenAtWrite
  BY DEF StartInv, StreamInv, OpenInv, StreamOpenAtWrite
<1> QED BY <1>1, StartInvariant, StreamInvariant, PTL

-----------------------------------------------------------------------------
(* A ring whose filled blocks are exactly a window, as a sequence.         *)

Filled(sem) == {b \in DOMAIN sem : sem[b] = FILLED}

(* Twice round a ring at most.                                             *)
LEMMA ModTwice ==
  ASSUME NEW n \in Nat \ {0}, NEW x \in 0 .. 2 * n - 1
  PROVE  x % n = IF x < n THEN x ELSE x - n
OBVIOUS

(* The number of filled blocks is the distance from the reader to the      *)
(* writer.                                                                 *)
Distance(sem, r, w, n) ==
  IF r = w THEN IF sem[r] = FREE THEN 0 ELSE n
  ELSE IF r < w THEN w - r ELSE n - r + w

LEMMA RingLength ==
  ASSUME NEW n \in Nat \ {0}, NEW sem \in [0 .. n - 1 -> {FREE, FILLED}],
         NEW r \in 0 .. n - 1, NEW w \in 0 .. n - 1, ExactWindow(sem, r, w)
  PROVE  /\ IsFiniteSet(Filled(sem))
         /\ Cardinality(Filled(sem)) = Distance(sem, r, w, n)
<1>1. DOMAIN sem = 0 .. n - 1
  OBVIOUS
<1>2. CASE r = w /\ sem[r] = FREE
  <2>1. Filled(sem) = {}
    BY <1>1, <1>2 DEF Filled, ExactWindow
  <2> QED BY <1>2, <2>1, FS_EmptySet DEF Distance
<1>3. CASE r = w /\ sem[r] # FREE
  <2>1. Filled(sem) = 0 .. n - 1
    BY <1>1, <1>3 DEF Filled, ExactWindow
  <2> QED BY <1>3, <2>1, FS_Interval DEF Distance
<1>4. CASE r < w
  <2>1. Filled(sem) = r .. w - 1
    BY <1>1, <1>4 DEF Filled, ExactWindow, InWindow
  <2> QED BY <1>4, <2>1, FS_Interval DEF Distance
<1>5. CASE r > w
  <2> DEFINE upper == r .. n - 1
             lower == 0 .. w - 1
  <2>1. Filled(sem) = upper \cup lower
    BY <1>1, <1>5 DEF Filled, ExactWindow, InWindow
  <2>2. upper \cap lower = {}
    BY <1>5
  <2>3. /\ IsFiniteSet(upper) /\ Cardinality(upper) = n - r
        /\ IsFiniteSet(lower) /\ Cardinality(lower) = w
    <3>1. r \in Int /\ n - 1 \in Int /\ ~(r > n - 1) /\ (n - 1) - r + 1 = n - r
      OBVIOUS
    <3>2. IsFiniteSet(upper) /\ Cardinality(upper) = n - r
      BY ONLY <3>1, FS_Interval
    <3>3. IsFiniteSet(lower) /\ Cardinality(lower) = w
      <4>1. 0 \in Int /\ w - 1 \in Int
        OBVIOUS
      <4>2. /\ IsFiniteSet(0 .. w - 1)
            /\ Cardinality(0 .. w - 1) = IF 0 > w - 1 THEN 0 ELSE (w - 1) - 0 + 1
        BY ONLY <4>1, FS_Interval
      <4> QED BY <4>2
    <3> QED BY <3>2, <3>3
  <2>4. Cardinality(upper \cap lower) = 0
    BY <2>2, FS_EmptySet
  <2> HIDE DEF upper, lower
  <2>5. IsFiniteSet(Filled(sem)) /\ Cardinality(Filled(sem)) = (n - r) + w - 0
    BY <2>1, <2>3, <2>4, FS_Union
  <2> QED BY <1>5, <2>5 DEF Distance
<1> QED BY <1>2, <1>3, <1>4, <1>5

(* The blocks in the order of the sequence are filled, and the one after   *)
(* them is the writer's.                                                   *)
Placed(sem, r, w, n, k) ==
  /\ k \in 0 .. n
  /\ \A i \in 1 .. k : /\ (r + i - 1) % n \in 0 .. n - 1
                       /\ sem[(r + i - 1) % n] = FILLED
  /\ sem[w] = FREE => k < n /\ (r + (k + 1) - 1) % n = w
  /\ sem[r] = FILLED => k > 0 /\ (r + 1 - 1) % n = r

LEMMA RingPlaces ==
  ASSUME NEW n \in Nat \ {0}, NEW sem \in [0 .. n - 1 -> {FREE, FILLED}],
         NEW r \in 0 .. n - 1, NEW w \in 0 .. n - 1, ExactWindow(sem, r, w)
  PROVE  Placed(sem, r, w, n, Cardinality(Filled(sem)))
<1> DEFINE k == Cardinality(Filled(sem))
<1>0. k = Distance(sem, r, w, n)
  BY RingLength
<1> HIDE DEF k
<1>1. k = IF r = w THEN IF sem[r] = FREE THEN 0 ELSE n
          ELSE IF r < w THEN w - r ELSE n - r + w
  BY <1>0 DEF Distance
<1>2. k \in 0 .. n
  BY <1>1
<1>3. ASSUME NEW i \in 1 .. k
      PROVE  /\ (r + i - 1) % n \in 0 .. n - 1
             /\ sem[(r + i - 1) % n] = FILLED
  <2> DEFINE x == r + i - 1
  <2>1. x \in 0 .. 2 * n - 1 /\ x \in Int
    BY <1>2, <1>3
  <2>2. x % n = IF x < n THEN x ELSE x - n
    BY <2>1, ModTwice
  <2>3. x % n \in 0 .. n - 1
    BY <2>1, <2>2
  <2>4. sem[x % n] = FILLED
    <3>1. CASE r = w
      BY <1>1, <1>3, <2>3, <3>1 DEF ExactWindow
    <3>2. CASE r # w
      <4>1. InWindow(x % n, r, w)
        BY <1>1, <1>3, <2>1, <2>2, <3>2 DEF InWindow
      <4> QED BY <2>3, <3>2, <4>1 DEF ExactWindow
    <3> QED BY <3>1, <3>2
  <2> QED BY <2>3, <2>4
<1>4. ASSUME sem[w] = FREE
      PROVE  k < n /\ (r + (k + 1) - 1) % n = w
  <2>1. k < n /\ (r + k = w \/ r + k = w + n)
    BY <1>1, <1>4
  <2> DEFINE x == r + (k + 1) - 1
  <2>2. x \in 0 .. 2 * n - 1 /\ (x = w \/ x = w + n)
    BY <1>2, <2>1
  <2> HIDE DEF x
  <2>3. x % n = IF x < n THEN x ELSE x - n
    BY <2>2, ModTwice
  <2>4. x % n = w
    BY <2>2, <2>3
  <2> QED BY <2>1, <2>4 DEF x
<1>5. ASSUME sem[r] = FILLED
      PROVE  k > 0 /\ (r + 1 - 1) % n = r
  <2>1. k > 0
    BY <1>1, <1>5 DEF ExactWindow
  <2>2. r + 1 - 1 = r /\ r % n = r
    BY ModId
  <2> QED BY <2>1, <2>2
<1> QED BY <1>2, <1>3, <1>4, <1>5 DEF Placed, k

BlockSet == [netmcnt : Mcnts, data : [Slots -> Mcnts \cup {Blank, Garbage}]]

(* The sequence, place by place.                                           *)
BlockAt(netmcnt, data, b) == [netmcnt |-> netmcnt[b], data |-> data[b]]

Typed(n, netmcnt, data) == \A b \in 0 .. n - 1 : BlockAt(netmcnt, data, b) \in BlockSet

SameFilled(n, sem, netmcnt, data, netmcnt2, data2) ==
  \A b \in 0 .. n - 1 : sem[b] = FILLED => netmcnt2[b] = netmcnt[b] /\ data2[b] = data[b]

Ring(n, sem, r, w) ==
  /\ n \in Nat \ {0}
  /\ sem \in [0 .. n - 1 -> {FREE, FILLED}]
  /\ r \in 0 .. n - 1
  /\ w \in 0 .. n - 1
  /\ ExactWindow(sem, r, w)

IsRing(q, sem, netmcnt, data, r, n) ==
  /\ q \in Seq(BlockSet)
  /\ Len(q) = Cardinality(Filled(sem))
  /\ \A i \in 1 .. Len(q) : q[i] = BlockAt(netmcnt, data, (r + i - 1) % n)

LEMMA RingSeqIs ==
  ASSUME NEW n, NEW sem, NEW r, NEW w, Ring(n, sem, r, w),
         NEW netmcnt, NEW data,
         Typed(n, netmcnt, data)
  PROVE  IsRing(RingSeq(sem, netmcnt, data, r, n), sem, netmcnt, data, r, n)
<1> USE DEF Ring, Typed, SameFilled
<1> DEFINE k == Cardinality(Filled(sem))
           q == RingSeq(sem, netmcnt, data, r, n)
<1>1. k \in Nat /\ \A i \in 1 .. k : (r + i - 1) % n \in 0 .. n - 1
  <2>1. Placed(sem, r, w, n, k)
    BY RingPlaces
  <2> QED BY <2>1 DEF Placed
<1>2. q = [i \in 1 .. k |-> BlockAt(netmcnt, data, (r + i - 1) % n)]
  BY DEF RingSeq, Filled, BlockAt
<1> HIDE DEF q
<1>3. IsRing(q, sem, netmcnt, data, r, n) <=>
        q \in Seq(BlockSet) /\ Len(q) = k /\ \A i \in 1 .. Len(q) : q[i] = BlockAt(netmcnt, data, (r + i - 1) % n)
  BY DEF IsRing
<1> HIDE DEF k
<1>4. q \in [1 .. k -> BlockSet]
  BY <1>1, <1>2
<1>5. q \in Seq(BlockSet) /\ Len(q) = k
  BY <1>1, <1>4
<1>6. IsRing(q, sem, netmcnt, data, r, n)
  BY <1>2, <1>3, <1>5
<1> QED BY <1>6 DEF q

(* Writing to blocks that are not filled changes nothing.                  *)
LEMMA RingSame ==
  ASSUME NEW n, NEW sem, NEW r, NEW w, Ring(n, sem, r, w),
         NEW netmcnt, NEW data, NEW netmcnt2, NEW data2,
         SameFilled(n, sem, netmcnt, data, netmcnt2, data2)
  PROVE  RingSeq(sem, netmcnt2, data2, r, n) = RingSeq(sem, netmcnt, data, r, n)
<1> USE DEF Ring, Typed, SameFilled
<1> DEFINE k == Cardinality(Filled(sem))
<1>1. \A i \in 1 .. k : /\ (r + i - 1) % n \in 0 .. n - 1
                       /\ sem[(r + i - 1) % n] = FILLED
  <2>1. Placed(sem, r, w, n, k)
    BY RingPlaces
  <2> QED BY <2>1 DEF Placed
<1> QED BY <1>1 DEF RingSeq, Filled

(* The writer publishes the block it stands on.                            *)
LEMMA RingAppend ==
  ASSUME NEW n, NEW sem, NEW r, NEW w, Ring(n, sem, r, w),
         sem[w] = FREE,
         NEW netmcnt, NEW data, NEW netmcnt2, NEW data2,
         Typed(n, netmcnt, data),
         Typed(n, netmcnt2, data2),
         SameFilled(n, sem, netmcnt, data, netmcnt2, data2)
  PROVE  RingSeq(set_filled(sem, w), netmcnt2, data2, r, n)
           = Append(RingSeq(sem, netmcnt, data, r, n), BlockAt(netmcnt2, data2, w))
<1> USE DEF Ring, Typed, SameFilled
<1> DEFINE sem2 == set_filled(sem, w)
           q == RingSeq(sem, netmcnt, data, r, n)
           q2 == RingSeq(sem2, netmcnt2, data2, r, n)
           k == Cardinality(Filled(sem))
           x == BlockAt(netmcnt2, data2, w)
<1>1. sem2 \in [0 .. n - 1 -> {FREE, FILLED}] /\ Following(w, n) \in 0 .. n - 1
  BY ModSucc DEF set_filled, Following
<1>2. ExactWindow(sem2, r, Following(w, n))
  BY WindowFill
<1>3. Cardinality(Filled(sem2)) = k + 1
  <2>1. Filled(sem2) = Filled(sem) \cup {w} /\ w \notin Filled(sem)
    BY DEF Filled, set_filled
  <2>2. IsFiniteSet(Filled(sem))
    BY RingLength
  <2>3. Cardinality(Filled(sem) \cup {w}) = k + 1
    BY ONLY <2>1, <2>2, FS_AddElement
  <2> QED BY ONLY <2>1, <2>3
<1> HIDE DEF sem2
<1>4. IsRing(q, sem, netmcnt, data, r, n)
  BY RingSeqIs
<1>5. IsRing(q2, sem2, netmcnt2, data2, r, n)
  BY <1>1, <1>2, RingSeqIs
<1>6. Placed(sem, r, w, n, k)
  BY RingPlaces
<1> HIDE DEF q, q2, k, x
<1>7. x \in BlockSet
  BY DEF x
<1>8. q \in Seq(BlockSet) /\ Len(q) = k /\ k \in 0 .. n /\ k < n
  BY <1>4, <1>6 DEF IsRing, Placed, k
<1>9. q2 \in Seq(BlockSet) /\ Len(q2) = k + 1
  BY <1>3, <1>5 DEF IsRing
<1>10. \A i \in 1 .. k : q2[i] = q[i]
  <2> TAKE i \in 1 .. k
  <2>1. q[i] = BlockAt(netmcnt, data, (r + i - 1) % n)
    BY <1>4, <1>8 DEF IsRing
  <2>2. q2[i] = BlockAt(netmcnt2, data2, (r + i - 1) % n)
    BY <1>5, <1>8, <1>9 DEF IsRing
  <2>3. (r + i - 1) % n \in 0 .. n - 1 /\ sem[(r + i - 1) % n] = FILLED
    BY <1>6 DEF Placed
  <2> QED BY <2>1, <2>2, <2>3 DEF BlockAt
<1>11. q2[k + 1] = x
  <2>1. q2[k + 1] = BlockAt(netmcnt2, data2, (r + (k + 1) - 1) % n)
    BY <1>5, <1>8, <1>9 DEF IsRing
  <2> QED BY <1>6, <2>1 DEF Placed, x
<1>12. q2 = Append(q, x)
  <2> DEFINE a == Append(q, x)
  <2>1. /\ a \in Seq(BlockSet) /\ Len(a) = k + 1
        /\ \A i \in 1 .. k : a[i] = q[i]
        /\ a[k + 1] = x
    BY <1>7, <1>8, AppendProperties
  <2> HIDE DEF a
  <2>2. \A i \in 1 .. Len(q2) : q2[i] = a[i]
    BY <1>8, <1>9, <1>10, <1>11, <2>1
  <2>3. q2 = a
    BY <1>9, <2>1, <2>2, SeqEqual
  <2> QED BY <2>3 DEF a
<1> QED BY <1>12 DEF q, q2, x, sem2

(* It does so only if there is room.                                       *)
LEMMA RingRoom ==
  ASSUME NEW n, NEW sem, NEW r, NEW w, Ring(n, sem, r, w),
         sem[w] = FREE, NEW q, Len(q) = Cardinality(Filled(sem))
  PROVE  Len(q) < n
<1> USE DEF Ring, Typed, SameFilled
<1>1. Placed(sem, r, w, n, Cardinality(Filled(sem)))
  BY RingPlaces
<1> QED BY <1>1 DEF Placed

(* Freeing the reader's block leaves a ring.                               *)
LEMMA RingFreed ==
  ASSUME NEW n, NEW sem, NEW r, NEW w, Ring(n, sem, r, w), sem[r] = FILLED
  PROVE  Ring(n, set_free(sem, r), Following(r, n), w)
<1> USE DEF Ring
<1>1. set_free(sem, r) \in [0 .. n - 1 -> {FREE, FILLED}] /\ Following(r, n) \in 0 .. n - 1
  BY ModSucc DEF set_free, Following
<1>2. ExactWindow(set_free(sem, r), Following(r, n), w)
  BY WindowFree
<1> QED BY <1>1, <1>2

(* The reader frees the block it stands on.                                *)
LEMMA RingTail ==
  ASSUME NEW n, NEW sem, NEW r, NEW w, Ring(n, sem, r, w),
         sem[r] = FILLED,
         NEW netmcnt, NEW data,
         Typed(n, netmcnt, data)
  PROVE  RingSeq(sem, netmcnt, data, r, n)
           = <<BlockAt(netmcnt, data, r)>>
             \o RingSeq(set_free(sem, r), netmcnt, data, Following(r, n), n)
<1> USE DEF Ring, Typed, SameFilled
<1> DEFINE sem2 == set_free(sem, r)
           r2 == Following(r, n)
           q == RingSeq(sem, netmcnt, data, r, n)
           q2 == RingSeq(sem2, netmcnt, data, r2, n)
           k == Cardinality(Filled(sem))
           x == BlockAt(netmcnt, data, r)
<1>1. sem2 \in [0 .. n - 1 -> {FREE, FILLED}] /\ r2 \in 0 .. n - 1
  BY ModSucc DEF set_free, Following
<1>2. ExactWindow(sem2, r2, w)
  BY WindowFree
<1>3. Cardinality(Filled(sem2)) = k - 1
  <2>1. Filled(sem2) = Filled(sem) \ {r} /\ r \in Filled(sem)
    BY DEF Filled, set_free
  <2>2. IsFiniteSet(Filled(sem))
    BY RingLength
  <2> QED BY <2>1, <2>2, FS_RemoveElement
<1>4. IsRing(q, sem, netmcnt, data, r, n)
  BY RingSeqIs
<1>5. r2 = IF r + 1 = n THEN 0 ELSE r + 1
  BY ModSucc DEF Following
<1> HIDE DEF sem2, r2
<1>6. IsRing(q2, sem2, netmcnt, data, r2, n)
  BY <1>1, <1>2, RingSeqIs
<1>7. Placed(sem, r, w, n, k)
  BY RingPlaces
<1> HIDE DEF q, q2, k, x
<1>8. q \in Seq(BlockSet) /\ Len(q) = k /\ k \in 1 .. n /\ x \in BlockSet
  BY <1>4, <1>7 DEF IsRing, Placed, k, x
<1>9. q2 \in Seq(BlockSet) /\ Len(q2) = k - 1
  BY <1>3, <1>6 DEF IsRing
<1>10. q[1] = x
  <2>1. q[1] = BlockAt(netmcnt, data, (r + 1 - 1) % n)
    BY <1>4, <1>8 DEF IsRing
  <2> QED BY <1>7, <2>1 DEF Placed, x
<1>11. \A i \in 1 .. k - 1 : q[i + 1] = q2[i]
  <2> TAKE i \in 1 .. k - 1
  <2>1. i + 1 \in 1 .. k /\ i \in 1 .. n - 1
    BY <1>8
  <2>2. q[i + 1] = BlockAt(netmcnt, data, (r + (i + 1) - 1) % n)
    BY <1>4, <1>8, <2>1 DEF IsRing
  <2>3. q2[i] = BlockAt(netmcnt, data, (r2 + i - 1) % n)
    BY <1>6, <1>8, <1>9 DEF IsRing
  <2>4. (r + (i + 1) - 1) % n = (r2 + i - 1) % n
    <3> DEFINE y == r + (i + 1) - 1
               z == r2 + i - 1
    <3>1. y \in 0 .. 2 * n - 1 /\ z \in 0 .. 2 * n - 1 /\ (y = z \/ y = z + n)
      BY <1>1, <1>5, <2>1
    <3> HIDE DEF y, z
    <3>2. y % n = IF y < n THEN y ELSE y - n
      BY <3>1, ModTwice
    <3>3. z % n = IF z < n THEN z ELSE z - n
      BY <3>1, ModTwice
    <3>4. y % n = z % n
      BY <3>1, <3>2, <3>3
    <3> QED BY <3>4 DEF y, z
  <2> QED BY <2>2, <2>3, <2>4
<1>12. q = <<x>> \o q2
  <2>1. <<x>> \in Seq(BlockSet) /\ Len(<<x>>) = 1 /\ <<x>>[1] = x
    BY <1>8
  <2> DEFINE a == <<x>> \o q2
  <2>2. /\ a \in Seq(BlockSet) /\ Len(a) = 1 + (k - 1)
        /\ \A i \in 1 .. 1 + (k - 1) : a[i] = IF i <= 1 THEN <<x>>[i] ELSE q2[i - 1]
    BY <1>9, <2>1, ConcatProperties
  <2> HIDE DEF a
  <2>3. \A i \in 1 .. Len(q) : q[i] = a[i]
    <3> TAKE i \in 1 .. Len(q)
    <3>1. CASE i = 1
      BY <1>8, <1>10, <2>1, <2>2, <3>1
    <3>2. CASE i # 1
      <4>1. i - 1 \in 1 .. k - 1 /\ (i - 1) + 1 = i
        BY <1>8, <3>2
      <4>2. q[(i - 1) + 1] = q2[i - 1]
        BY <1>11, <4>1
      <4>3. i \in 1 .. 1 + (k - 1) /\ ~(i <= 1)
        BY <1>8, <3>2
      <4> QED BY <2>2, <4>1, <4>2, <4>3
    <3> QED BY <3>1, <3>2
  <2>4. q = a
    BY <1>8, <2>2, <2>3, SeqEqual
  <2> QED BY <2>4 DEF a
<1> QED BY <1>12 DEF q, q2, x, sem2, r2

-----------------------------------------------------------------------------
(* What each step does to the blocks in flight.                            *)

(* What a thread holds outside the rings, or has written to a block it has *)
(* not published yet, is what it took: true as long as every packet says   *)
(* data_type 0, which is the only one polarization_process copies.         *)
FlowInv ==
  /\ cov_pc = "free_in" => cov_data = in_data[cov_in_idx]
  /\ cov_pc = "mark_out" => BlockAt(out_netmcnt, out_data, cov_out_idx)
                              = [netmcnt |-> cov_netmcnt, data |-> cov_data]
  /\ stored \in Seq(BlockSet)

(* A step of the net thread leaves every filled block filled and as it is. *)
LEMMA NetLeavesFilled ==
  ASSUME NetInv, NetStep, NEW b \in InBlocks, in_sem[b] = FILLED
  PROVE  /\ in_sem'[b] = FILLED
         /\ in_netmcnt'[b] = in_netmcnt[b]
         /\ in_data'[b] = in_data[b]
<1>1. CASE CopyPacket \/ ZeroTail \/ ZeroHead \/ ZeroGap
  BY <1>1 DEF CopyPacket, ZeroTail, ZeroHead, ZeroGap, PublishBlock, set_filled,
     NetMayWrite, wait_free, NetInv, NetTypeOK
<1>2. CASE MarkBlock
  <2>1. in_sem[net_idx] = FREE
    BY <1>2, Constants DEF MarkBlock, NetInv, NetControl, CurrentBlockFree
  <2> QED BY <1>2, <2>1 DEF MarkBlock, PublishBlock, set_filled, NetInv, NetTypeOK
<1>3. CASE CheckFirstTwoBlocks \/ NetWaitError
  BY <1>3 DEF CheckFirstTwoBlocks, NetWaitError, input_vars
<1>4. CASE Receive
  BY <1>4 DEF Receive, ReceiveExpected, ReceiveUnexpected, ParsePacket, input_vars
<1> QED BY <1>1, <1>2, <1>3, <1>4 DEF NetStep, NetInternal

(* The block the net thread publishes.                                     *)
Published == [netmcnt |-> pkt_mcnt, data |-> in_data'[net_idx]]

LEMMA InputTyped ==
  ASSUME NEW netmcnt \in [InBlocks -> Mcnts],
         NEW data \in [InBlocks -> [Slots -> Mcnts \cup {Blank}]]
  PROVE  Typed(N_INPUT_BLOCKS, netmcnt, data)
<1> SUFFICES ASSUME NEW b \in 0 .. N_INPUT_BLOCKS - 1
             PROVE  BlockAt(netmcnt, data, b) \in BlockSet
  BY DEF Typed
<1>1. netmcnt[b] \in Mcnts /\ data[b] \in [Slots -> Mcnts \cup {Blank}]
  BY DEF InBlocks
<1>2. data[b] \in [Slots -> Mcnts \cup {Blank, Garbage}]
  BY <1>1
<1> QED BY <1>1, <1>2 DEF BlockAt, BlockSet

LEMMA RingsAre ==
  ASSUME NetInv, RestTypeOK, RingInv
  PROVE  /\ Ring(N_INPUT_BLOCKS, in_sem, cov_in_idx, net_idx)
         /\ Ring(N_OUTPUT_BLOCKS, out_sem, file_idx, cov_out_idx)
         /\ Typed(N_INPUT_BLOCKS, in_netmcnt, in_data)
         /\ Typed(N_OUTPUT_BLOCKS, out_netmcnt, out_data)
<1>1. Ring(N_INPUT_BLOCKS, in_sem, cov_in_idx, net_idx)
  BY RingConstants DEF NetInv, NetTypeOK, RingInv, InBlocks, InputWindow, Ring
<1>2. Ring(N_OUTPUT_BLOCKS, out_sem, file_idx, cov_out_idx)
  BY RingConstants DEF RingInv, OutBlocks, OutputWindow, Ring
<1>3. Typed(N_INPUT_BLOCKS, in_netmcnt, in_data)
  BY InputTyped DEF NetInv, NetTypeOK
<1>4. Typed(N_OUTPUT_BLOCKS, out_netmcnt, out_data)
  BY DEF RestTypeOK, OutBlocks, BlockAt, BlockSet, Typed
<1> QED BY <1>1, <1>2, <1>3, <1>4

LEMMA RingSequences ==
  ASSUME NetInv, RestTypeOK, RingInv
  PROVE  /\ InRing \in Seq(BlockSet) /\ OutRing \in Seq(BlockSet) /\ InHand \in Seq(BlockSet)
         /\ Len(InRing) \in 0 .. N_INPUT_BLOCKS
         /\ Len(InHand) \in 0 .. 1
         /\ Len(OutRing) \in 0 .. N_OUTPUT_BLOCKS
<1>1. IsRing(InRing, in_sem, in_netmcnt, in_data, cov_in_idx, N_INPUT_BLOCKS)
  BY RingsAre, RingSeqIs DEF InRing
<1>2. IsRing(OutRing, out_sem, out_netmcnt, out_data, file_idx, N_OUTPUT_BLOCKS)
  BY RingsAre, RingSeqIs DEF OutRing
<1>3. Placed(in_sem, cov_in_idx, net_idx, N_INPUT_BLOCKS, Cardinality(Filled(in_sem)))
  BY RingsAre, RingPlaces DEF Ring
<1>4. Placed(out_sem, file_idx, cov_out_idx, N_OUTPUT_BLOCKS, Cardinality(Filled(out_sem)))
  BY RingsAre, RingPlaces DEF Ring
<1>5. InHand \in Seq(BlockSet) /\ Len(InHand) \in 0 .. 1
  <2>1. [netmcnt |-> cov_netmcnt, data |-> cov_data] \in BlockSet
    BY DEF RestTypeOK, GpuTypeOK, BlockSet
  <2> QED BY <2>1 DEF InHand
<1> QED BY <1>1, <1>2, <1>3, <1>4, <1>5 DEF IsRing, Placed

(* The net thread publishes a block, or leaves the sequence as it is.      *)
NetPublish ==
  /\ MarkBlock \/ ZeroTail
  /\ InRing' = Append(InRing, Published)
  /\ Len(InRing) < N_INPUT_BLOCKS

LEMMA NetFlow ==
  ASSUME NetInv, NetInv', RestTypeOK, RingInv, NetStep, UNCHANGED cov_private
  PROVE  (UNCHANGED <<in_sem, net_idx>> /\ InRing' = InRing) \/ NetPublish
<1> DEFINE n == N_INPUT_BLOCKS
<1>1. Ring(n, in_sem, cov_in_idx, net_idx) /\ Typed(n, in_netmcnt, in_data)
  BY RingsAre
<1>2. SameFilled(n, in_sem, in_netmcnt, in_data, in_netmcnt', in_data')
  BY NetLeavesFilled DEF InBlocks, SameFilled
<1>3. CASE UNCHANGED <<in_sem, net_idx>>
  <2>1. RingSeq(in_sem, in_netmcnt', in_data', cov_in_idx, n)
          = RingSeq(in_sem, in_netmcnt, in_data, cov_in_idx, n)
    BY ONLY <1>1, <1>2, RingSame
  <2> QED BY <1>3, <2>1 DEF InRing, cov_private
<1>4. CASE /\ in_sem[net_idx] = FREE
           /\ in_sem' = set_filled(in_sem, net_idx)
           /\ net_idx' = Following(net_idx, n)
  <2>1. MarkBlock \/ ZeroTail
    <3>1. in_sem' # in_sem
      BY <1>1, <1>4 DEF set_filled, Ring
    <3> QED BY <3>1 DEF NetStep, NetInternal, CheckFirstTwoBlocks, CopyPacket, ZeroHead,
               ZeroGap, NetWaitError, Receive, ReceiveExpected, ReceiveUnexpected,
               ParsePacket, input_vars
  <2>2. Typed(n, in_netmcnt', in_data')
    BY InputTyped DEF NetInv, NetTypeOK
  <2>3. RingSeq(set_filled(in_sem, net_idx), in_netmcnt', in_data', cov_in_idx, n)
          = Append(RingSeq(in_sem, in_netmcnt, in_data, cov_in_idx, n),
                   BlockAt(in_netmcnt', in_data', net_idx))
    <3>1. in_sem[net_idx] = FREE
      BY <1>4
    <3> QED BY ONLY <1>1, <1>2, <2>2, <3>1, RingAppend
  <2>4. BlockAt(in_netmcnt', in_data', net_idx) = Published
    BY <2>1 DEF MarkBlock, ZeroTail, PublishBlock, NetInv, NetTypeOK, BlockAt, Published
  <2>5. InRing' = Append(InRing, Published)
    BY <1>4, <2>3, <2>4 DEF InRing, cov_private
  <2>6. Len(InRing) < n
    <3>1. IsRing(InRing, in_sem, in_netmcnt, in_data, cov_in_idx, n)
      BY <1>1, RingSeqIs DEF InRing
    <3>2. Len(InRing) = Cardinality(Filled(in_sem))
      BY <3>1 DEF IsRing
    <3> QED BY <1>1, <1>4, <3>2, RingRoom
  <2> QED BY <2>1, <2>5, <2>6 DEF NetPublish
<1> QED BY <1>3, <1>4, NetPublishes

(* Sequences in three parts.                                               *)
LEMMA PartsType ==
  ASSUME NEW a \in Seq(BlockSet), NEW h \in Seq(BlockSet), NEW c \in Seq(BlockSet)
  PROVE  a \o h \o c \in Seq(BlockSet) /\ Len(a \o h \o c) = Len(a) + Len(h) + Len(c)
<1>1. a \o h \in Seq(BlockSet) /\ Len(a \o h) = Len(a) + Len(h)
  BY ConcatProperties
<1> QED BY <1>1, ConcatProperties

LEMMA PartsAppend ==
  ASSUME NEW a \in Seq(BlockSet), NEW h \in Seq(BlockSet), NEW c \in Seq(BlockSet), NEW x \in BlockSet
  PROVE  a \o h \o Append(c, x) = Append(a \o h \o c, x)
<1>1. <<x>> \in Seq(BlockSet)
  OBVIOUS
<1>2. a \o h \in Seq(BlockSet) /\ a \o h \o c \in Seq(BlockSet)
  BY ConcatProperties
<1>3. Append(c, x) = c \o <<x>>
  BY AppendIsConcat
<1>4. (a \o h) \o (c \o <<x>>) = ((a \o h) \o c) \o <<x>>
  BY <1>1, <1>2, ConcatAssociative
<1>5. ((a \o h) \o c) \o <<x>> = Append(a \o h \o c, x)
  BY <1>2, AppendIsConcat
<1> QED BY <1>3, <1>4, <1>5

LEMMA PartsHandOver ==
  ASSUME NEW a \in Seq(BlockSet), NEW x \in BlockSet, NEW c \in Seq(BlockSet)
  PROVE  Append(a, x) \o <<>> \o c = a \o <<x>> \o c
<1>1. Append(a, x) = a \o <<x>> /\ Append(a, x) \in Seq(BlockSet)
  BY AppendIsConcat, AppendProperties
<1>2. Append(a, x) \o <<>> = Append(a, x)
  BY <1>1, ConcatEmptySeq
<1> QED BY <1>1, <1>2

LEMMA PartsTake ==
  ASSUME NEW a \in Seq(BlockSet), NEW x \in BlockSet, NEW c \in Seq(BlockSet)
  PROVE  a \o <<>> \o (<<x>> \o c) = a \o <<x>> \o c
<1>1. <<x>> \in Seq(BlockSet)
  OBVIOUS
<1>2. a \o <<>> = a
  BY ConcatEmptySeq
<1>3. (a \o <<x>>) \o c = a \o (<<x>> \o c)
  BY <1>1, ConcatAssociative
<1> QED BY <1>2, <1>3

FirstOfParts(x, a, h, c) == (<<x>> \o a) \o h \o c = <<x>> \o (a \o h \o c)

LEMMA PartsFirst ==
  ASSUME NEW x \in BlockSet, NEW a \in Seq(BlockSet), NEW h \in Seq(BlockSet), NEW c \in Seq(BlockSet)
  PROVE  FirstOfParts(x, a, h, c)
<1>1. <<x>> \in Seq(BlockSet)
  OBVIOUS
<1>2. a \o h \in Seq(BlockSet)
  BY ConcatProperties
<1>3. (<<x>> \o a) \o h = <<x>> \o (a \o h)
  BY <1>1, ConcatAssociative
<1>4. (<<x>> \o (a \o h)) \o c = <<x>> \o ((a \o h) \o c)
  BY <1>1, <1>2, ConcatAssociative
<1> QED BY <1>3, <1>4 DEF FirstOfParts

(* The head and the rest.                                                  *)
LEMMA FirstAndRest ==
  ASSUME NEW S, NEW x \in S, NEW q \in Seq(S)
  PROVE  /\ <<x>> \o q # <<>>
         /\ Head(<<x>> \o q) = x
         /\ Tail(<<x>> \o q) = q
<1> DEFINE a == <<x>> \o q
<1>1. <<x>> \in Seq(S) /\ Len(<<x>>) = 1 /\ <<x>>[1] = x
  OBVIOUS
<1>2. /\ a \in Seq(S) /\ Len(a) = 1 + Len(q)
      /\ \A i \in 1 .. 1 + Len(q) : a[i] = IF i <= 1 THEN <<x>>[i] ELSE q[i - 1]
  BY <1>1, ConcatProperties
<1>3. Len(q) \in Nat
  OBVIOUS
<1> HIDE DEF a
<1>4. a # <<>>
  BY <1>2, <1>3
<1>5. Head(a) = x
  BY <1>1, <1>2, <1>3, <1>4
<1>6. /\ Tail(a) \in Seq(S) /\ Len(Tail(a)) = Len(a) - 1
      /\ \A i \in 1 .. Len(Tail(a)) : Tail(a)[i] = a[i + 1]
  BY <1>2, <1>4, HeadTailProperties
<1>7. \A i \in 1 .. Len(q) : a[i + 1] = q[i]
  <2> TAKE i \in 1 .. Len(q)
  <2>1. i + 1 \in 1 .. 1 + Len(q) /\ ~(i + 1 <= 1) /\ (i + 1) - 1 = i
    BY <1>3
  <2>2. a[i + 1] = q[(i + 1) - 1]
    BY <1>2, <2>1
  <2> QED BY <2>1, <2>2
<1>8. Tail(a) = q
  <2>1. Len(Tail(a)) = Len(q)
    BY <1>2, <1>3, <1>6
  <2>2. \A i \in 1 .. Len(Tail(a)) : Tail(a)[i] = q[i]
    BY <1>6, <1>7, <2>1
  <2> QED BY <1>6, <2>1, <2>2, SeqEqual
<1> QED BY <1>4, <1>5, <1>8 DEF a

(* The blocks the gpu thread passes on are those it took: its steps move   *)
(* blocks between the three parts, unless it gives up with one in hand.    *)
GpuDrops ==
  /\ WaitErrors
  /\ cov_pc = "wait_out" /\ cov_pc' = "exited"
  /\ UNCHANGED <<InRing, OutRing>>

LEMMA GpuFlow ==
  ASSUME NetInv, RestTypeOK, RingInv, FlowInv,
         GpuInternal \/ (WaitErrors /\ GpuWaitError), UNCHANGED <<net_idx, file_idx>>
  PROVE  InFlight' = InFlight \/ GpuDrops
<1> DEFINE n == N_INPUT_BLOCKS
           m == N_OUTPUT_BLOCKS
<1>1. Ring(n, in_sem, cov_in_idx, net_idx) /\ Typed(n, in_netmcnt, in_data)
  BY RingsAre
<1>2. Ring(m, out_sem, file_idx, cov_out_idx) /\ Typed(m, out_netmcnt, out_data)
  BY RingsAre
<1>3. InRing \in Seq(BlockSet) /\ OutRing \in Seq(BlockSet)
  BY RingSequences
<1>4. CASE GpuProcess
  <2>1. UNCHANGED <<InRing, OutRing, InHand>>
    BY <1>4 DEF GpuProcess, InRing, OutRing, InHand, RingSeq, input_vars, output_vars
  <2> QED BY <2>1 DEF InFlight
<1>5. CASE GpuFreeInput
  <2> DEFINE x == BlockAt(in_netmcnt, in_data, cov_in_idx)
  <2>1. in_sem[cov_in_idx] = FILLED
    BY <1>5 DEF GpuFreeInput, RingInv, ReadersOwn
  <2>2. RingSeq(in_sem, in_netmcnt, in_data, cov_in_idx, n)
          = <<x>> \o RingSeq(set_free(in_sem, cov_in_idx), in_netmcnt, in_data,
                             Following(cov_in_idx, n), n)
    BY ONLY <1>1, <2>1, RingTail
  <2>3. InRing = <<x>> \o InRing'
    BY <1>5, <2>2 DEF GpuFreeInput, InRing
  <2>4. InHand = <<>> /\ InHand' = <<x>>
    BY <1>5 DEF GpuFreeInput, InHand, FlowInv, BlockAt
  <2>5. UNCHANGED OutRing
    BY <1>5 DEF GpuFreeInput, OutRing, RingSeq, output_vars
  <2>6. x \in BlockSet
    BY <1>1 DEF Ring, Typed
  <2>7. InRing' \in Seq(BlockSet)
    <3>1. InRing' = RingSeq(set_free(in_sem, cov_in_idx), in_netmcnt, in_data,
                            Following(cov_in_idx, n), n)
      BY <1>5 DEF GpuFreeInput, InRing
    <3>2. Ring(n, set_free(in_sem, cov_in_idx), Following(cov_in_idx, n), net_idx)
      BY ONLY <1>1, <2>1, RingFreed
    <3>3. IsRing(InRing', set_free(in_sem, cov_in_idx), in_netmcnt, in_data,
                 Following(cov_in_idx, n), n)
      BY <1>1, <3>1, <3>2, RingSeqIs
    <3> QED BY <3>3 DEF IsRing
  <2> HIDE DEF x
  <2>8. OutRing \o <<>> \o (<<x>> \o InRing') = OutRing \o <<x>> \o InRing'
    BY <1>3, <2>6, <2>7, PartsTake
  <2> QED BY <2>3, <2>4, <2>5, <2>8 DEF InFlight
<1>6. CASE GpuCopyOut
  <2>1. out_sem[cov_out_idx] = FREE
    BY <1>6 DEF GpuCopyOut, GpuMayWrite, wait_free
  <2>2. SameFilled(m, out_sem, out_netmcnt, out_data, out_netmcnt', out_data')
    BY <1>6, <2>1 DEF GpuCopyOut, RestTypeOK, OutBlocks, SameFilled
  <2>3. RingSeq(out_sem, out_netmcnt', out_data', file_idx, m)
          = RingSeq(out_sem, out_netmcnt, out_data, file_idx, m)
    BY ONLY <1>2, <2>2, RingSame
  <2>4. UNCHANGED OutRing
    BY <1>6, <2>3 DEF GpuCopyOut, OutRing
  <2>5. UNCHANGED <<InRing, InHand>>
    BY <1>6 DEF GpuCopyOut, InRing, InHand, RingSeq, input_vars
  <2> QED BY <2>4, <2>5 DEF InFlight
<1>7. CASE GpuMarkOut
  <2> DEFINE x == BlockAt(out_netmcnt, out_data, cov_out_idx)
  <2>1. out_sem[cov_out_idx] = FREE
    BY <1>7 DEF GpuMarkOut, RingInv, ReadersOwn
  <2>2. SameFilled(m, out_sem, out_netmcnt, out_data, out_netmcnt, out_data)
    BY DEF SameFilled
  <2>3. RingSeq(set_filled(out_sem, cov_out_idx), out_netmcnt, out_data, file_idx, m)
          = Append(RingSeq(out_sem, out_netmcnt, out_data, file_idx, m), x)
    BY ONLY <1>2, <2>1, <2>2, RingAppend
  <2>4. OutRing' = Append(OutRing, x)
    BY <1>7, <2>3 DEF GpuMarkOut, OutRing
  <2>5. InHand = <<x>> /\ InHand' = <<>>
    BY <1>7 DEF GpuMarkOut, InHand, FlowInv
  <2>6. UNCHANGED InRing
    BY <1>7 DEF GpuMarkOut, InRing, RingSeq, input_vars
  <2>7. x \in BlockSet
    BY <1>2 DEF Ring, Typed
  <2> HIDE DEF x
  <2>8. Append(OutRing, x) \o <<>> \o InRing = OutRing \o <<x>> \o InRing
    BY <1>3, <2>7, PartsHandOver
  <2> QED BY <2>4, <2>5, <2>6, <2>8 DEF InFlight
<1>8. CASE WaitErrors /\ GpuWaitError
  <2>1. UNCHANGED <<InRing, OutRing>>
    BY <1>8 DEF GpuWaitError, InRing, OutRing, RingSeq, input_vars, output_vars
  <2>2. CASE cov_pc = "wait_in"
    <3>1. UNCHANGED InHand
      BY <1>8, <2>2 DEF GpuWaitError, InHand
    <3> QED BY <2>1, <3>1 DEF InFlight
  <2>3. CASE cov_pc = "wait_out"
    BY <1>8, <2>1, <2>3 DEF GpuWaitError, GpuDrops
  <2> QED BY <1>8, <2>2, <2>3 DEF GpuWaitError
<1> QED BY <1>4, <1>5, <1>6, <1>7, <1>8 DEF GpuInternal

(* The block the output thread gives back, and has written.                *)
Written == [netmcnt |-> out_netmcnt[file_idx], data |-> out_data[file_idx]]

LEMMA OutputFlow ==
  ASSUME NetInv, RestTypeOK, RingInv, FreeOutput, UNCHANGED <<input_vars, cov_private>>
  PROVE  /\ InFlight = <<Written>> \o InFlight'
         /\ InFlight' \in Seq(BlockSet)
         /\ Written \in BlockSet
<1> DEFINE m == N_OUTPUT_BLOCKS
<1>1. Ring(m, out_sem, file_idx, cov_out_idx) /\ Typed(m, out_netmcnt, out_data)
  BY RingsAre
<1>2. out_sem[file_idx] = FILLED
  BY DEF FreeOutput, RingInv, ReadersOwn
<1>3. RingSeq(out_sem, out_netmcnt, out_data, file_idx, m)
        = <<BlockAt(out_netmcnt, out_data, file_idx)>>
          \o RingSeq(set_free(out_sem, file_idx), out_netmcnt, out_data, Following(file_idx, m), m)
  BY ONLY <1>1, <1>2, RingTail
<1>4. Written = BlockAt(out_netmcnt, out_data, file_idx)
  BY DEF Written, BlockAt
<1>5. Written \in BlockSet
  BY <1>1, <1>4 DEF Ring, Typed
<1>6. OutRing = <<Written>> \o OutRing'
  BY <1>3, <1>4 DEF FreeOutput, OutRing
<1>7. UNCHANGED <<InRing, InHand>>
  BY DEF InRing, InHand, RingSeq, input_vars, cov_private
<1>8. OutRing' \in Seq(BlockSet)
  <2>1. OutRing' = RingSeq(set_free(out_sem, file_idx), out_netmcnt, out_data,
                           Following(file_idx, m), m)
    BY DEF FreeOutput, OutRing
  <2>2. Ring(m, set_free(out_sem, file_idx), Following(file_idx, m), cov_out_idx)
    BY ONLY <1>1, <1>2, RingFreed
  <2>3. IsRing(OutRing', set_free(out_sem, file_idx), out_netmcnt, out_data,
               Following(file_idx, m), m)
    BY <1>1, <2>1, <2>2, RingSeqIs
  <2> QED BY <2>3 DEF IsRing
<1>9. InRing \in Seq(BlockSet) /\ InHand \in Seq(BlockSet)
  BY RingSequences
<1>10. PICK first \in BlockSet, rest \in Seq(BlockSet), h \in Seq(BlockSet), c \in Seq(BlockSet) :
         first = Written /\ rest = OutRing' /\ h = InHand /\ c = InRing
  BY ONLY <1>5, <1>8, <1>9
<1>11. FirstOfParts(first, rest, h, c)
  BY ONLY PartsFirst, first \in BlockSet, rest \in Seq(BlockSet), h \in Seq(BlockSet),
          c \in Seq(BlockSet)
<1>12. rest \o h \o c \in Seq(BlockSet)
  BY ONLY PartsType, rest \in Seq(BlockSet), h \in Seq(BlockSet), c \in Seq(BlockSet)
<1> QED BY <1>6, <1>7, <1>10, <1>11, <1>12 DEF InFlight, FirstOfParts

-----------------------------------------------------------------------------
LEMMA FlowNext ==
  ASSUME NetInv, RestTypeOK, RingInv, data_type = 0, FlowInv, [PipelineNext]_vars
  PROVE  FlowInv'
<1>1. CASE NetMoves(Receive) \/ NetRuns \/ NetMoves(NetWaitError)
  <2>1. NetStep /\ UNCHANGED <<output_vars, cov_private, stored>>
    BY <1>1 DEF NetMoves, NetRuns, NetStep
  <2>2. cov_pc = "free_in" => in_data'[cov_in_idx] = in_data[cov_in_idx]
    BY <2>1, NetLeavesFilled DEF RingInv, ReadersOwn
  <2> QED BY <2>1, <2>2 DEF FlowInv, BlockAt, output_vars, cov_private
<1>2. CASE GpuRuns \/ GpuMoves(GpuWaitError)
  <2>1. UNCHANGED stored
    BY <1>2 DEF GpuRuns, GpuMoves
  <2>2. CASE GpuProcess
    BY <2>1, <2>2 DEF GpuProcess, polarization_process, FlowInv, input_vars
  <2>3. CASE GpuFreeInput \/ GpuMarkOut \/ GpuWaitError
    BY <2>1, <2>3 DEF GpuFreeInput, GpuMarkOut, GpuWaitError, FlowInv
  <2>4. CASE GpuCopyOut
    BY <2>1, <2>4 DEF GpuCopyOut, FlowInv, BlockAt, RestTypeOK, GpuTypeOK
  <2> QED BY <1>2, <2>2, <2>3, <2>4 DEF GpuRuns, GpuMoves, GpuInternal
<1>3. CASE StoreBlock
  <2>1. UNCHANGED <<in_data, cov_private>> /\ UNCHANGED <<out_netmcnt, out_data>>
    BY <1>3 DEF StoreBlock, OutputMoves, FreeOutput, input_vars
  <2>2. file_idx \in OutBlocks
    BY DEF RingInv
  <2>3. [netmcnt |-> out_netmcnt[file_idx], data |-> out_data[file_idx]] \in BlockSet
    BY <2>2 DEF RestTypeOK, BlockSet
  <2>4. stored' \in Seq(BlockSet)
    BY <1>3, <2>3, AppendProperties DEF StoreBlock, FlowInv
  <2> QED BY <2>1, <2>4 DEF FlowInv, BlockAt, cov_private
<1>4. CASE OutputElse \/ (OutputMoves(OutputWaitError) /\ UNCHANGED stored)
  <2>1. UNCHANGED <<in_data, output_vars, cov_private, stored>>
    BY <1>4 DEF OutputElse, OutputMoves, TakeBlock, NameDirectory, MakeDirectory,
       StampFiles, CheckType, FormatName, CreateFile, OpenFiles, WriteBeam, WriteCrash,
       CountBlock, RenameFile, OutputWaitError, input_vars
  <2> QED BY <2>1 DEF FlowInv, BlockAt, output_vars, cov_private
<1>5. CASE Idle \/ UNCHANGED vars
  BY <1>5 DEF Idle, vars, FlowInv, BlockAt, input_vars, output_vars, cov_private
<1> QED BY <1>1, <1>2, <1>3, <1>4, <1>5 DEF PipelineNext, OutputRuns

(* All that the proofs about the blocks in flight use.                     *)
PipelineInv ==
  /\ NetInv
  /\ RingInv
  /\ RestTypeOK
  /\ StartInv
  /\ StreamInv
  /\ FlowInv

LEMMA PipelineInvariant ==
  ASSUME SourceTypes \subseteq {0}
  PROVE  PipelineSpec => []PipelineInv
<1>1. PipelineInit => FlowInv
  BY DEF PipelineInit, GpuInit, FlowInv
<1>2. NetInv /\ RestTypeOK /\ RingInv /\ StreamInv /\ FlowInv /\ [PipelineNext]_vars => FlowInv'
  BY FlowNext DEF StreamInv
<1>3. PipelineSpec => []FlowInv
  BY <1>1, <1>2, PipelineNetInvariant, RingInvariant, RestTypeInvariant, StreamInvariant,
     PTL
     DEF PipelineSpec
<1> QED BY <1>3, PipelineNetInvariant, RingInvariant, RestTypeInvariant, StartInvariant,
           StreamInvariant, PTL DEF PipelineInv

(* Every step of the pipeline appends the block the net thread publishes,  *)
(* moves the oldest block in flight to those stored, leaves both alone, or *)
(* is the gpu thread giving up.                                            *)
Keeps == UNCHANGED <<InFlight, stored>>

Accepts ==
  /\ InFlight' = Append(InFlight, Published)
  /\ stored' = stored
  /\ Len(InFlight) < N_INPUT_BLOCKS + 1 + N_OUTPUT_BLOCKS

Delivers ==
  /\ Written \in BlockSet /\ InFlight' \in Seq(BlockSet)
  /\ InFlight = <<Written>> \o InFlight'
  /\ stored' = Append(stored, Written)

NetFlows ==
  /\ NetStep
  /\ UNCHANGED cov_private
  /\ IF MarkBlock \/ ZeroTail THEN Accepts ELSE Keeps

OthersFlow ==
  /\ UNCHANGED <<net_private, global_vars, in_data>>
  /\ \/ Keeps /\ (cov_pc = "exited" => cov_pc' = "exited")
     \/ Delivers /\ UNCHANGED cov_pc
     \/ GpuDrops /\ UNCHANGED stored

LEMMA AtMost ==
  ASSUME NEW n \in Nat, NEW k \in 0 .. n
  PROVE  k <= n
OBVIOUS

LEMMA PublishedIs ==
  ASSUME NetInv, NetInv'
  PROVE  Published \in [netmcnt : Mcnts, data : [Slots -> Mcnts \cup {Blank}]]
BY DEF Published, NetInv, NetTypeOK

LEMMA FlowStep ==
  ASSUME PipelineInv, NetInv', [PipelineNext]_vars
  PROVE  NetFlows \/ OthersFlow
<1>0. /\ InRing \in Seq(BlockSet) /\ OutRing \in Seq(BlockSet) /\ InHand \in Seq(BlockSet)
      /\ Len(InRing) \in 0 .. N_INPUT_BLOCKS
      /\ Len(InHand) \in 0 .. 1
      /\ Len(OutRing) \in 0 .. N_OUTPUT_BLOCKS
  BY RingSequences DEF PipelineInv
<1>1. CASE NetMoves(Receive) \/ NetRuns \/ NetMoves(NetWaitError)
  <2>1. NetStep /\ UNCHANGED <<output_vars, cov_private, out_private, stored>>
    BY <1>1 DEF NetMoves, NetRuns, NetStep
  <2>2. UNCHANGED <<OutRing, InHand>>
    BY <2>1 DEF OutRing, InHand, RingSeq, output_vars, cov_private, out_private
  <2>3. (UNCHANGED <<in_sem, net_idx>> /\ InRing' = InRing) \/ NetPublish
    BY <2>1, NetFlow DEF PipelineInv
  <2>4. CASE NetPublish
    <3>1. Published \in BlockSet
      <4>1. Published \in [netmcnt : Mcnts, data : [Slots -> Mcnts \cup {Blank}]]
        BY PublishedIs DEF PipelineInv
      <4> QED BY <4>1 DEF BlockSet
    <3>2. OutRing \o InHand \o Append(InRing, Published) = Append(OutRing \o InHand \o InRing, Published)
      BY ONLY <1>0, <3>1, PartsAppend
    <3>3. Len(OutRing \o InHand \o InRing) = Len(OutRing) + Len(InHand) + Len(InRing)
      BY ONLY <1>0, PartsType
    <3>4. Len(InFlight) < N_INPUT_BLOCKS + 1 + N_OUTPUT_BLOCKS
      <4>1. Len(OutRing) + Len(InHand) + Len(InRing) < N_INPUT_BLOCKS + 1 + N_OUTPUT_BLOCKS
        <5>1. Len(InRing) < N_INPUT_BLOCKS
          BY <2>4 DEF NetPublish
        <5>2. N_INPUT_BLOCKS \in Nat /\ N_OUTPUT_BLOCKS \in Nat
          BY RingConstants
        <5>3. /\ Len(InRing) \in Int /\ Len(InHand) \in Int /\ Len(OutRing) \in Int
              /\ Len(InHand) <= 1 /\ Len(OutRing) <= N_OUTPUT_BLOCKS
          <6>1. Len(InRing) \in Int /\ Len(InHand) \in Int /\ Len(OutRing) \in Int
            BY <1>0, LenProperties
          <6>2. Len(InHand) \in 0 .. 1 /\ Len(OutRing) \in 0 .. N_OUTPUT_BLOCKS
            BY RingSequences DEF PipelineInv
          <6>3. Len(InHand) <= 1 /\ Len(OutRing) <= N_OUTPUT_BLOCKS
            BY ONLY <5>2, <6>2, AtMost
          <6> QED BY ONLY <6>1, <6>2, <6>3
        <5> QED BY ONLY <5>1, <5>2, <5>3
      <4> QED BY <3>3, <4>1 DEF InFlight
    <3> QED BY <2>1, <2>2, <2>4, <3>2, <3>4 DEF NetPublish, NetFlows, Accepts, InFlight
  <2>5. CASE UNCHANGED <<in_sem, net_idx>> /\ InRing' = InRing
    <3>1. ~(MarkBlock \/ ZeroTail)
      <4>1. MarkBlock \/ ZeroTail => in_sem[net_idx] = FREE
        BY Constants DEF MarkBlock, ZeroTail, NetMayWrite, wait_free, PipelineInv, NetInv,
           NetControl, CurrentBlockFree
      <4> QED BY <2>5, <4>1 DEF MarkBlock, ZeroTail, PublishBlock, set_filled, PipelineInv,
                 NetInv, NetTypeOK
    <3> QED BY <2>1, <2>2, <2>5, <3>1 DEF NetFlows, Keeps, InFlight
  <2> QED BY <2>3, <2>4, <2>5
<1>2. CASE GpuRuns \/ (WaitErrors /\ GpuMoves(GpuWaitError))
  <2>1. /\ GpuInternal \/ (WaitErrors /\ GpuWaitError)
        /\ UNCHANGED <<net_private, out_private, stored>>
    BY <1>2 DEF GpuRuns, GpuMoves
  <2>2. UNCHANGED <<net_idx, file_idx>>
    BY <2>1 DEF net_private, out_private
  <2>3. InFlight' = InFlight \/ GpuDrops
    BY <2>1, <2>2, GpuFlow DEF PipelineInv
  <2>4. UNCHANGED <<global_vars, in_data>> /\ cov_pc # "exited"
    BY <2>1 DEF GpuInternal, GpuProcess, GpuFreeInput, GpuCopyOut, GpuMarkOut, GpuWaitError,
       input_vars
  <2> QED BY <2>1, <2>3, <2>4 DEF OthersFlow, Keeps
<1>3. CASE StoreBlock
  <2>1. FreeOutput /\ UNCHANGED <<input_vars, net_private, cov_private, global_vars>>
    BY <1>3 DEF StoreBlock, OutputMoves, FreeOutput
  <2>2. /\ InFlight = <<Written>> \o InFlight'
        /\ InFlight' \in Seq(BlockSet)
        /\ Written \in BlockSet
    BY <2>1, OutputFlow DEF PipelineInv
  <2>3. stored' = Append(stored, Written)
    BY <1>3 DEF StoreBlock, Written
  <2> QED BY <2>1, <2>2, <2>3 DEF OthersFlow, Delivers, input_vars, cov_private
<1>4. CASE OutputElse \/ (OutputMoves(OutputWaitError) /\ UNCHANGED stored) \/ Idle \/ UNCHANGED vars
  <2>1. UNCHANGED <<input_vars, output_vars, net_private, cov_private, global_vars, stored, file_idx>>
    BY <1>4 DEF OutputElse, OutputMoves, TakeBlock, NameDirectory, MakeDirectory,
       StampFiles, CheckType, FormatName, CreateFile, OpenFiles, WriteBeam, WriteCrash,
       CountBlock, RenameFile, OutputWaitError, Idle, vars, out_private
  <2>2. UNCHANGED <<InRing, InHand, OutRing>>
    BY <2>1 DEF InRing, InHand, OutRing, RingSeq, input_vars, output_vars, cov_private
  <2> QED BY <2>1, <2>2 DEF OthersFlow, Keeps, InFlight, input_vars, cov_private
<1> QED BY <1>1, <1>2, <1>3, <1>4 DEF PipelineNext, OutputRuns

(* Before anything has moved nothing is in flight.                         *)
LEMMA FlowInit == PipelineInit => InFlight = <<>> /\ stored = <<>>
<1> SUFFICES ASSUME PipelineInit PROVE InFlight = <<>> /\ stored = <<>>
  OBVIOUS
<1>1. Cardinality({}) = 0
  BY FS_EmptySet
<1>2. Filled(in_sem) = {} /\ Filled(out_sem) = {}
  BY DEF PipelineInit, NetInit, TL_input_databuf_create, TL_output_databuf_create, Filled
<1>3. InRing = <<>> /\ OutRing = <<>>
  <2>1. NetInv /\ RestTypeOK /\ RingInv
    BY NetInitInv, RestTypeInit, RingInit DEF PipelineInit
  <2>2. IsRing(InRing, in_sem, in_netmcnt, in_data, cov_in_idx, N_INPUT_BLOCKS)
    BY <2>1, RingsAre, RingSeqIs DEF InRing
  <2>3. IsRing(OutRing, out_sem, out_netmcnt, out_data, file_idx, N_OUTPUT_BLOCKS)
    BY <2>1, RingsAre, RingSeqIs DEF OutRing
  <2> QED BY <1>1, <1>2, <2>2, <2>3, EmptySeq DEF IsRing
<1>4. InHand = <<>> /\ stored = <<>>
  BY DEF PipelineInit, GpuInit, InHand
<1> QED BY <1>3, <1>4 DEF InFlight

(* What the pipeline does to blocks of packets of data_type 0, as long as  *)
(* no wait fails, is what a bounded first-in first-out buffer may do: none *)
(* is lost, repeated, reordered or altered between the net thread and the  *)
(* disk, for rings and blocks of any size and any schedule.                *)
THEOREM PipelineIsFifo ==
  ASSUME SourceTypes \subseteq {0}, ~WaitErrors
  PROVE  PipelineSpec => ImplementsFifoSafe
<1>1. PipelineInit => Fifo!FifoInit
  BY FlowInit DEF Fifo!FifoInit
<1>2. PipelineInv /\ NetInv' /\ [PipelineNext]_vars
        => [Fifo!Accept \/ Fifo!Deliver]_(Fifo!fifo_vars)
  <2> SUFFICES ASSUME PipelineInv, NetInv', [PipelineNext]_vars
               PROVE  [Fifo!Accept \/ Fifo!Deliver]_(Fifo!fifo_vars)
    OBVIOUS
  <2>1. CASE Keeps
    BY <2>1 DEF Keeps, Fifo!fifo_vars
  <2>2. CASE Accepts
    <3>1. Published \in [netmcnt : Mcnts, data : [Slots -> Mcnts \cup {Blank}]]
      BY PublishedIs DEF PipelineInv
    <3>2. Fifo!Accept
      BY <2>2, <3>1 DEF Accepts, Fifo!Accept
    <3> QED BY <3>2
  <2>3. CASE Delivers
    <3>1. InFlight # <<>> /\ Head(InFlight) = Written /\ Tail(InFlight) = InFlight'
      BY <2>3, FirstAndRest DEF Delivers
    <3>2. Fifo!Deliver
      BY <2>3, <3>1 DEF Delivers, Fifo!Deliver
    <3> QED BY <3>2
  <2> QED BY <2>1, <2>2, <2>3, FlowStep DEF NetFlows, OthersFlow, GpuDrops
<1>3. PipelineInv => NetInv
  BY DEF PipelineInv
<1> QED BY <1>1, <1>2, <1>3, PipelineInvariant, PTL
        DEF PipelineSpec, ImplementsFifoSafe, Fifo!FifoSafe

-----------------------------------------------------------------------------
(* The stream: blocks stored and blocks in flight.                         *)

LEMMA MoveOne ==
  ASSUME NEW a \in Seq(BlockSet), NEW x \in BlockSet, NEW c \in Seq(BlockSet)
  PROVE  Append(a, x) \o c = a \o (<<x>> \o c)
<1>1. <<x>> \in Seq(BlockSet)
  OBVIOUS
<1>2. Append(a, x) = a \o <<x>>
  BY AppendIsConcat
<1>3. (a \o <<x>>) \o c = a \o (<<x>> \o c)
  BY <1>1, ConcatAssociative
<1> QED BY <1>2, <1>3

LEMMA AppendInside ==
  ASSUME NEW a \in Seq(BlockSet), NEW c \in Seq(BlockSet), NEW x \in BlockSet
  PROVE  a \o Append(c, x) = Append(a \o c, x)
<1>1. <<x>> \in Seq(BlockSet) /\ a \o c \in Seq(BlockSet)
  BY ConcatProperties
<1>2. Append(c, x) = c \o <<x>> /\ Append(a \o c, x) = (a \o c) \o <<x>>
  BY <1>1, AppendIsConcat
<1>3. (a \o c) \o <<x>> = a \o (c \o <<x>>)
  BY <1>1, ConcatAssociative
<1> QED BY <1>2, <1>3

LEMMA Associative ==
  ASSUME NEW a \in Seq(BlockSet), NEW b \in Seq(BlockSet), NEW c \in Seq(BlockSet)
  PROVE  (a \o b) \o c = a \o (b \o c)
BY ConcatAssociative

LEMMA StreamType ==
  ASSUME PipelineInv
  PROVE  InFlight \in Seq(BlockSet) /\ stored \in Seq(BlockSet) /\ Stream \in Seq(BlockSet)
<1>1. InRing \in Seq(BlockSet) /\ OutRing \in Seq(BlockSet) /\ InHand \in Seq(BlockSet)
  BY RingSequences DEF PipelineInv
<1>2. InFlight \in Seq(BlockSet)
  BY ONLY <1>1, PartsType DEF InFlight
<1>3. stored \in Seq(BlockSet)
  BY DEF PipelineInv, FlowInv
<1> QED BY <1>2, <1>3, ConcatProperties DEF Stream

(* The gpu thread gives up: the block in its hands is gone.                *)
Drops ==
  /\ cov_pc = "wait_out" /\ cov_pc' = "exited"
  /\ Stream = (stored \o OutRing) \o (InHand \o InRing)
  /\ Stream' = (stored \o OutRing) \o InRing
  /\ Len(InHand) = 1

NetAppends ==
  /\ NetStep
  /\ UNCHANGED cov_private
  /\ Stream' = IF MarkBlock \/ ZeroTail THEN Append(Stream, Published) ELSE Stream

OthersKeep ==
  /\ UNCHANGED <<net_private, global_vars, in_data>>
  /\ \/ Stream' = Stream /\ (cov_pc = "exited" => cov_pc' = "exited")
     \/ Drops

LEMMA StreamStep ==
  ASSUME PipelineInv, NetInv', [PipelineNext]_vars
  PROVE  NetAppends \/ OthersKeep
<1>1. InFlight \in Seq(BlockSet) /\ stored \in Seq(BlockSet)
  BY StreamType
<1>2. CASE NetFlows
  <2>1. CASE MarkBlock \/ ZeroTail
    <3>1. Published \in BlockSet
      <4>1. Published \in [netmcnt : Mcnts, data : [Slots -> Mcnts \cup {Blank}]]
        BY PublishedIs DEF PipelineInv
      <4> QED BY <4>1 DEF BlockSet
    <3>2. stored \o Append(InFlight, Published) = Append(stored \o InFlight, Published)
      BY ONLY <1>1, <3>1, AppendInside
    <3> QED BY <1>2, <2>1, <3>2 DEF NetFlows, NetAppends, Accepts, Stream
  <2>2. CASE ~(MarkBlock \/ ZeroTail)
    BY <1>2, <2>2 DEF NetFlows, NetAppends, Keeps, Stream
  <2> QED BY <2>1, <2>2
<1>3. CASE OthersFlow
  <2>1. CASE Keeps /\ (cov_pc = "exited" => cov_pc' = "exited")
    BY <1>3, <2>1 DEF OthersFlow, OthersKeep, Keeps, Stream
  <2>2. CASE Delivers /\ UNCHANGED cov_pc
    <3>1. Append(stored, Written) \o InFlight' = stored \o (<<Written>> \o InFlight')
      <4>1. Written \in BlockSet /\ InFlight' \in Seq(BlockSet)
        BY <2>2 DEF Delivers
      <4> QED BY ONLY <1>1, <4>1, MoveOne
    <3>2. Stream' = Stream
      BY <2>2, <3>1 DEF Delivers, Stream
    <3> QED BY <1>3, <2>2, <3>2 DEF OthersFlow, OthersKeep
  <2>3. CASE GpuDrops /\ UNCHANGED stored
    <3>1. InRing \in Seq(BlockSet) /\ OutRing \in Seq(BlockSet) /\ InHand \in Seq(BlockSet)
      BY RingSequences DEF PipelineInv
    <3>2. InHand' = <<>> /\ Len(InHand) = 1
      BY <2>3 DEF GpuDrops, InHand
    <3>3. OutRing \o <<>> = OutRing
      BY <3>1, ConcatEmptySeq
    <3>4. stored \o (OutRing \o InRing) = (stored \o OutRing) \o InRing
      BY ONLY <1>1, <3>1, Associative
    <3>5. (OutRing \o InHand) \o InRing = OutRing \o (InHand \o InRing)
      BY ONLY <3>1, Associative
    <3>6. InHand \o InRing \in Seq(BlockSet)
      BY ONLY <3>1, ConcatProperties
    <3>7. stored \o (OutRing \o (InHand \o InRing)) = (stored \o OutRing) \o (InHand \o InRing)
      BY ONLY <1>1, <3>1, <3>6, Associative
    <3>8. Stream = (stored \o OutRing) \o (InHand \o InRing)
      BY <3>5, <3>7 DEF Stream, InFlight
    <3>9. Stream' = (stored \o OutRing) \o InRing
      BY <2>3, <3>2, <3>3, <3>4 DEF Stream, InFlight, GpuDrops
    <3> QED BY <1>3, <2>3, <3>2, <3>8, <3>9 DEF OthersFlow, OthersKeep, Drops, GpuDrops
  <2> QED BY <1>3, <2>1, <2>2, <2>3 DEF OthersFlow
<1> QED BY <1>2, <1>3, FlowStep

(* Nothing is in the stream before the first packet.                       *)
EmptyInv == ~start_file => Stream = <<>> /\ offset = 0

LEMMA EmptyNext ==
  ASSUME PipelineInv, NetInv', EmptyInv, [PipelineNext]_vars
  PROVE  EmptyInv'
<1> SUFFICES ASSUME ~start_file' PROVE Stream' = <<>> /\ offset' = 0
  BY DEF EmptyInv
<1>1. CASE NetAppends
  <2>1. start_file' = start_file \/ (start_file' = (start_file \/ total_packets_counted = 0))
    BY <1>1 DEF NetAppends, NetStep, NetInternal, CheckFirstTwoBlocks, CopyPacket,
       MarkBlock, ZeroTail, ZeroHead, ZeroGap, NetWaitError, Receive, ReceiveExpected,
       ReceiveUnexpected, ParsePacket, global_vars
  <2>2. ~start_file
    BY <2>1 DEF PipelineInv, NetInv, NetTypeOK
  <2>3. total_packets_counted = 0 /\ net_pc \in {"check0", "check1", "recv", "exited"}
    BY <2>2 DEF PipelineInv, StartInv
  <2>4. ~Receive
    BY <2>3 DEF Receive, ReceiveExpected, ReceiveUnexpected, ParsePacket
  <2>5. CheckFirstTwoBlocks \/ NetWaitError
    BY <1>1, <2>3, <2>4 DEF NetAppends, NetStep, NetInternal, CopyPacket, MarkBlock,
       ZeroTail, ZeroHead, ZeroGap
  <2>6. ~(MarkBlock \/ ZeroTail)
    BY <2>3 DEF MarkBlock, ZeroTail
  <2> QED BY <1>1, <2>2, <2>5, <2>6 DEF NetAppends, EmptyInv, CheckFirstTwoBlocks,
             NetWaitError
<1>2. CASE OthersKeep
  <2>1. ~start_file /\ offset' = offset
    BY <1>2 DEF OthersKeep, net_private, global_vars
  <2>2. ~Drops
    BY <2>1 DEF Drops, PipelineInv, StartInv
  <2> QED BY <1>2, <2>1, <2>2 DEF OthersKeep, EmptyInv
<1> QED BY <1>1, <1>2, StreamStep

-----------------------------------------------------------------------------
(* Received and missed packets are accounted for in the pipeline too.      *)
LEMMA PipelineAccounting ==
  ASSUME CountMod > MaxMcnt + 2
  PROVE  PipelineSpec => []AccountingInv
<1>1. PipelineInit => AccountingInv
  BY DEF PipelineInit, NetInit, GlobalsInit, AccountingInv
<1>2. NetInv /\ GpuHolds /\ AccountingInv /\ [PipelineNext]_vars => AccountingInv'
  BY PipelineStepForNet, AccountingStep
<1> QED BY <1>1, <1>2, PipelineNetInvariant, PTL DEF PipelineSpec

LEMMA EmptyInvariant ==
  ASSUME SourceTypes \subseteq {0}
  PROVE  PipelineSpec => []EmptyInv
<1>1. PipelineInit => EmptyInv
  <2>1. <<>> \o <<>> = <<>>
    OBVIOUS
  <2> QED BY <2>1, FlowInit DEF PipelineInit, NetInit, EmptyInv, Stream
<1>2. PipelineInv /\ NetInv' /\ EmptyInv /\ [PipelineNext]_vars => EmptyInv'
  BY EmptyNext
<1>3. PipelineInv => NetInv
  BY DEF PipelineInv
<1> QED BY <1>1, <1>2, <1>3, PipelineInvariant, PTL DEF PipelineSpec

-----------------------------------------------------------------------------
(* Without losses: the blocks hold consecutive packets, from the first on, *)
(* and the block being laid out continues them.                            *)
Consecutive(q, first) ==
  \A k \in 1 .. Len(q), s \in Slots : q[k].data[s] = first + (k - 1) * N_SPEC_BUFF + s

Continues(q, first, data, n) ==
  \A s \in 0 .. n - 1 : data[s] = first + Len(q) * N_SPEC_BUFF + s

LossInv ==
  /\ net_pc \in {"roll_tail", "roll_head", "gap"} => miss_pkt > 0
  /\ start_file /\ miss_pkt = 0 /\ cov_pc # "exited" /\ net_pc \in {"recv", "copy", "mark"} =>
       /\ Len(Stream) * N_SPEC_BUFF + offset = cur_mcnt - init_mcnt
       /\ Consecutive(Stream, init_mcnt)
       /\ Continues(Stream, init_mcnt, in_data[net_idx], offset)

LEMMA ConsecutiveAppend ==
  ASSUME NEW q \in Seq(BlockSet), NEW x \in BlockSet, NEW first \in Int,
         Consecutive(q, first), Continues(q, first, x.data, N_SPEC_BUFF)
  PROVE  Consecutive(Append(q, x), first)
<1> DEFINE a == Append(q, x)
<1>1. /\ Len(q) \in Nat /\ Len(a) = Len(q) + 1 /\ a[Len(q) + 1] = x
      /\ \A k \in 1 .. Len(q) : a[k] = q[k]
  BY AppendProperties, LenProperties
<1> HIDE DEF a
<1> SUFFICES ASSUME NEW k \in 1 .. Len(a), NEW s \in Slots
             PROVE  a[k].data[s] = first + (k - 1) * N_SPEC_BUFF + s
  BY DEF Consecutive, a
<1>2. CASE k = Len(q) + 1
  <2>1. k - 1 = Len(q)
    BY <1>1, <1>2
  <2> QED BY <1>1, <1>2, <2>1 DEF Continues, Slots
<1>3. CASE k # Len(q) + 1
  <2>1. k \in 1 .. Len(q)
    BY <1>1, <1>3
  <2> QED BY <1>1, <2>1 DEF Consecutive
<1> QED BY <1>2, <1>3

LEMMA NextMultiple ==
  ASSUME NEW k \in Nat
  PROVE  (k + 1) * N_SPEC_BUFF = k * N_SPEC_BUFF + N_SPEC_BUFF /\ k * N_SPEC_BUFF \in Nat
BY Constants

(* What a step of the net thread preserves.                                *)
LEMMA LossNet ==
  ASSUME CountMod > MaxMcnt + 2, PipelineInv, NetInv', AccountingInv, EmptyInv, LossInv,
         NetAppends
  PROVE  LossInv'
<1> USE Constants
<1>0. Stream \in Seq(BlockSet) /\ Len(Stream) \in Nat
  BY StreamType, LenProperties
<1>1. UNCHANGED cov_pc
  BY DEF NetAppends, cov_private
<1>2. NetInv
  BY DEF PipelineInv
<1>3. ASSUME Receive PROVE LossInv'
  <2>1. PICK m \in Arrivals, s \in SourceTypes, g \in BeamGroups :
          ReceiveExpected(m, s, g) \/ ReceiveUnexpected(m, s, g)
    BY <1>3 DEF Receive
  <2>2. ParsePacket(m, s, g)
    BY <2>1 DEF ReceiveExpected, ReceiveUnexpected
  <2>3. Stream' = Stream
    BY <2>2 DEF NetAppends, ParsePacket, MarkBlock, ZeroTail
  <2>4. UNCHANGED <<in_data, offset, net_idx>>
    BY <2>2 DEF ParsePacket, input_vars
  <2>5. start_file <=> total_packets_counted # 0
    BY <1>2, <2>2 DEF AccountingInv, ParsePacket, NetInv, NetTypeOK
  <2>6. m \in Mcnts
    BY <1>2, <2>2, ParseInv
  <2>7. CASE ReceiveExpected(m, s, g)
    <3>1. net_pc' = "copy" /\ miss_pkt' = miss_pkt /\ CurMcntAt(m) = m
      BY <2>7 DEF ReceiveExpected
    <3>2. CASE start_file
      <4>1. cur_mcnt' = cur_mcnt /\ init_mcnt' = init_mcnt /\ net_pc = "recv"
        BY <2>2, <2>5, <3>2 DEF ParsePacket, CurMcntAt
      <4> QED BY <1>1, <2>3, <2>4, <3>1, <3>2, <4>1 DEF LossInv
    <3>3. CASE ~start_file
      <4>1. cur_mcnt' = m /\ init_mcnt' = m
        BY <2>2, <2>5, <3>3 DEF ParsePacket, CurMcntAt
      <4>2. Stream = <<>> /\ offset = 0
        BY <3>3 DEF EmptyInv
      <4>3. Len(Stream) * N_SPEC_BUFF + offset = m - m
        BY <2>6, <4>2 DEF Mcnts
      <4>4. Consecutive(Stream, m) /\ Continues(Stream, m, in_data[net_idx], offset)
        BY <4>2 DEF Consecutive, Continues
      <4> QED BY <2>3, <2>4, <3>1, <4>1, <4>3, <4>4 DEF LossInv
    <3> QED BY <3>2, <3>3
  <2>8. CASE ReceiveUnexpected(m, s, g)
    <3>1. net_pc' \in {"roll_tail", "gap", "exited"}
      BY <2>8 DEF ReceiveUnexpected
    <3>2. net_pc' # "exited" => miss_pkt' > 0
      <4>1. net_pc' # "exited" => m > CurMcntAt(m)
        BY <1>2, <2>8, UnexpectedAhead
      <4>2. miss_pkt >= 0
        BY <2>2 DEF ParsePacket, AccountingInv
      <4>3. miss_pkt' = miss_pkt + (m - CurMcntAt(m)) /\ CurMcntAt(m) \in Int
        BY <1>2, <2>6, <2>8 DEF ReceiveUnexpected, CurMcntAt, NetInv, NetTypeOK, Mcnts
      <4> QED BY <1>2, <2>6, <4>1, <4>2, <4>3 DEF NetInv, NetTypeOK, Mcnts
    <3> QED BY <3>1, <3>2 DEF LossInv
  <2> QED BY <2>1, <2>7, <2>8
<1>4. ASSUME CopyPacket PROVE LossInv'
  <2>1. /\ net_pc = "copy" /\ net_pc' \in {"mark", "recv"}
        /\ in_data' = [in_data EXCEPT ![net_idx][offset] = pkt_mcnt]
        /\ offset' = offset + 1 /\ cur_mcnt' = cur_mcnt + 1
        /\ UNCHANGED <<start_file, init_mcnt, miss_pkt, net_idx>>
    BY <1>4 DEF CopyPacket, global_vars
  <2>2. Stream' = Stream
    BY <2>1 DEF NetAppends, MarkBlock, ZeroTail
  <2> SUFFICES ASSUME start_file, miss_pkt = 0, cov_pc # "exited"
               PROVE  /\ Len(Stream) * N_SPEC_BUFF + offset' = cur_mcnt' - init_mcnt
                      /\ Consecutive(Stream, init_mcnt)
                      /\ Continues(Stream, init_mcnt, in_data'[net_idx], offset')
    BY <1>1, <2>1, <2>2 DEF LossInv
  <2>3. /\ Len(Stream) * N_SPEC_BUFF + offset = cur_mcnt - init_mcnt
        /\ Consecutive(Stream, init_mcnt)
        /\ Continues(Stream, init_mcnt, in_data[net_idx], offset)
    BY <2>1 DEF LossInv
  <2>4. /\ offset \in 0 .. N_SPEC_BUFF - 1 /\ cur_mcnt \in Int /\ init_mcnt \in Int
        /\ in_data[net_idx] \in [Slots -> Mcnts \cup {Blank}] /\ net_idx \in InBlocks
        /\ in_data \in [InBlocks -> [Slots -> Mcnts \cup {Blank}]]
        /\ pkt_mcnt = cur_mcnt
    BY <1>2, <2>1 DEF NetInv, NetTypeOK, NetControl, Mcnts
  <2>5. Len(Stream) * N_SPEC_BUFF \in Nat
    BY <1>0, NextMultiple
  <2>6. in_data'[net_idx] = [in_data[net_idx] EXCEPT ![offset] = cur_mcnt]
    BY <2>1, <2>4
  <2>7. Continues(Stream, init_mcnt, in_data'[net_idx], offset + 1)
    <3> SUFFICES ASSUME NEW t \in 0 .. (offset + 1) - 1
                 PROVE  in_data'[net_idx][t] = init_mcnt + Len(Stream) * N_SPEC_BUFF + t
      BY DEF Continues
    <3>1. CASE t = offset
      BY <2>3, <2>4, <2>5, <2>6, <3>1 DEF Slots
    <3>2. CASE t # offset
      <4>1. t \in 0 .. offset - 1 /\ t \in Slots
        BY <2>4, <3>2 DEF Slots
      <4>2. in_data'[net_idx][t] = in_data[net_idx][t]
        BY <2>4, <2>6, <3>2, <4>1
      <4> QED BY <2>3, <4>1, <4>2 DEF Continues
    <3> QED BY <3>1, <3>2
  <2>8. Len(Stream) * N_SPEC_BUFF + offset' = cur_mcnt' - init_mcnt
    BY <2>1, <2>3, <2>4, <2>5
  <2> QED BY <2>1, <2>3, <2>7, <2>8
<1>5. ASSUME MarkBlock PROVE LossInv'
  <2>1. /\ net_pc = "mark" /\ net_pc' = "recv" /\ offset' = 0
        /\ UNCHANGED <<start_file, init_mcnt, miss_pkt, cur_mcnt, in_data>>
    BY <1>5 DEF MarkBlock, global_vars
  <2>2. Stream' = Append(Stream, Published)
    BY <1>5 DEF NetAppends
  <2> SUFFICES ASSUME start_file, miss_pkt = 0, cov_pc # "exited"
               PROVE  /\ Len(Stream') * N_SPEC_BUFF + 0 = cur_mcnt - init_mcnt
                      /\ Consecutive(Stream', init_mcnt)
                      /\ Continues(Stream', init_mcnt, in_data'[net_idx'], 0)
    BY <1>1, <2>1 DEF LossInv
  <2>3. /\ Len(Stream) * N_SPEC_BUFF + offset = cur_mcnt - init_mcnt
        /\ Consecutive(Stream, init_mcnt)
        /\ Continues(Stream, init_mcnt, in_data[net_idx], offset)
    BY <2>1 DEF LossInv
  <2>4. offset = N_SPEC_BUFF /\ init_mcnt \in Int /\ cur_mcnt \in Int
    BY <1>2, <2>1 DEF NetInv, NetControl, NetTypeOK, Mcnts
  <2>5. Published \in BlockSet /\ Published.data = in_data[net_idx]
    <3>1. Published \in [netmcnt : Mcnts, data : [Slots -> Mcnts \cup {Blank}]]
      BY <1>2, PublishedIs
    <3> QED BY <2>1, <3>1 DEF BlockSet, Published
  <2>6. Consecutive(Stream', init_mcnt)
    BY <1>0, <2>2, <2>3, <2>4, <2>5, ConsecutiveAppend
  <2>7. Len(Stream') = Len(Stream) + 1
    BY <1>0, <2>2, <2>5, AppendProperties
  <2>8. Len(Stream') * N_SPEC_BUFF = Len(Stream) * N_SPEC_BUFF + N_SPEC_BUFF
    BY <1>0, <2>7, NextMultiple
  <2>9. Len(Stream') * N_SPEC_BUFF + 0 = cur_mcnt - init_mcnt
    BY <1>0, <2>3, <2>4, <2>8, NextMultiple
  <2> QED BY <2>6, <2>9 DEF Continues
<1>6. ASSUME ZeroTail \/ ZeroHead \/ ZeroGap PROVE LossInv'
  <2>1. miss_pkt > 0 /\ miss_pkt' = miss_pkt /\ net_pc' \in {"recv", "roll_head"}
    BY <1>6 DEF ZeroTail, ZeroHead, ZeroGap, LossInv
  <2> QED BY <1>2, <2>1 DEF LossInv, NetInv, NetTypeOK
<1>7. ASSUME CheckFirstTwoBlocks PROVE LossInv'
  BY <1>7 DEF CheckFirstTwoBlocks, LossInv, AccountingInv, global_vars
<1>8. ASSUME NetWaitError PROVE LossInv'
  BY <1>8 DEF NetWaitError, LossInv
<1> QED BY <1>3, <1>4, <1>5, <1>6, <1>7, <1>8 DEF NetAppends, NetStep, NetInternal

LEMMA LossNext ==
  ASSUME CountMod > MaxMcnt + 2, PipelineInv, NetInv', AccountingInv, EmptyInv, LossInv,
         [PipelineNext]_vars
  PROVE  LossInv'
<1>1. CASE OthersKeep
  BY <1>1 DEF OthersKeep, Drops, LossInv, net_private, global_vars
<1> QED BY <1>1, StreamStep, LossNet

(* As long as nothing is missed, what is on disk, in the rings and in the  *)
(* gpu thread's hands is the stream received, packet by packet, until the  *)
(* gpu thread gives up: for rings and blocks of any size, any number of    *)
(* blocks and any schedule, if the 32-bit count of packets does not wrap   *)
(* and all packets are of data_type 0.                                     *)
THEOREM LossFree ==
  ASSUME SourceTypes \subseteq {0}, CountMod > MaxMcnt + 2
  PROVE  PipelineSpec => []LossFreeExact
<1>1. PipelineInit => LossInv
  BY DEF PipelineInit, NetInit, GlobalsInit, LossInv
<1>2. PipelineInv /\ NetInv' /\ AccountingInv /\ EmptyInv /\ LossInv /\ [PipelineNext]_vars
        => LossInv'
  BY LossNext
<1>3. PipelineInv => NetInv
  BY DEF PipelineInv
<1>4. LossInv => LossFreeExact
  BY DEF LossInv, LossFreeExact, Consecutive
<1> QED BY <1>1, <1>2, <1>3, <1>4, PipelineInvariant, PipelineAccounting, EmptyInvariant,
           PTL
        DEF PipelineSpec

-----------------------------------------------------------------------------
(* Whatever is lost: what is published is in order, and before what is     *)
(* being laid out, which is before the packet expected next.               *)

(* The slots of the block being laid out that hold what it will be         *)
(* published with.                                                         *)
LaidOut == IF net_pc = "roll_head" THEN 0 ELSE offset

Sorted(q) ==
  /\ \A k \in 1 .. Len(q) : Increasing(q[k].data)
  /\ \A k, l \in 1 .. Len(q) : k < l => Precedes(q[k].data, q[l].data)

AllBefore(q, m) ==
  \A k \in 1 .. Len(q), s \in Slots : q[k].data[s] # Blank => q[k].data[s] < m

AllPrecede(q, data, n) ==
  \A k \in 1 .. Len(q), i \in Slots, s \in 0 .. n - 1 :
    q[k].data[i] # Blank /\ data[s] # Blank => q[k].data[i] < data[s]

InOrder(data, n, m) ==
  /\ \A s \in 0 .. n - 1 : data[s] # Blank => data[s] < m
  /\ \A s, t \in 0 .. n - 1 : s < t /\ data[s] # Blank /\ data[t] # Blank => data[s] < data[t]

OrderInv ==
  /\ Sorted(Stream)
  /\ net_pc # "exited" =>
       /\ AllBefore(Stream, cur_mcnt)
       /\ AllPrecede(Stream, in_data[net_idx], LaidOut)
       /\ InOrder(in_data[net_idx], LaidOut, cur_mcnt)
  /\ net_pc \in {"copy", "roll_tail", "roll_head", "gap"} => cur_mcnt <= pkt_mcnt

(* A block whose packets follow all those of the stream.                   *)
LEMMA SortedAppend ==
  ASSUME NEW q \in Seq(BlockSet), NEW x \in BlockSet, Sorted(q), Increasing(x.data),
         \A k \in 1 .. Len(q) : Precedes(q[k].data, x.data)
  PROVE  Sorted(Append(q, x))
<1> DEFINE a == Append(q, x)
<1>1. /\ Len(q) \in Nat /\ Len(a) = Len(q) + 1 /\ a[Len(q) + 1] = x
      /\ \A k \in 1 .. Len(q) : a[k] = q[k]
  BY AppendProperties, LenProperties
<1> HIDE DEF a
<1>2. ASSUME NEW k \in 1 .. Len(a) PROVE Increasing(a[k].data)
  BY <1>1 DEF Sorted
<1>3. ASSUME NEW k \in 1 .. Len(a), NEW l \in 1 .. Len(a), k < l
      PROVE  Precedes(a[k].data, a[l].data)
  <2>1. k \in 1 .. Len(q) /\ a[k] = q[k]
    BY <1>1, <1>3
  <2>2. CASE l = Len(q) + 1
    BY <1>1, <2>1, <2>2
  <2>3. CASE l # Len(q) + 1
    <3>1. l \in 1 .. Len(q) /\ a[l] = q[l]
      BY <1>1, <2>3
    <3> QED BY <1>3, <2>1, <3>1 DEF Sorted
  <2> QED BY <2>2, <2>3
<1> QED BY <1>2, <1>3 DEF Sorted, a

LEMMA BeforeAppend ==
  ASSUME NEW q \in Seq(BlockSet), NEW x \in BlockSet, NEW m, AllBefore(q, m),
         \A s \in Slots : x.data[s] # Blank => x.data[s] < m
  PROVE  AllBefore(Append(q, x), m)
<1> DEFINE a == Append(q, x)
<1>1. /\ Len(q) \in Nat /\ Len(a) = Len(q) + 1 /\ a[Len(q) + 1] = x
      /\ \A k \in 1 .. Len(q) : a[k] = q[k]
  BY AppendProperties, LenProperties
<1> HIDE DEF a
<1>2. ASSUME NEW k \in 1 .. Len(a) PROVE k \in 1 .. Len(q) \/ k = Len(q) + 1
  BY <1>1
<1>3. AllBefore(a, m)
  BY <1>1, <1>2 DEF AllBefore
<1> QED BY <1>3 DEF a

(* Taking one block out leaves the rest in order.                          *)
LEMMA WithoutOne ==
  ASSUME NEW a \in Seq(BlockSet), NEW h \in Seq(BlockSet), NEW c \in Seq(BlockSet), Len(h) = 1
  PROVE  /\ Len(a \o (h \o c)) = Len(a \o c) + 1
         /\ Len(a \o c) \in Nat
         /\ \A k \in 1 .. Len(a \o c) :
              (a \o c)[k] = (a \o (h \o c))[IF k <= Len(a) THEN k ELSE k + 1]
<1>1. Len(a) \in Nat /\ Len(c) \in Nat
  BY LenProperties
<1>2. /\ h \o c \in Seq(BlockSet) /\ Len(h \o c) = 1 + Len(c)
      /\ \A i \in 1 .. 1 + Len(c) : (h \o c)[i] = IF i <= 1 THEN h[i] ELSE c[i - 1]
  <2>1. /\ h \o c \in Seq(BlockSet) /\ Len(h \o c) = Len(h) + Len(c)
        /\ \A i \in 1 .. Len(h) + Len(c) :
             (h \o c)[i] = IF i <= Len(h) THEN h[i] ELSE c[i - Len(h)]
    BY ConcatProperties
  <2> QED BY <2>1
<1> DEFINE d == h \o c
<1>3. /\ Len(a \o c) = Len(a) + Len(c)
      /\ \A i \in 1 .. Len(a) + Len(c) :
           (a \o c)[i] = IF i <= Len(a) THEN a[i] ELSE c[i - Len(a)]
  BY ConcatProperties
<1>4. /\ Len(a \o (h \o c)) = Len(a) + (1 + Len(c))
      /\ \A i \in 1 .. Len(a) + (1 + Len(c)) :
           (a \o (h \o c))[i] = IF i <= Len(a) THEN a[i] ELSE (h \o c)[i - Len(a)]
  <2>1. d \in Seq(BlockSet) /\ Len(d) = 1 + Len(c)
    BY <1>2
  <2> HIDE DEF d
  <2>2. /\ Len(a \o d) = Len(a) + Len(d)
        /\ \A i \in 1 .. Len(a) + Len(d) :
             (a \o d)[i] = IF i <= Len(a) THEN a[i] ELSE d[i - Len(a)]
    BY <2>1, ConcatProperties
  <2>3. /\ Len(a \o d) = Len(a) + (1 + Len(c))
        /\ \A i \in 1 .. Len(a) + (1 + Len(c)) :
             (a \o d)[i] = IF i <= Len(a) THEN a[i] ELSE d[i - Len(a)]
    BY <2>1, <2>2
  <2> QED BY <2>3 DEF d
<1>5. ASSUME NEW k \in 1 .. Len(a \o c)
      PROVE  (a \o c)[k] = (a \o (h \o c))[IF k <= Len(a) THEN k ELSE k + 1]
  <2>1. CASE k <= Len(a)
    BY <1>1, <1>3, <1>4, <2>1
  <2>2. CASE ~(k <= Len(a))
    <3>1. k + 1 \in 1 .. Len(a) + (1 + Len(c)) /\ ~(k + 1 <= Len(a)) /\ k \in 1 .. Len(a) + Len(c)
      BY <1>1, <1>3, <2>2
    <3>2. (a \o (h \o c))[k + 1] = (h \o c)[(k + 1) - Len(a)]
      BY <1>4, <3>1
    <3>3. (k + 1) - Len(a) \in 1 .. 1 + Len(c) /\ ~((k + 1) - Len(a) <= 1)
          /\ ((k + 1) - Len(a)) - 1 = k - Len(a)
      BY <1>1, <1>3, <2>2
    <3>4. (h \o c)[(k + 1) - Len(a)] = c[k - Len(a)]
      BY <1>2, <3>3
    <3>5. (a \o c)[k] = c[k - Len(a)]
      BY <1>3, <2>2, <3>1
    <3> QED BY <2>2, <3>2, <3>4, <3>5
  <2> QED BY <2>1, <2>2
<1> QED BY <1>1, <1>3, <1>4, <1>5

LEMMA DropOrdered ==
  ASSUME PipelineInv, Drops
  PROVE  /\ Sorted(Stream) => Sorted(Stream')
         /\ AllBefore(Stream, cur_mcnt) => AllBefore(Stream', cur_mcnt)
         /\ AllPrecede(Stream, in_data[net_idx], LaidOut)
              => AllPrecede(Stream', in_data[net_idx], LaidOut)
<1> DEFINE a == stored \o OutRing
<1>1. InRing \in Seq(BlockSet) /\ OutRing \in Seq(BlockSet) /\ InHand \in Seq(BlockSet)
  BY RingSequences DEF PipelineInv
<1>2. stored \in Seq(BlockSet)
  BY StreamType
<1>3. a \in Seq(BlockSet)
  BY ONLY <1>1, <1>2, ConcatProperties
<1> DEFINE f(k) == IF k <= Len(a) THEN k ELSE k + 1
<1>4. Len(a) \in Nat
  BY <1>3, LenProperties
<1>5. Stream = a \o (InHand \o InRing) /\ Stream' = a \o InRing /\ Len(InHand) = 1
  BY DEF Drops
<1> HIDE DEF a
<1>6. /\ Len(Stream) = Len(Stream') + 1 /\ Len(Stream') \in Nat
      /\ \A k \in 1 .. Len(Stream') : Stream'[k] = Stream[f(k)]
  <2>1. /\ Len(a \o (InHand \o InRing)) = Len(a \o InRing) + 1
        /\ Len(a \o InRing) \in Nat
        /\ \A k \in 1 .. Len(a \o InRing) :
             (a \o InRing)[k] = (a \o (InHand \o InRing))[IF k <= Len(a) THEN k ELSE k + 1]
    BY <1>1, <1>3, <1>5, WithoutOne
  <2> QED BY <1>5, <2>1
<1>7. /\ \A k \in 1 .. Len(Stream') : f(k) \in 1 .. Len(Stream)
      /\ \A k, l \in 1 .. Len(Stream') : k < l => f(k) < f(l)
  BY <1>4, <1>6
<1> HIDE DEF f
<1>8. Sorted(Stream) => Sorted(Stream')
  BY <1>6, <1>7 DEF Sorted
<1>9. AllBefore(Stream, cur_mcnt) => AllBefore(Stream', cur_mcnt)
  BY <1>6, <1>7 DEF AllBefore
<1>10. AllPrecede(Stream, in_data[net_idx], LaidOut)
         => AllPrecede(Stream', in_data[net_idx], LaidOut)
  BY <1>6, <1>7 DEF AllPrecede
<1> QED BY <1>8, <1>9, <1>10

(* A block of which nothing is left but slots of one laid out in order.    *)
Blocks == [Slots -> Mcnts \cup {Blank}]

LeftOf(d, data, n) == \A s \in Slots : d[s] = Blank \/ (s < n /\ d[s] = data[s])

LEMMA LeftInOrder ==
  ASSUME NEW data \in Blocks, NEW d \in Blocks, NEW n \in 0 .. N_SPEC_BUFF, NEW m \in Int,
         LeftOf(d, data, n), InOrder(data, n, m)
  PROVE  /\ Increasing(d)
         /\ \A s \in Slots : d[s] # Blank => d[s] < m
<1>1. ASSUME NEW s \in Slots, d[s] # Blank PROVE s \in 0 .. n - 1 /\ d[s] = data[s]
  BY <1>1, Constants DEF LeftOf, Slots
<1> QED BY <1>1 DEF InOrder, Increasing

LEMMA LeftPreceded ==
  ASSUME NEW q, NEW data \in Blocks, NEW d \in Blocks, NEW n \in 0 .. N_SPEC_BUFF,
         LeftOf(d, data, n), AllPrecede(q, data, n)
  PROVE  \A k \in 1 .. Len(q) : Precedes(q[k].data, d)
<1>1. ASSUME NEW s \in Slots, d[s] # Blank PROVE s \in 0 .. n - 1 /\ d[s] = data[s]
  BY <1>1, Constants DEF LeftOf, Slots
<1> QED BY <1>1 DEF AllPrecede, Precedes

LEMMA LaidAgain ==
  ASSUME NEW q, NEW d \in Blocks, NEW n \in 0 .. N_SPEC_BUFF, NEW m,
         Increasing(d), \A s \in Slots : d[s] # Blank => d[s] < m,
         \A k \in 1 .. Len(q) : Precedes(q[k].data, d)
  PROVE  InOrder(d, n, m) /\ AllPrecede(q, d, n)
<1>1. \A s \in 0 .. n - 1 : s \in Slots
  BY Constants DEF Slots
<1> QED BY <1>1 DEF InOrder, AllPrecede, Increasing, Precedes

LEMMA ZeroLeaves ==
  ASSUME NEW data \in Blocks, NEW lo \in Int
  PROVE  LeftOf(ZeroRange(data, lo, N_SPEC_BUFF), data, lo)
BY Constants DEF Blocks, LeftOf, ZeroRange, Slots

(* Later packets are expected.                                             *)
LEMMA ExpectLater ==
  ASSUME NEW q \in Seq(BlockSet), NEW data \in Blocks, NEW n \in 0 .. N_SPEC_BUFF,
         NEW m \in Int, NEW later \in Int, m <= later
  PROVE  /\ AllBefore(q, m) => AllBefore(q, later)
         /\ InOrder(data, n, m) => InOrder(data, n, later)
<1>1. ASSUME NEW k \in 1 .. Len(q), NEW s \in Slots PROVE q[k].data[s] \in Int
  <2>1. q[k] \in BlockSet
    BY ElementOfSeq
  <2> QED BY <2>1 DEF BlockSet, Mcnts, Garbage
<1>2. ASSUME NEW s \in 0 .. n - 1 PROVE data[s] \in Int
  <2>1. s \in Slots
    BY Constants DEF Slots
  <2> QED BY <2>1 DEF Blocks, Mcnts
<1> QED BY <1>1, <1>2 DEF AllBefore, InOrder

(* The expected packet goes behind all that is laid out.                   *)
LEMMA LayPacket ==
  ASSUME NEW q \in Seq(BlockSet), NEW data \in Blocks, NEW n \in 0 .. N_SPEC_BUFF - 1,
         NEW m \in Mcnts, AllBefore(q, m), AllPrecede(q, data, n), InOrder(data, n, m),
         NEW d, d = [data EXCEPT ![n] = m]
  PROVE  AllPrecede(q, d, n + 1) /\ InOrder(d, n + 1, m + 1)
<1>1. n \in Slots /\ d[n] = m /\ m # Blank /\ m \in Int
  BY Constants DEF Slots, Blocks, Mcnts
<1>2. ASSUME NEW s \in 0 .. (n + 1) - 1, s # n
      PROVE  s \in 0 .. n - 1 /\ d[s] = data[s] /\ data[s] \in Int
  <2>1. s \in 0 .. n - 1 /\ s \in Slots
    BY <1>2, Constants DEF Slots
  <2> QED BY <1>2, <2>1 DEF Blocks, Mcnts
<1>3. AllPrecede(q, d, n + 1)
  <2> SUFFICES ASSUME NEW k \in 1 .. Len(q), NEW i \in Slots, NEW s \in 0 .. (n + 1) - 1,
                      q[k].data[i] # Blank, d[s] # Blank
               PROVE  q[k].data[i] < d[s]
    BY DEF AllPrecede
  <2>1. CASE s = n
    BY <1>1, <2>1 DEF AllBefore
  <2>2. CASE s # n
    BY <1>2, <2>2 DEF AllPrecede
  <2> QED BY <2>1, <2>2
<1>4. ASSUME NEW s \in 0 .. (n + 1) - 1, d[s] # Blank PROVE d[s] < m + 1
  BY <1>1, <1>2, <1>4 DEF InOrder
<1>5. ASSUME NEW s \in 0 .. (n + 1) - 1, NEW t \in 0 .. (n + 1) - 1,
             s < t, d[s] # Blank, d[t] # Blank
      PROVE  d[s] < d[t]
  <2>1. s # n
    BY <1>5
  <2>2. CASE t = n
    BY <1>1, <1>2, <1>5, <2>1, <2>2 DEF InOrder
  <2>3. CASE t # n
    BY <1>2, <1>5, <2>1, <2>3 DEF InOrder
  <2> QED BY <2>2, <2>3
<1> QED BY <1>3, <1>4, <1>5 DEF InOrder

(* The packet expected is never an earlier one again.                      *)
LEMMA ExpectsOnwards ==
  ASSUME NetInv, NEW m \in Arrivals, NEW s \in SourceTypes, NEW g \in BeamGroups,
         ParsePacket(m, s, g), start_file, ~LateDelivery \/ AccountingInv
  PROVE  cur_mcnt <= cur_mcnt'
<1>1. cur_mcnt \in Int
  BY DEF NetInv, NetTypeOK
<1>2. CASE total_packets_counted # 0
  BY <1>1, <1>2 DEF ParsePacket, CurMcntAt
<1>3. CASE ~LateDelivery
  BY <1>1, <1>3 DEF ParsePacket, CurMcntAt, Arrivals
<1> QED BY <1>2, <1>3 DEF AccountingInv, ParsePacket

LEMMA OrderReceive ==
  ASSUME ~LateDelivery \/ AccountingInv, PipelineInv, NetInv', EmptyInv, OrderInv,
         NetAppends, Receive
  PROVE  OrderInv'
<1>1. PICK m \in Arrivals, s \in SourceTypes, g \in BeamGroups :
        ReceiveExpected(m, s, g) \/ ReceiveUnexpected(m, s, g)
  BY DEF Receive
<1>2. ParsePacket(m, s, g) /\ net_pc = "recv"
  BY <1>1 DEF ReceiveExpected, ReceiveUnexpected, ParsePacket
<1>3. NetInv /\ m \in Mcnts /\ pkt_mcnt' = m /\ cur_mcnt' = CurMcntAt(m)
  BY <1>2, ParseInv DEF PipelineInv, ParsePacket
<1>4. Stream' = Stream /\ UNCHANGED <<in_data, offset, net_idx>>
  BY <1>2 DEF NetAppends, ParsePacket, MarkBlock, ZeroTail, input_vars
<1>5. net_pc' \in {"copy", "roll_tail", "gap", "exited"}
  BY <1>1 DEF ReceiveExpected, ReceiveUnexpected
<1>6. LaidOut = offset /\ LaidOut' = offset
  BY <1>2, <1>4, <1>5 DEF LaidOut
<1>7. Sorted(Stream')
  BY <1>4 DEF OrderInv
<1>8. net_pc' # "exited" => cur_mcnt' <= pkt_mcnt'
  <2>1. CASE ReceiveExpected(m, s, g)
    BY <1>3, <2>1 DEF ReceiveExpected, Mcnts
  <2>2. CASE ReceiveUnexpected(m, s, g)
    <3>1. net_pc' # "exited" => m > cur_mcnt'
      BY <1>3, <2>2, UnexpectedAhead
    <3> QED BY <1>3, <3>1 DEF NetInv, NetTypeOK, Mcnts
  <2> QED BY <1>1, <2>1, <2>2
<1>9. /\ AllBefore(Stream, cur_mcnt')
      /\ AllPrecede(Stream, in_data[net_idx], offset)
      /\ InOrder(in_data[net_idx], offset, cur_mcnt')
  <2>1. CASE start_file
    <3>1. cur_mcnt <= cur_mcnt'
      BY <1>2, <1>3, <2>1, ExpectsOnwards
    <3>2. Stream \in Seq(BlockSet) /\ in_data[net_idx] \in Blocks /\ offset \in 0 .. N_SPEC_BUFF
      BY <1>3, StreamType DEF NetInv, NetTypeOK, Blocks
    <3>3. cur_mcnt \in Int /\ cur_mcnt' \in Int
      BY <1>3 DEF NetInv, NetTypeOK
    <3>4. /\ AllBefore(Stream, cur_mcnt)
          /\ AllPrecede(Stream, in_data[net_idx], offset)
          /\ InOrder(in_data[net_idx], offset, cur_mcnt)
      BY <1>2, <1>6 DEF OrderInv
    <3> QED BY ONLY <3>1, <3>2, <3>3, <3>4, ExpectLater
  <2>2. CASE ~start_file
    <3>1. Stream = <<>> /\ offset = 0
      BY <2>2 DEF EmptyInv
    <3> QED BY <3>1 DEF AllBefore, AllPrecede, InOrder
  <2> QED BY <2>1, <2>2
<1> QED BY <1>4, <1>5, <1>6, <1>7, <1>8, <1>9 DEF OrderInv

LEMMA OrderNet ==
  ASSUME ~LateDelivery \/ AccountingInv, PipelineInv, NetInv', EmptyInv, OrderInv, NetAppends
  PROVE  OrderInv'
<1> USE Constants
<1> DEFINE data == in_data[net_idx]
<1>0. /\ Stream \in Seq(BlockSet) /\ NetInv
      /\ data \in Blocks /\ data' \in Blocks
      /\ in_data \in [InBlocks -> Blocks] /\ net_idx \in InBlocks
      /\ offset \in 0 .. N_SPEC_BUFF /\ offset' \in 0 .. N_SPEC_BUFF
      /\ cur_mcnt \in Int /\ cur_mcnt' \in Int /\ pkt_mcnt \in Mcnts
  BY StreamType DEF PipelineInv, NetInv, NetTypeOK, Blocks
<1>1. CASE Receive
  BY <1>1, OrderReceive
<1>2. CASE CheckFirstTwoBlocks
  <2>1. /\ UNCHANGED <<in_data, offset, net_idx, cur_mcnt>>
        /\ net_pc \in {"check0", "check1"} /\ net_pc' \in {"check1", "recv"}
    BY <1>2 DEF CheckFirstTwoBlocks, input_vars
  <2>2. Stream' = Stream
    BY <2>1 DEF NetAppends, MarkBlock, ZeroTail
  <2> QED BY <2>1, <2>2 DEF OrderInv, LaidOut
<1>3. CASE NetWaitError
  <2>1. net_pc' = "exited"
    BY <1>3 DEF NetWaitError
  <2>2. Stream' = Stream
    BY <2>1 DEF NetAppends, MarkBlock, ZeroTail
  <2> QED BY <2>1, <2>2 DEF OrderInv
<1>4. CASE CopyPacket
  <2>1. /\ net_pc = "copy" /\ net_pc' \in {"mark", "recv"}
        /\ in_data' = [in_data EXCEPT ![net_idx][offset] = pkt_mcnt]
        /\ offset' = offset + 1 /\ cur_mcnt' = cur_mcnt + 1 /\ net_idx' = net_idx
    BY <1>4 DEF CopyPacket
  <2>2. Stream' = Stream
    BY <2>1 DEF NetAppends, MarkBlock, ZeroTail
  <2>3. pkt_mcnt = cur_mcnt /\ offset \in 0 .. N_SPEC_BUFF - 1
    BY <1>0, <2>1 DEF NetInv, NetControl, NetTypeOK
  <2>4. data' = [data EXCEPT ![offset] = pkt_mcnt]
    BY <1>0, <2>1
  <2>5. /\ AllBefore(Stream, pkt_mcnt)
        /\ AllPrecede(Stream, data, offset)
        /\ InOrder(data, offset, pkt_mcnt)
    BY <2>1, <2>3 DEF OrderInv, LaidOut
  <2>6. AllPrecede(Stream, data', offset + 1) /\ InOrder(data', offset + 1, pkt_mcnt + 1)
    <3> HIDE DEF data
    <3> QED BY <1>0, <2>3, <2>4, <2>5, LayPacket
  <2>7. AllBefore(Stream, cur_mcnt + 1)
    BY <1>0, <2>3, <2>5, ExpectLater
  <2> QED BY <2>1, <2>2, <2>3, <2>6, <2>7 DEF OrderInv, LaidOut
<1>5. CASE MarkBlock \/ ZeroTail
  <2>1. /\ net_pc \in {"mark", "roll_tail"} /\ net_pc' \in {"recv", "roll_head"}
        /\ net_pc' = "recv" => offset' = 0
        /\ cur_mcnt' = cur_mcnt /\ pkt_mcnt' = pkt_mcnt
        /\ net_pc' = "roll_head" => net_pc = "roll_tail"
    BY <1>5 DEF MarkBlock, ZeroTail
  <2>2. Stream' = Append(Stream, Published)
    BY <1>5 DEF NetAppends
  <2>3. Published \in BlockSet /\ Published.data \in Blocks
    <3>1. Published \in [netmcnt : Mcnts, data : [Slots -> Mcnts \cup {Blank}]]
      BY <1>0, PublishedIs
    <3> QED BY <3>1 DEF BlockSet, Blocks
  <2>4. LeftOf(Published.data, data, offset)
    <3>1. CASE MarkBlock
      <4>1. offset = N_SPEC_BUFF /\ Published.data = data
        BY <1>0, <3>1 DEF MarkBlock, NetInv, NetControl, Published
      <4> QED BY <1>0, <4>1 DEF LeftOf, Slots
    <3>2. CASE ZeroTail
      <4>1. Published.data = ZeroRange(data, offset, N_SPEC_BUFF)
        BY <1>0, <3>2 DEF ZeroTail, Published
      <4> QED BY <1>0, <4>1, ZeroLeaves
    <3> QED BY <1>5, <3>1, <3>2
  <2>5. /\ Sorted(Stream)
        /\ AllBefore(Stream, cur_mcnt)
        /\ AllPrecede(Stream, data, offset)
        /\ InOrder(data, offset, cur_mcnt)
    BY <2>1 DEF OrderInv, LaidOut
  <2> HIDE DEF data
  <2>6. /\ Increasing(Published.data)
        /\ \A s \in Slots : Published.data[s] # Blank => Published.data[s] < cur_mcnt
    BY <1>0, <2>3, <2>4, <2>5, LeftInOrder
  <2>7. \A k \in 1 .. Len(Stream) : Precedes(Stream[k].data, Published.data)
    BY <1>0, <2>3, <2>4, <2>5, LeftPreceded
  <2>8. Sorted(Stream')
    BY <1>0, <2>2, <2>3, <2>5, <2>6, <2>7, SortedAppend
  <2>9. AllBefore(Stream', cur_mcnt)
    BY <1>0, <2>2, <2>3, <2>5, <2>6, BeforeAppend
  <2>10. LaidOut' = 0
    BY <2>1 DEF LaidOut
  <2>11. /\ AllPrecede(Stream', in_data'[net_idx'], 0)
         /\ InOrder(in_data'[net_idx'], 0, cur_mcnt)
    BY DEF AllPrecede, InOrder
  <2>12. net_pc' = "roll_head" => cur_mcnt' <= pkt_mcnt'
    BY <2>1 DEF OrderInv
  <2> QED BY <2>1, <2>8, <2>9, <2>10, <2>11, <2>12 DEF OrderInv
<1>6. CASE ZeroHead \/ ZeroGap
  <2>1. /\ net_pc \in {"roll_head", "gap"} /\ net_pc' = "recv"
        /\ UNCHANGED <<offset, net_idx>>
        /\ cur_mcnt' = pkt_mcnt + 1
    BY <1>0, <1>6, NextSpectrumIs DEF ZeroHead, ZeroGap, Mcnts
  <2>2. Stream' = Stream
    BY <2>1 DEF NetAppends, MarkBlock, ZeroTail
  <2>3. cur_mcnt <= cur_mcnt'
    BY <1>0, <2>1 DEF OrderInv, Mcnts
  <2>4. AllBefore(Stream, cur_mcnt')
    BY <1>0, <2>1, <2>3, ExpectLater DEF OrderInv
  <2>5. AllPrecede(Stream, data', offset) /\ InOrder(data', offset, cur_mcnt')
    <3>1. CASE ZeroHead
      <4>1. data' = ZeroRange(data, 0, offset)
        BY <1>0, <3>1 DEF ZeroHead
      <4>2. \A s \in 0 .. offset - 1 : data'[s] = Blank
        BY <1>0, <4>1 DEF ZeroRange, Slots
      <4> QED BY <4>2 DEF AllPrecede, InOrder
    <3>2. CASE ZeroGap
      <4>1. net_pc = "gap" /\ data' = ZeroRange(data, 0, miss_size)
        BY <1>0, <3>2 DEF ZeroGap
      <4>2. AllPrecede(Stream, data, offset) /\ InOrder(data, offset, cur_mcnt)
        BY <4>1 DEF OrderInv, LaidOut
      <4>3. \A s \in 0 .. offset - 1 : data'[s] \in {Blank, data[s]}
        BY <1>0, <4>1 DEF ZeroRange, Slots
      <4>4. AllPrecede(Stream, data', offset) /\ InOrder(data', offset, cur_mcnt)
        <5> HIDE DEF data
        <5> QED BY <4>2, <4>3 DEF AllPrecede, InOrder
      <4> QED BY <1>0, <2>3, <4>4, ExpectLater
    <3> QED BY <1>6, <3>1, <3>2
  <2> QED BY <2>1, <2>2, <2>4, <2>5 DEF OrderInv, LaidOut
<1> QED BY <1>1, <1>2, <1>3, <1>4, <1>5, <1>6 DEF NetAppends, NetStep, NetInternal

LEMMA OrderNext ==
  ASSUME ~LateDelivery \/ AccountingInv, PipelineInv, NetInv', EmptyInv, OrderInv,
         [PipelineNext]_vars
  PROVE  OrderInv'
<1>1. CASE OthersKeep
  <2>1. UNCHANGED <<net_pc, pkt_mcnt, cur_mcnt, offset, net_idx, in_data>>
    BY <1>1 DEF OthersKeep, net_private
  <2>2. CASE Stream' = Stream
    BY <2>1, <2>2 DEF OrderInv, LaidOut
  <2>3. CASE Drops
    <3>1. /\ Sorted(Stream) => Sorted(Stream')
          /\ AllBefore(Stream, cur_mcnt) => AllBefore(Stream', cur_mcnt)
          /\ AllPrecede(Stream, in_data[net_idx], LaidOut)
               => AllPrecede(Stream', in_data[net_idx], LaidOut)
      BY <2>3, DropOrdered
    <3> QED BY <2>1, <3>1 DEF OrderInv, LaidOut
  <2> QED BY <1>1, <2>2, <2>3 DEF OthersKeep
<1> QED BY <1>1, StreamStep, OrderNet

(* Packets stay in the order of their counters from the network to the     *)
(* disk, whatever is lost, whichever gaps are repaired and whoever gives   *)
(* up, in blocks and rings of any size: when packets cannot arrive late,   *)
(* and also when they can, as long as the 32-bit count does not wrap.  (At *)
(* a wrap the next packet is taken for the first one, so that a late packet*)
(* is stored behind newer ones.)                                           *)
THEOREM Ordered ==
  ASSUME SourceTypes \subseteq {0}, ~LateDelivery \/ CountMod > MaxMcnt + 2
  PROVE  PipelineSpec => []StreamOrdered
<1>1. PipelineInit => OrderInv
  <2> SUFFICES ASSUME PipelineInit PROVE OrderInv
    OBVIOUS
  <2>1. Stream = <<>>
    <3>1. <<>> \o <<>> = <<>>
      OBVIOUS
    <3> QED BY <3>1, FlowInit DEF Stream
  <2>2. net_pc = "check0" /\ offset = 0
    BY DEF PipelineInit, NetInit
  <2> QED BY <2>1, <2>2
          DEF OrderInv, Sorted, AllBefore, AllPrecede, InOrder, LaidOut
<1>2. PipelineInv /\ NetInv' /\ EmptyInv /\ (~LateDelivery \/ AccountingInv)
        /\ OrderInv /\ [PipelineNext]_vars => OrderInv'
  BY OrderNext
<1>3. PipelineInv => NetInv
  BY DEF PipelineInv
<1>4. PipelineInv /\ OrderInv => StreamOrdered
  <2> SUFFICES ASSUME PipelineInv, Sorted(Stream) PROVE StreamOrdered
    BY DEF OrderInv
  <2>1. Len(Stream) \in Nat
    BY StreamType, LenProperties
  <2>2. \A k \in 1 .. Len(Stream) - 1 :
          k \in 1 .. Len(Stream) /\ k + 1 \in 1 .. Len(Stream) /\ k < k + 1
    BY <2>1
  <2> QED BY <2>2 DEF Sorted, StreamOrdered
<1>5. PipelineSpec => [](~LateDelivery \/ AccountingInv)
  <2>1. CASE ~LateDelivery
    <3>1. ~LateDelivery \/ AccountingInv
      BY <2>1
    <3> QED BY <3>1, PTL
  <2>2. CASE CountMod > MaxMcnt + 2
    <3>1. AccountingInv => ~LateDelivery \/ AccountingInv
      OBVIOUS
    <3> QED BY <2>2, <3>1, PipelineAccounting, PTL
  <2> QED BY <2>1, <2>2
<1> QED BY <1>1, <1>2, <1>3, <1>4, <1>5, PipelineInvariant, EmptyInvariant, PTL
        DEF PipelineSpec
=============================================================================
