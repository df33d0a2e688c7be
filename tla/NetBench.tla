------------------------------ MODULE NetBench ------------------------------
(***************************************************************************)
(* The net thread for as long as its 32-bit count of packets takes to come *)
(* back to 0 (a week in the code): the packet received next is taken for   *)
(* the first one.  Whatever was missed just before it, or if it is late,   *)
(* goes unnoticed.  History variables keep what the thread then forgets.   *)
(***************************************************************************)
EXTENDS NetThread

CONSTANT MaxReceived          \* bound on the number of packets received

ASSUME NetBenchAssumption == MaxReceived \in Nat

VARIABLES received,           \* packets received since the start
          first_mcnt,         \* the counter of the first one
          hidden,             \* distance the counter was moved by at a count of 0
          moved_back          \* was it ever moved backwards there?

history == <<received, first_mcnt, hidden, moved_back>>
net_bench_vars == <<net_vars, history>>

NetBenchInit ==
  /\ NetInit
  /\ received = 0
  /\ first_mcnt = 0
  /\ hidden = 0
  /\ moved_back = FALSE

ReceiveCounted ==
  /\ received < MaxReceived
  /\ Receive
  /\ received' = received + 1
  /\ IF received = 0
     THEN first_mcnt' = pkt_mcnt' /\ UNCHANGED <<hidden, moved_back>>
     ELSE LET distance == IF total_packets_counted = 0 THEN pkt_mcnt' - cur_mcnt ELSE 0
          IN  /\ hidden' = hidden + distance
              /\ moved_back' = (moved_back \/ distance < 0)
              /\ UNCHANGED first_mcnt

NetBenchNext ==
  \/ ReceiveCounted
  \/ (NetInternal \/ NetWaitError) /\ UNCHANGED history
  \/ (\E b \in InBlocks : FreeBlock(b)) /\ UNCHANGED history

NetBenchSpec == NetBenchInit /\ [][NetBenchNext]_net_bench_vars

-----------------------------------------------------------------------------
(* Properties.                                                             *)

(* Counter values since the first packet are accounted for across any      *)
(* number of times the count comes back to 0: as a packet received, as one *)
(* missed in MiSSPKT, or as hidden at such a moment; nothing is hidden     *)
(* before the count has gone round once.                                   *)
AccountingAcrossWraps ==
  net_pc = "recv" /\ received > 0 =>
    /\ cur_mcnt - first_mcnt = received + miss_pkt + hidden
    /\ hidden # 0 \/ moved_back => received > CountMod

Preceding(b) == CHOOSE p \in InBlocks : Following(p, N_INPUT_BLOCKS) = b

(* A block is published with its packets in counter order, all of them     *)
(* later than everything in the block published before it and none of them *)
(* later than the header says: no slot ever keeps a packet of the ring's   *)
(* previous lap, although gaps skip slots and zero other ones.  Only a     *)
(* packet that comes late just when the count has gone round gets into a   *)
(* block; at any other time it ends the thread.                            *)
PublishedInOrder ==
  [][\A b \in InBlocks : in_sem[b] = FREE /\ in_sem'[b] = FILLED /\ ~moved_back =>
        /\ Increasing(in_data'[b])
        /\ Precedes(in_data[Preceding(b)], in_data'[b])
        /\ \A s \in Slots : in_data'[b][s] <= in_netmcnt'[b]]_net_bench_vars
=============================================================================
