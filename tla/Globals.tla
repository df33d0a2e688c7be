------------------------------ MODULE Globals ------------------------------
(***************************************************************************)
(* The variables of TL_net_thread.c that the other two threads read with   *)
(* extern declarations and without any lock.                               *)
(***************************************************************************)
EXTENDS Integers

CONSTANTS N_BEAM_PER_PACK,    \* beams in a packet: 4 in the code
          SourceTypes,        \* values of the header's source bit: {0, 1}
          BeamGroups,         \* values of the header's beam group: 0 .. 3
          MaxMcnt             \* bound on packet counters: 2^56 - 1

ASSUME BeamsAssumption == N_BEAM_PER_PACK \in Nat \ {0}
ASSUME SourceAssumption == SourceTypes \subseteq {0, 1}
ASSUME GroupAssumption == BeamGroups \subseteq Nat
ASSUME McntAssumption == MaxMcnt \in Nat

VARIABLES data_type,          \* 0 integrated, 1 not integrated
          beam_ID,            \* the absolute number of each beam of the group
          start_file,         \* set by the first packet, never reset
          init_mcnt           \* the counter of the first packet

global_vars == <<data_type, beam_ID, start_file, init_mcnt>>

Beams == 0 .. N_BEAM_PER_PACK - 1
Mcnts == 0 .. MaxMcnt

GlobalsInit ==
  /\ data_type  = 0
  /\ beam_ID    = [j \in Beams |-> 0]
  /\ start_file = FALSE
  /\ init_mcnt  = 0

(* beam_ID[j] = beamgroup_ID * N_BEAM_PER_PACK + j                         *)
BeamsOfGroup(group) == [j \in Beams |-> group * N_BEAM_PER_PACK + j]
=============================================================================
