---------------------------- MODULE OutputBench ----------------------------
(***************************************************************************)
(* The output thread fed by an environment that stands for the other two   *)
(* threads on a link without losses: blocks arrive in ring order, each     *)
(* with the counter of its last packet.  Every packet rewrites data_type   *)
(* and then beam_ID, one beam after another.  The operators may kill the   *)
(* pipeline at any moment (hashpipe_stop.sh: kill -9, then clear the       *)
(* shared memory) and start it again (TL_init.sh, which writes a new       *)
(* GPS_File.txt first); only the file system survives.  They may also      *)
(* remove the files at any moment (Data_clean.sh), whether the pipeline    *)
(* runs or not.                                                            *)
(***************************************************************************)
EXTENDS OutputThread

CONSTANTS FirstFed,         \* counters the first packet may carry
          MaxChanges,         \* bound on the changes of packet type and group
          MaxRestarts,        \* bound on the number of restarts
          MaxCleans           \* bound on the steps of rm

ASSUME BenchAssumption ==
  FirstFed \subseteq Mcnts /\ {MaxChanges, MaxRestarts, MaxCleans} \subseteq Nat

VARIABLES fed,                \* blocks published since the start
          changes, restarts, cleans,
          raced               \* history: files were removed between the making
                              \* of their directory and their opening

bench_vars == <<out_vars, fed, changes, restarts, cleans, raced>>

BenchInit ==
  /\ TL_output_databuf_create
  /\ GlobalsInit
  /\ OutputInit
  /\ fed = 0
  /\ changes = 0 /\ restarts = 0 /\ cleans = 0
  /\ raced = FALSE

OutputSteps ==
  (OutputInternal \/ OutputWaitError) /\ UNCHANGED <<fed, changes, restarts, cleans, raced>>

(* The net thread receives its first packet.                               *)
FirstPacket(m, source_from, group) ==
  /\ ~start_file
  /\ start_file' = TRUE
  /\ init_mcnt' = m
  /\ data_type' = source_from
  /\ beam_ID' = BeamsOfGroup(group)
  /\ UNCHANGED <<output_vars, out_private, fs_vars, fed, changes, restarts, cleans, raced>>

(* A later packet, of another type or group: beam_ID is rewritten from its *)
(* first beam on, while this thread goes on.                               *)
NextPacket(source_from, group) ==
  /\ start_file
  /\ \E old \in BeamGroups :
       beam_ID = BeamsOfGroup(old) /\ <<data_type, old>> # <<source_from, group>>
  /\ changes < MaxChanges
  /\ changes' = changes + 1
  /\ data_type' = source_from
  /\ beam_ID' = [beam_ID EXCEPT ![0] = BeamsOfGroup(group)[0]]
  /\ UNCHANGED <<output_vars, start_file, init_mcnt, out_private, fs_vars, fed,
                 restarts, cleans, raced>>

NextBeam(j) ==
  /\ start_file
  /\ beam_ID[j] # beam_ID[j - 1] + 1
  /\ beam_ID' = [beam_ID EXCEPT ![j] = beam_ID[j - 1] + 1]
  /\ UNCHANGED <<output_vars, data_type, start_file, init_mcnt, out_private, fs_vars,
                 fed, changes, restarts, cleans, raced>>

(* The gpu thread publishes the next block.                                *)
LastOfBlock(k) == init_mcnt + k * N_SPEC_BUFF - 1

FeedBlock ==
  LET b == fed % N_OUTPUT_BLOCKS
  IN  /\ start_file
      /\ LastOfBlock(fed + 1) <= MaxMcnt
      /\ wait_free(out_sem, b)
      /\ out_netmcnt' = [out_netmcnt EXCEPT ![b] = LastOfBlock(fed + 1)]
      /\ out_sem' = set_filled(out_sem, b)
      /\ fed' = fed + 1
      /\ UNCHANGED <<out_data, global_vars, out_private, fs_vars, changes, restarts, cleans, raced>>

Restart ==
  /\ restarts < MaxRestarts
  /\ restarts' = restarts + 1
  /\ fed' = 0
  /\ out_sem'     = [b \in OutBlocks |-> FREE]
  /\ out_netmcnt' = [b \in OutBlocks |-> 0]
  /\ out_data'    = [b \in OutBlocks |-> [s \in Slots |-> Blank]]
  /\ data_type' = 0
  /\ beam_ID' = [j \in Beams |-> 0]
  /\ start_file' = FALSE
  /\ init_mcnt' = 0
  /\ out_pc' = "wait"
  /\ file_idx' = 0
  /\ saved' = 0
  /\ filb_flag' = 1
  /\ file_mcnt' = 0
  /\ N_files' \in NFilesInit
  /\ File_dir' = <<>>
  /\ f_fil' = [j \in Beams |-> NoName]
  /\ is_open' = FALSE
  /\ out_beam' = 0
  /\ gps_time' \in {t \in GpsTimes : t >= gps_time}
  /\ UNCHANGED <<fs_vars, changes, cleans, raced>>

(* A step of rm -rf /FRBTMPFS/Beam*: some files, and the directories that  *)
(* became empty.  It may be seen half done, or end with a directory that   *)
(* got a new file.                                                         *)
Data_clean ==
  /\ cleans < MaxCleans
  /\ cleans' = cleans + 1
  /\ \E gone \in SUBSET DOMAIN files :
       /\ files' = Remove(files, gone)
       /\ dirs' \in {dirs, {d \in dirs : \E p \in DOMAIN files' : p.dir = d}}
  /\ raced' = (raced \/ out_pc \in {"stamp", "type", "format", "header"})
  /\ UNCHANGED <<output_vars, global_vars, out_private, failures, fed, changes, restarts>>

BenchNext ==
  \/ OutputSteps
  \/ \E m \in FirstFed, source_from \in SourceTypes, group \in BeamGroups :
       FirstPacket(m, source_from, group)
  \/ \E source_from \in SourceTypes, group \in BeamGroups : NextPacket(source_from, group)
  \/ \E j \in Beams \ {0} : NextBeam(j)
  \/ FeedBlock
  \/ Restart
  \/ Data_clean

BenchSpec == BenchInit /\ [][BenchNext]_bench_vars

-----------------------------------------------------------------------------
(* Properties.                                                             *)

(* A file under its final name has seen the writing of N_SPEC_PER_FILE     *)
(* spectra, whenever the pipeline was killed, whatever an earlier run left *)
(* on the disk and whatever was removed from it: that is what renaming     *)
(* .fil.working to .fil is for, and the size announced when the thread     *)
(* starts.  It holds all those whose writing did not fail.                 *)
FilComplete ==
  \A p \in FilPaths : Len(files[p].blocks) + files[p].failed = BlocksPerFile

(* The blocks in a file, finished or not, are consecutive blocks of the    *)
(* stream, except for those whose writing failed: no file mixes the end of *)
(* one run or of one file with another, repeats a block or leaves one out. *)
FilesContiguous ==
  \A p \in DOMAIN files :
    LET blocks == files[p].blocks
    IN  blocks # <<>> =>
          /\ \A i \in 1 .. Len(blocks) - 1 :
               blocks[i + 1] \in {blocks[i] + k * N_SPEC_BUFF : k \in 1 .. files[p].failed + 1}
          /\ blocks[Len(blocks)] - blocks[1]
               <= (Len(blocks) + files[p].failed - 1) * N_SPEC_BUFF

(* The files of one moment agree in all beams, except while they are being *)
(* written, renamed or removed: the four streams are opened, written and   *)
(* closed in step.                                                         *)
BeamsAgree ==
  out_pc \in {"wait", "free"} /\ cleans = 0 =>
    \A p, q \in DOMAIN files :
      p.stamp = q.stamp /\ p.ext = q.ext => files[p] = files[q]

(* Files may be removed while the pipeline runs, with one exception: from  *)
(* the making of a directory to the opening of the files in it.  Only then *)
(* a file ends up without a header, or the thread writes to a file it      *)
(* could not open, which ends the process; above all, start_file, read     *)
(* without a lock, is set whenever the first block gets to this thread     *)
(* (TL_output_thread.c:186-224).                                           *)
CleanHarmless ==
  ~raced => /\ out_pc # "crashed"
            /\ \A p \in DOMAIN files : files[p].header

(* The time the files being written claim to start at, against the first   *)
(* spectrum in them.  The first file of a run is stamped with init_mcnt,   *)
(* exactly, if the counter of files, which nobody initialises, started at  *)
(* 0; if not, with counter 0.  Every later file is stamped with the        *)
(* counter before the start of the file that precedes it, because the      *)
(* header of the block that completed that file names its last spectrum    *)
(* and N_SPEC_PER_FILE is subtracted from it; unless it is the one that    *)
(* brings a counter that started below 0 to 1, which gets init_mcnt again. *)
StampLag ==
  out_pc = "write" =>
    \A j \in Beams : f_fil[j] # NoName /\ Working(f_fil[j]) \in DOMAIN files =>
      LET file  == files[Working(f_fil[j])]
          first == file.blocks[1] - (N_SPEC_BUFF - 1)
      IN  file.header /\ file.blocks # <<>> /\ file.failed = 0 =>
            IF saved < N_SPEC_PER_FILE
            THEN /\ first = init_mcnt
                 /\ file.tstart = IF N_files = 1 THEN first ELSE 0
            ELSE file.tstart = IF N_files = 1 THEN init_mcnt
                               ELSE (first - 1 - N_SPEC_PER_FILE) % U64

(* NFILESAV says how many files were saved: as many as there are for the   *)
(* first beam on the disk.                                                 *)
FilesCounted ==
  out_pc = "wait" =>
    N_files = Cardinality({p \in DOMAIN files : p.beam = beam_ID[0]})
=============================================================================
