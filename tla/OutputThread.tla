---------------------------- MODULE OutputThread ----------------------------
(***************************************************************************)
(* TL_output_thread.c: blocks of the output ring are appended to one       *)
(* filterbank file per beam.  A file is created as <name>.fil.working and  *)
(* renamed to <name>.fil once it holds N_SPEC_PER_FILE spectra.            *)
(*                                                                         *)
(* The file system is a function from paths to contents and a set of       *)
(* directories, each named by the first and the last beam of a group.  A   *)
(* block of data in a file is represented by the counter in the block's    *)
(* header; a file's tstart by the counter the thread computed it from.     *)
(* Names carry times in whole seconds.  Amounts of data are counted in     *)
(* spectra of one beam.  Others may remove files and directories           *)
(* (OutputBench): a stream whose file was removed takes data that nobody   *)
(* can read.  The net thread may rewrite the variables of module Globals   *)
(* between any two of this thread's reads.                                 *)
(***************************************************************************)
EXTENDS OutputDatabuf, Globals, Sequences, FiniteSets

CONSTANTS N_SPEC_PER_FILE,    \* 819200 in the code: 800 blocks
          U64,                \* 2^64
          time_interval,      \* microseconds per packet: 147 in the code
          us_per_ms,          \* 1000
          us_per_sec,         \* 10^6
          GpsTimes,           \* times GPS_File.txt may hold, in microseconds
          NFilesInit,         \* what an uninitialised N_files may hold
          MaxFailures         \* bound on the writes a full file system refuses

ASSUME FileSizeAssumption ==
  /\ N_SPEC_PER_FILE \in Nat \ {0}
  /\ N_SPEC_PER_FILE % N_SPEC_BUFF = 0
ASSUME TimeAssumption ==
  /\ U64 \in Nat \ {0}
  /\ time_interval \in Nat
  /\ us_per_ms \in Nat \ {0}
  /\ us_per_sec \in Nat \ {0}
  /\ us_per_sec % us_per_ms = 0
  /\ GpsTimes \subseteq Nat
ASSUME OutputEnvAssumption == NFilesInit \subseteq Int /\ MaxFailures \in Nat

VARIABLES out_pc,
          file_idx,           \* block_idx
          saved,              \* N_Bytes_save, in spectra
          filb_flag,          \* 1: the next block starts a file
          file_mcnt,          \* netmcnt: the counter the next file is stamped with
          N_files,            \* NFILESAV
          File_dir,           \* the beams the directory is named by
          f_fil,              \* the names of the current files: f_fil_B0 .. f_fil_B3
          is_open,            \* TL_file_Beam_0 .. 3 are open streams
          out_beam,           \* progress of a step made once per beam
          gps_time,           \* GPS_time, in microseconds
          files,              \* the file system /FRBTMPFS
          dirs,               \* its directories
          failures            \* writes refused so far

fs_vars == <<files, dirs, failures>>
out_private == <<out_pc, file_idx, saved, filb_flag, file_mcnt, N_files, File_dir,
                 f_fil, is_open, out_beam, gps_time>>
out_vars == <<output_vars, global_vars, out_private, fs_vars>>

NoName == [dir |-> <<>>, beam |-> 0, stamp |-> 0]  \* an uninitialised buffer

OutputInit ==
  /\ out_pc = "wait"
  /\ file_idx = 0
  /\ saved = 0
  /\ filb_flag = 1
  /\ file_mcnt = 0
  /\ N_files \in NFilesInit
  /\ File_dir = <<>>
  /\ f_fil = [j \in Beams |-> NoName]
  /\ is_open = FALSE
  /\ out_beam = 0
  /\ gps_time \in GpsTimes
  /\ files = <<>>
  /\ dirs = {}
  /\ failures = 0

-----------------------------------------------------------------------------
(* Names and files.                                                        *)

(* time_calculate down to the second: the GPS time of the start of the run *)
(* plus the age of packet mcnt.  Only its microseconds take part in the    *)
(* 64-bit sum, so that a counter just below zero means just before the GPS *)
(* time if they suffice, and a far future if not.  (Module TimeStamp has   *)
(* the date, and the cut to 32 bits, which in that case makes it any time.)*)
time_calculate(mcnt) ==
  LET us       == gps_time % us_per_ms
      us_Total == (us + ((mcnt * time_interval) % U64)) % U64
  IN  (gps_time - us + us_Total) \div us_per_sec

Path(name, ext) == [dir |-> name.dir, beam |-> name.beam, stamp |-> name.stamp,
                    ext |-> ext]
Working(name)   == Path(name, "fil.working")
Filname(name)   == Path(name, "fil")

FilPaths        == {p \in DOMAIN files : p.ext = "fil"}
Put(fs, path, file) == [p \in DOMAIN fs \cup {path} |-> IF p = path THEN file ELSE fs[p]]
Remove(fs, paths) == [p \in DOMAIN fs \ paths |-> fs[p]]

(* A file: its header, if it has a whole one, the blocks written to it and *)
(* the number of those that were not, or not all.                          *)
EmptyFile == [header |-> FALSE, tstart |-> 0, blocks |-> <<>>, failed |-> 0]
HeaderOnly(tstart) == [header |-> TRUE, tstart |-> tstart, blocks |-> <<>>, failed |-> 0]

(* Mutated form: fopen(fname, "a"), an existing file keeps its content.    *)
WriteHeaderAppending(path, file) ==
  IF path \in DOMAIN files THEN files
  ELSE IF path.dir \in dirs THEN Put(files, path, file) ELSE files

(* fopen(fname, "w") and the header: an existing file loses its content;   *)
(* without a directory the call fails, which nobody notices.               *)
WriteHeader(path, file) ==
  IF path.dir \in dirs THEN Put(files, path, file) ELSE files

(* fopen(fname, "a+"): a file that is no longer there is created.          *)
OpenToAppend(paths) ==
  [p \in DOMAIN files \cup {q \in paths : q.dir \in dirs} |->
     IF p \in DOMAIN files THEN files[p] ELSE EmptyFile]

WithBlock(file, mcnt) == [file EXCEPT !.blocks = Append(@, mcnt)]
WithFailure(file)     == [file EXCEPT !.failed = @ + 1]

(* Mutated form: only the first beam of a group is written.                *)
AppendBlockFirstBeam(path, mcnt) ==
  IF path \in DOMAIN files /\ path.beam % N_BEAM_PER_PACK = 0
  THEN [files EXCEPT ![path] = WithBlock(@, mcnt)] ELSE files

(* fwrite to the stream of a file, and one that fails.                     *)
AppendBlock(path, mcnt) ==
  IF path \in DOMAIN files
  THEN [files EXCEPT ![path] = WithBlock(@, mcnt)] ELSE files
AppendFails(path) ==
  IF path \in DOMAIN files
  THEN [files EXCEPT ![path] = WithFailure(@)] ELSE files

(* rename replaces a file that has the new name already.                   *)
Rename(from, to) ==
  IF from \in DOMAIN files THEN Put(Remove(files, {from}), to, files[from]) ELSE files

(* Whether the file system refuses a write.                                *)
Refuses(refused) ==
  IF refused THEN failures < MaxFailures /\ failures' = failures + 1
  ELSE UNCHANGED failures

BlocksPerFile == N_SPEC_PER_FILE \div N_SPEC_BUFF

(* Mutated form: the file is taken for full one block early.               *)
FileFullEarly(spectra) == (spectra + N_SPEC_BUFF) % N_SPEC_PER_FILE = 0

FileFull(spectra) == spectra % N_SPEC_PER_FILE = 0

(* Mutated form: the flag is not set again when a file is closed.          *)
FlagNever(spectra) == 0

(* filb_flag once that many spectra are saved.                             *)
FlagAfter(spectra) == IF FileFull(spectra) THEN 1 ELSE 0

(* Mutated form: the size of a file is not subtracted.                     *)
NextFileMcntLast(mcnt) == mcnt

(* The counter the next file's time is computed from, once a block whose   *)
(* header says mcnt has completed a file: uint64_t arithmetic.             *)
NextFileMcnt(mcnt) == (mcnt - N_SPEC_PER_FILE) % U64

-----------------------------------------------------------------------------
(* The thread's steps.                                                     *)

(* Mutated form: no wait for a filled block.                               *)
OutMayTakeAnyway == TRUE

OutMayTake == wait_filled(out_sem, file_idx)

(* A block is there.  It starts a file if the one before completed one (or *)
(* none came before) and packets have been received.                       *)
TakeBlock ==
  /\ out_pc = "wait"
  /\ OutMayTake
  /\ out_pc' = IF filb_flag = 1 /\ start_file THEN "name" ELSE "write"
  /\ UNCHANGED <<output_vars, global_vars, file_idx, saved, filb_flag, file_mcnt,
                 N_files, File_dir, f_fil, is_open, out_beam, gps_time, fs_vars>>

(* The directory is named by the first beam and the last, and made if it   *)
(* is not there.                                                           *)
NameDirectory ==
  /\ out_pc = "name"
  /\ File_dir' = <<beam_ID[0]>>
  /\ out_pc' = "mkdir"
  /\ UNCHANGED <<output_vars, global_vars, file_idx, saved, filb_flag, file_mcnt,
                 N_files, f_fil, is_open, out_beam, gps_time, fs_vars>>

MakeDirectory ==
  /\ out_pc = "mkdir"
  /\ File_dir' = Append(File_dir, beam_ID[N_BEAM_PER_PACK - 1])
  /\ dirs' = dirs \cup {File_dir'}
  /\ out_pc' = "stamp"
  /\ UNCHANGED <<output_vars, global_vars, file_idx, saved, filb_flag, file_mcnt,
                 N_files, f_fil, is_open, out_beam, gps_time, files, failures>>

(* The counter the time stamp is computed from.                            *)
StampFiles ==
  /\ out_pc = "stamp"
  /\ file_mcnt' = IF N_files = 0 THEN init_mcnt ELSE file_mcnt
  /\ out_pc' = "type"
  /\ UNCHANGED <<output_vars, global_vars, file_idx, saved, filb_flag, N_files,
                 File_dir, f_fil, is_open, out_beam, gps_time, fs_vars>>

(* The names are formatted, one after another, only if the packet received *)
(* last says data_type 0.                                                  *)
CheckType ==
  /\ out_pc = "type"
  /\ out_pc' = IF data_type = 0 THEN "format" ELSE "header"
  /\ UNCHANGED <<output_vars, global_vars, file_idx, saved, filb_flag, file_mcnt,
                 N_files, File_dir, f_fil, is_open, out_beam, gps_time, fs_vars>>

FormatName ==
  /\ out_pc = "format"
  /\ f_fil' = [f_fil EXCEPT ![out_beam] = [dir   |-> File_dir,
                                           beam  |-> beam_ID[out_beam],
                                           stamp |-> time_calculate(file_mcnt)]]
  /\ IF out_beam + 1 < N_BEAM_PER_PACK
     THEN out_pc' = "format" /\ out_beam' = out_beam + 1
     ELSE out_pc' = "header" /\ out_beam' = 0
  /\ UNCHANGED <<output_vars, global_vars, file_idx, saved, filb_flag, file_mcnt,
                 N_files, File_dir, is_open, gps_time, fs_vars>>

(* WriteHeader for one beam after another.  A name that was never          *)
(* formatted is no path of /FRBTMPFS: whatever happens under it, happens   *)
(* elsewhere or not at all.  On a full file system the header is cut off.  *)
CreateFile ==
  /\ out_pc = "header"
  /\ out_beam < N_BEAM_PER_PACK
  /\ \E file \in {HeaderOnly(file_mcnt), EmptyFile} :
       /\ Refuses(file = EmptyFile)
       /\ files' = IF f_fil[out_beam] = NoName THEN files
                   ELSE WriteHeader(Working(f_fil[out_beam]), file)
  /\ out_beam' = out_beam + 1
  /\ UNCHANGED <<output_vars, global_vars, out_pc, file_idx, saved, filb_flag,
                 file_mcnt, N_files, File_dir, f_fil, is_open, gps_time, dirs>>

OpenFiles ==
  /\ out_pc = "header"
  /\ out_beam = N_BEAM_PER_PACK
  /\ N_files' = N_files + 1
  /\ LET named == {j \in Beams : f_fil[j] # NoName}
         paths == {Working(f_fil[j]) : j \in named}
     IN  /\ files' = OpenToAppend(paths)
         /\ is_open' \in IF named = Beams THEN {paths \subseteq DOMAIN files'}
                        ELSE BOOLEAN
  /\ out_beam' = 0
  /\ out_pc' = "write"
  /\ UNCHANGED <<output_vars, global_vars, file_idx, saved, filb_flag, file_mcnt,
                 File_dir, f_fil, gps_time, dirs, failures>>

(* fwrite of one beam's part of the block.  Its result is ignored; on a    *)
(* full file system the data is lost.                                      *)
WriteBeam ==
  /\ out_pc = "write"
  /\ is_open
  /\ out_beam < N_BEAM_PER_PACK
  /\ \E refused \in BOOLEAN :
       /\ Refuses(refused)
       /\ files' = IF f_fil[out_beam] = NoName THEN files
                   ELSE IF refused THEN AppendFails(Working(f_fil[out_beam]))
                   ELSE AppendBlock(Working(f_fil[out_beam]), out_netmcnt[file_idx])
  /\ out_beam' = out_beam + 1
  /\ UNCHANGED <<output_vars, global_vars, out_pc, file_idx, saved, filb_flag,
                 file_mcnt, N_files, File_dir, f_fil, is_open, gps_time, dirs>>

(* fwrite to a stream that is not open ends the process.                   *)
WriteCrash ==
  /\ out_pc = "write"
  /\ ~is_open
  /\ out_pc' = "crashed"
  /\ UNCHANGED <<output_vars, global_vars, file_idx, saved, filb_flag, file_mcnt,
                 N_files, File_dir, f_fil, is_open, out_beam, gps_time, fs_vars>>

(* The block has been written; it may have completed the file.             *)
CountBlock ==
  /\ out_pc = "write"
  /\ is_open
  /\ out_beam = N_BEAM_PER_PACK
  /\ saved' = saved + N_SPEC_BUFF
  /\ filb_flag' = FlagAfter(saved')
  /\ IF FileFull(saved')
     THEN /\ file_mcnt' = NextFileMcnt(out_netmcnt[file_idx])
          /\ is_open' = FALSE
          /\ out_pc' = "rename"
     ELSE /\ out_pc' = "free"
          /\ UNCHANGED <<file_mcnt, is_open>>
  /\ out_beam' = 0
  /\ UNCHANGED <<output_vars, global_vars, file_idx, N_files, File_dir, f_fil, gps_time,
                 fs_vars>>

(* rename for one beam after another.                                      *)
RenameFile ==
  /\ out_pc = "rename"
  /\ out_beam < N_BEAM_PER_PACK
  /\ files' = IF f_fil[out_beam] = NoName THEN files
              ELSE Rename(Working(f_fil[out_beam]), Filname(f_fil[out_beam]))
  /\ out_beam' = out_beam + 1
  /\ UNCHANGED <<output_vars, global_vars, out_pc, file_idx, saved, filb_flag,
                 file_mcnt, N_files, File_dir, f_fil, is_open, gps_time, dirs, failures>>

(* The block goes back to the gpu thread.                                  *)
FreeOutput ==
  /\ \/ out_pc = "free"
     \/ out_pc = "rename" /\ out_beam = N_BEAM_PER_PACK
  /\ out_sem' = set_free(out_sem, file_idx)
  /\ file_idx' = Following(file_idx, N_OUTPUT_BLOCKS)
  /\ out_beam' = 0
  /\ out_pc' = "wait"
  /\ UNCHANGED <<out_netmcnt, out_data, global_vars, saved, filb_flag, file_mcnt,
                 N_files, File_dir, f_fil, is_open, gps_time, fs_vars>>

OutputInternal ==
  \/ TakeBlock
  \/ NameDirectory
  \/ MakeDirectory
  \/ StampFiles
  \/ CheckType
  \/ FormatName
  \/ CreateFile
  \/ OpenFiles
  \/ WriteBeam
  \/ WriteCrash
  \/ CountBlock
  \/ RenameFile
  \/ FreeOutput

(* A wait that fails with anything but a timeout ends the thread.          *)
OutputWaitError ==
  /\ out_pc = "wait"
  /\ out_pc' = "exited"
  /\ UNCHANGED <<output_vars, global_vars, file_idx, saved, filb_flag, file_mcnt,
                 N_files, File_dir, f_fil, is_open, out_beam, gps_time, fs_vars>>

OutputTypeOK ==
  /\ out_pc \in {"wait", "name", "mkdir", "stamp", "type", "format", "header",
                 "write", "rename", "free", "exited", "crashed"}
  /\ file_idx \in OutBlocks
  /\ saved \in Nat /\ saved % N_SPEC_BUFF = 0
  /\ filb_flag \in {0, 1}
  /\ file_mcnt \in Nat
  /\ N_files \in Int
  /\ File_dir \in Seq(Nat)
  /\ f_fil \in [Beams -> [dir : Seq(Nat), beam : Nat, stamp : Int]]
  /\ is_open \in BOOLEAN
  /\ out_beam \in 0 .. N_BEAM_PER_PACK
  /\ gps_time \in GpsTimes
  /\ failures \in 0 .. MaxFailures
  /\ \A p \in DOMAIN files : /\ p.ext \in {"fil", "fil.working"}
                             /\ p.dir \in dirs
=============================================================================
