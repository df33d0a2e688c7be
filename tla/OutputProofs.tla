---------------------------- MODULE OutputProofs ----------------------------
(***************************************************************************)
(* What the steps of the output thread preserve, whoever feeds it: lemmas  *)
(* for the theorems about the pipeline and about the thread on its own.    *)
(***************************************************************************)
EXTENDS OutputThread, ModLemmas

(* The assumptions the proofs use, in one place.                           *)
LEMMA OutputConstants ==
  /\ N_SPEC_BUFF \in Nat \ {0}
  /\ N_OUTPUT_BLOCKS \in Nat \ {0}
  /\ N_BEAM_PER_PACK \in Nat \ {0}
  /\ N_SPEC_PER_FILE \in Nat \ {0}
  /\ N_SPEC_PER_FILE % N_SPEC_BUFF = 0
  /\ U64 \in Nat \ {0}
  /\ MaxMcnt \in Nat
  /\ GpsTimes \subseteq Nat
  /\ NFilesInit \subseteq Int
  /\ MaxFailures \in Nat
BY BlockSizeAssumption, OutputBlocksAssumption, BeamsAssumption, FileSizeAssumption,
   TimeAssumption, McntAssumption, OutputEnvAssumption

LEMMA FollowingOutput ==
  ASSUME NEW b \in OutBlocks
  PROVE  Following(b, N_OUTPUT_BLOCKS) \in OutBlocks
BY ModRange, OutputConstants DEF Following, OutBlocks

(* The part of the type invariant that is about the disk.                  *)
DiskTypeOK ==
  \A p \in DOMAIN files : p.ext \in {"fil", "fil.working"} /\ p.dir \in dirs

LEMMA WorkingPath ==
  ASSUME NEW name
  PROVE  /\ Working(name).ext = "fil.working" /\ Working(name).dir = name.dir
         /\ Filname(name).ext = "fil" /\ Filname(name).dir = name.dir
BY DEF Working, Filname, Path

LEMMA OutputTypeInit == OutputInit => OutputTypeOK
<1> SUFFICES ASSUME OutputInit PROVE OutputTypeOK
  OBVIOUS
<1>1. 0 % N_SPEC_BUFF = 0
  <2>1. 0 \in 0 .. N_SPEC_BUFF - 1 /\ N_SPEC_BUFF \in Nat \ {0}
    BY OutputConstants
  <2> QED BY ONLY <2>1, ModId
<1>2. saved = 0 /\ files = <<>>
  BY DEF OutputInit
<1>3. DiskTypeOK
  <2>1. DOMAIN files = {}
    BY <1>2
  <2> QED BY <2>1 DEF DiskTypeOK
<1>4. saved \in Nat /\ saved % N_SPEC_BUFF = 0
  BY <1>1, <1>2
<1>5. /\ N_files \in Int /\ gps_time \in GpsTimes /\ failures \in 0 .. MaxFailures
      /\ File_dir \in Seq(Nat)
      /\ f_fil \in [Beams -> [dir : Seq(Nat), beam : Nat, stamp : Int]]
  BY OutputConstants DEF OutputInit, NoName
<1>6. file_idx \in OutBlocks
  BY OutputBlocksAssumption DEF OutputInit, OutBlocks
<1>7. out_beam \in 0 .. N_BEAM_PER_PACK
  BY BeamsAssumption DEF OutputInit
<1>8. out_pc = "wait" /\ filb_flag \in {0, 1} /\ file_mcnt \in Nat /\ is_open \in BOOLEAN
  BY DEF OutputInit
<1> QED BY <1>3, <1>4, <1>5, <1>6, <1>7, <1>8 DEF OutputTypeOK, DiskTypeOK

LEMMA DiskTypeStep ==
  ASSUME DiskTypeOK, OutputInternal \/ OutputWaitError
  PROVE  DiskTypeOK'
<1>1. CASE \/ TakeBlock \/ NameDirectory \/ StampFiles \/ CheckType \/ FormatName
           \/ WriteCrash \/ CountBlock \/ FreeOutput \/ OutputWaitError
  BY <1>1 DEF TakeBlock, NameDirectory, StampFiles, CheckType, FormatName, WriteCrash,
     CountBlock, FreeOutput, OutputWaitError, fs_vars, DiskTypeOK
<1>2. CASE MakeDirectory
  BY <1>2 DEF MakeDirectory, DiskTypeOK
<1>3. CASE CreateFile
  <2>1. PICK file : files' = IF f_fil[out_beam] = NoName THEN files
                             ELSE WriteHeader(Working(f_fil[out_beam]), file)
    BY <1>3 DEF CreateFile
  <2>2. dirs' = dirs
    BY <1>3 DEF CreateFile
  <2> QED BY <2>1, <2>2, WorkingPath DEF WriteHeader, Put, DiskTypeOK
<1>4. CASE OpenFiles
  <2> DEFINE paths == {Working(f_fil[j]) : j \in {i \in Beams : f_fil[i] # NoName}}
  <2>1. dirs' = dirs /\ files' = OpenToAppend(paths)
    BY <1>4 DEF OpenFiles
  <2>2. \A p \in DOMAIN files' : p \in DOMAIN files \/ (p \in paths /\ p.dir \in dirs)
    BY <2>1 DEF OpenToAppend
  <2>3. \A p \in paths : p.ext = "fil.working"
    BY WorkingPath
  <2> QED BY <2>1, <2>2, <2>3 DEF DiskTypeOK
<1>5. CASE WriteBeam
  <2>1. DOMAIN files' = DOMAIN files
    BY <1>5 DEF WriteBeam, AppendBlock, AppendFails
  <2> QED BY <1>5, <2>1 DEF WriteBeam, DiskTypeOK
<1>6. CASE RenameFile
  <2>1. dirs' = dirs
    BY <1>6 DEF RenameFile
  <2>2. \A p \in DOMAIN files' :
          \/ p \in DOMAIN files
          \/ /\ p = Filname(f_fil[out_beam])
             /\ Working(f_fil[out_beam]) \in DOMAIN files
    BY <1>6 DEF RenameFile, Rename, Put, Remove
  <2> QED BY <2>1, <2>2, WorkingPath DEF DiskTypeOK
<1> QED BY <1>1, <1>2, <1>3, <1>4, <1>5, <1>6 DEF OutputInternal

LEMMA RefusesType ==
  ASSUME NEW refused, failures \in 0 .. MaxFailures, Refuses(refused)
  PROVE  failures' \in 0 .. MaxFailures
BY OutputConstants DEF Refuses

(* The type invariant of the thread, as long as the block headers and the  *)
(* counter of the first packet are counters, and the beams numbers.        *)
LEMMA OutputTypeStep ==
  ASSUME OutputTypeOK, OutputInternal \/ OutputWaitError,
         out_netmcnt \in [OutBlocks -> Mcnts], init_mcnt \in Mcnts,
         beam_ID \in [Beams -> Nat]
  PROVE  OutputTypeOK'
<1> USE OutputConstants
<1>1. DiskTypeOK'
  BY DiskTypeStep DEF OutputTypeOK, DiskTypeOK
<1>2. CASE TakeBlock \/ CheckType \/ WriteCrash \/ OutputWaitError
  BY <1>1, <1>2 DEF TakeBlock, CheckType, WriteCrash, OutputWaitError, fs_vars,
     OutputTypeOK, DiskTypeOK
<1>3. CASE NameDirectory \/ MakeDirectory
  <2>1. 0 \in Beams /\ N_BEAM_PER_PACK - 1 \in Beams
    BY DEF Beams
  <2>2. File_dir' \in Seq(Nat)
    <3>1. beam_ID[0] \in Nat /\ beam_ID[N_BEAM_PER_PACK - 1] \in Nat /\ File_dir \in Seq(Nat)
      BY <2>1 DEF OutputTypeOK
    <3>2. /\ <<beam_ID[0]>> \in Seq(Nat)
          /\ Append(File_dir, beam_ID[N_BEAM_PER_PACK - 1]) \in Seq(Nat)
      BY ONLY <3>1
    <3> QED BY <1>3, <3>2 DEF NameDirectory, MakeDirectory
  <2> QED BY <1>1, <1>3, <2>2 DEF NameDirectory, MakeDirectory, fs_vars, OutputTypeOK,
             DiskTypeOK
<1>4. CASE StampFiles
  BY <1>1, <1>4 DEF StampFiles, fs_vars, OutputTypeOK, DiskTypeOK, Mcnts
<1>5. CASE FormatName
  <2>1. out_beam' \in 0 .. N_BEAM_PER_PACK /\ out_pc' \in {"format", "header"}
    BY <1>5 DEF FormatName, OutputTypeOK
  <2>2. f_fil' \in [Beams -> [dir : Seq(Nat), beam : Nat, stamp : Int]]
    <3>1. CASE out_beam \in Beams
      <4>1. time_calculate(file_mcnt) \in Int
        <5> DEFINE us == gps_time % us_per_ms
                   total == (us + ((file_mcnt * time_interval) % U64)) % U64
        <5>1. /\ us_per_ms \in Nat \ {0} /\ us_per_sec \in Nat \ {0} /\ time_interval \in Nat
              /\ gps_time \in Int /\ file_mcnt \in Nat
          BY TimeAssumption DEF OutputTypeOK
        <5>2. us \in Int
          BY <5>1, ModRange
        <5>3. file_mcnt * time_interval \in Int
          BY <5>1
        <5>4. (file_mcnt * time_interval) % U64 \in Int
          BY <5>3, ModRange
        <5>5. us + ((file_mcnt * time_interval) % U64) \in Int
          BY <5>2, <5>4
        <5>6. total \in Int
          BY <5>5, ModRange
        <5>7. (gps_time - us + total) \div us_per_sec \in Int
          <6>1. gps_time - us + total \in Int
            BY <5>1, <5>2, <5>6
          <6> QED BY ONLY <5>1, <6>1, DivMod
        <5> QED BY <5>7 DEF time_calculate
      <4>2. /\ [dir |-> File_dir, beam |-> beam_ID[out_beam], stamp |-> time_calculate(file_mcnt)]
                  \in [dir : Seq(Nat), beam : Nat, stamp : Int]
            /\ f_fil \in [Beams -> [dir : Seq(Nat), beam : Nat, stamp : Int]]
        BY <3>1, <4>1 DEF OutputTypeOK
      <4>3. f_fil' = [f_fil EXCEPT ![out_beam] = [dir   |-> File_dir,
                                                  beam  |-> beam_ID[out_beam],
                                                  stamp |-> time_calculate(file_mcnt)]]
        BY <1>5 DEF FormatName
      <4> QED BY <4>2, <4>3
    <3>2. CASE out_beam \notin Beams
      BY <1>5, <3>2 DEF FormatName, OutputTypeOK
    <3> QED BY <3>1, <3>2
  <2> QED BY <1>1, <1>5, <2>1, <2>2 DEF FormatName, fs_vars, OutputTypeOK, DiskTypeOK
<1>8. CASE CreateFile \/ WriteBeam \/ RenameFile
  <2>1. failures' \in 0 .. MaxFailures
    <3>1. CASE CreateFile
      <4>1. PICK refused : Refuses(refused)
        BY <3>1 DEF CreateFile
      <4> QED BY <4>1, RefusesType DEF OutputTypeOK
    <3>2. CASE WriteBeam
      <4>1. PICK refused : Refuses(refused)
        BY <3>2 DEF WriteBeam
      <4> QED BY <4>1, RefusesType DEF OutputTypeOK
    <3> QED BY <1>8, <3>1, <3>2 DEF RenameFile, OutputTypeOK
  <2>2. out_beam' \in 0 .. N_BEAM_PER_PACK
    BY <1>8 DEF CreateFile, WriteBeam, RenameFile, OutputTypeOK
  <2> QED BY <1>1, <1>8, <2>1, <2>2 DEF CreateFile, WriteBeam, RenameFile, OutputTypeOK,
             DiskTypeOK
<1>9. CASE OpenFiles
  <2>1. is_open' \in BOOLEAN
    <3> DEFINE named == {j \in Beams : f_fil[j] # NoName}
               paths == {Working(f_fil[j]) : j \in named}
    <3>1. is_open' \in IF named = Beams THEN {paths \subseteq DOMAIN files'} ELSE BOOLEAN
      BY <1>9 DEF OpenFiles
    <3>2. CASE named = Beams
      <4>1. is_open' = (paths \subseteq DOMAIN files')
        BY <3>1, <3>2
      <4>2. (paths \subseteq DOMAIN files') \in BOOLEAN
        OBVIOUS
      <4> HIDE DEF paths
      <4> QED BY <4>1, <4>2
    <3>3. CASE named # Beams
      BY <3>1, <3>3
    <3> QED BY <3>2, <3>3
  <2>2. N_files' \in Int /\ out_beam' \in 0 .. N_BEAM_PER_PACK /\ out_pc' = "write"
    BY <1>9 DEF OpenFiles, OutputTypeOK
  <2>3. /\ UNCHANGED <<file_idx, saved, filb_flag, file_mcnt, File_dir, f_fil, gps_time>>
        /\ failures' = failures
    BY <1>9 DEF OpenFiles
  <2> QED BY <1>1, <2>1, <2>2, <2>3 DEF OutputTypeOK, DiskTypeOK
<1>6. CASE CountBlock
  <2>1. saved' \in Nat /\ saved' % N_SPEC_BUFF = 0
    <3>1. saved' = saved + N_SPEC_BUFF
      BY <1>6 DEF CountBlock
    <3>2. saved \in Nat /\ saved % N_SPEC_BUFF = 0
      BY DEF OutputTypeOK
    <3>3. saved' % N_SPEC_BUFF = saved % N_SPEC_BUFF
      <4>1. N_SPEC_BUFF \in Nat \ {0} /\ saved \in Int
        BY <3>2
      <4> QED BY ONLY <3>1, <4>1, ModAddModulus
    <3> QED BY <3>1, <3>2, <3>3
  <2>2. file_mcnt' \in Nat
    <3>1. out_netmcnt[file_idx] - N_SPEC_PER_FILE \in Int
      BY DEF OutputTypeOK, Mcnts
    <3>2. NextFileMcnt(out_netmcnt[file_idx]) \in Nat
      BY <3>1, ModRange DEF NextFileMcnt
    <3> QED BY <1>6, <3>2 DEF CountBlock, OutputTypeOK
  <2>3. is_open' \in BOOLEAN /\ out_pc' \in {"rename", "free"} /\ filb_flag' \in {0, 1}
    BY <1>6 DEF CountBlock, OutputTypeOK, FlagAfter
  <2> QED BY <1>1, <1>6, <2>1, <2>2, <2>3 DEF CountBlock, fs_vars, OutputTypeOK, DiskTypeOK
<1>7. CASE FreeOutput
  BY <1>1, <1>7, FollowingOutput DEF FreeOutput, fs_vars, OutputTypeOK, DiskTypeOK
<1> QED BY <1>2, <1>3, <1>4, <1>5, <1>6, <1>7, <1>8, <1>9 DEF OutputInternal

-----------------------------------------------------------------------------
(* The streams are open when the thread writes to them, if the names are   *)
(* formatted (data_type 0), nobody removes their directory, and no block   *)
(* comes before the first packet has set start_file: whatever the net      *)
(* thread does to the numbers of the beams while they are being read, a    *)
(* file's name begins with the directory that was made.                    *)
NameStands(j) == f_fil[j] # NoName /\ f_fil[j].dir \in dirs

OpenInv ==
  /\ out_pc = "mkdir" => Len(File_dir) = 1
  /\ out_pc \in {"stamp", "type", "format"} => File_dir # <<>> /\ File_dir \in dirs
  /\ out_pc \in {"name", "mkdir", "stamp", "type"} => out_beam = 0
  /\ out_pc = "format" => out_beam \in Beams /\ \A j \in 0 .. out_beam - 1 : NameStands(j)
  /\ out_pc = "header" => \A j \in Beams : NameStands(j)
  /\ out_pc = "write" => is_open
  /\ out_pc = "rename" => filb_flag = 1
  /\ out_pc \in {"wait", "free"} => out_beam = 0
  /\ out_pc \in {"wait", "free"} /\ filb_flag # 1 => is_open

LEMMA OpenStep ==
  ASSUME OpenInv, OutputInternal \/ OutputWaitError, OutputTypeOK, data_type = 0, start_file
  PROVE  OpenInv'
<1> USE OutputConstants DEF NameStands
<1>1. CASE TakeBlock \/ WriteCrash \/ OutputWaitError
  BY <1>1 DEF TakeBlock, WriteCrash, OutputWaitError, OpenInv
<1>2. CASE NameDirectory
  BY <1>2 DEF NameDirectory, OpenInv
<1>3. CASE MakeDirectory
  <2>1. File_dir \in Seq(Nat) /\ Len(File_dir) = 1
    BY <1>3 DEF MakeDirectory, OpenInv, OutputTypeOK
  <2>2. File_dir' # <<>> /\ File_dir' \in dirs'
    <3>1. Append(File_dir, beam_ID[N_BEAM_PER_PACK - 1]) # <<>>
      BY <2>1
    <3> QED BY <1>3, <3>1 DEF MakeDirectory
  <2> QED BY <1>3, <2>2 DEF MakeDirectory, OpenInv
<1>4. CASE StampFiles \/ CheckType
  BY <1>4 DEF StampFiles, CheckType, fs_vars, OpenInv, Beams
<1>5. CASE FormatName
  <2> DEFINE name == [dir |-> File_dir, beam |-> beam_ID[out_beam],
                      stamp |-> time_calculate(file_mcnt)]
  <2>1. /\ out_beam \in Beams /\ out_beam \in Nat /\ File_dir # <<>> /\ File_dir \in dirs
        /\ \A j \in 0 .. out_beam - 1 : NameStands(j)
    BY <1>5 DEF FormatName, OpenInv, Beams
  <2>2. name # NoName /\ name.dir \in dirs
    <3>1. NoName.dir = <<>> /\ name.dir = File_dir
      BY DEF NoName
    <3> QED BY <2>1, <3>1
  <2>3. f_fil' = [f_fil EXCEPT ![out_beam] = name] /\ dirs' = dirs
    BY <1>5 DEF FormatName, fs_vars
  <2>4. DOMAIN f_fil = Beams
    BY DEF OutputTypeOK
  <2> HIDE DEF name
  <2>5. \A j \in 0 .. out_beam : f_fil'[j] # NoName /\ f_fil'[j].dir \in dirs'
    <3> TAKE j \in 0 .. out_beam
    <3>1. CASE j = out_beam
      BY <2>1, <2>2, <2>3, <2>4, <3>1
    <3>2. CASE j # out_beam
      <4>1. j \in 0 .. out_beam - 1
        BY <2>1, <3>2
      <4>2. f_fil'[j] = f_fil[j]
        BY <2>1, <2>3, <2>4, <3>2, <4>1 DEF Beams
      <4> QED BY <2>1, <2>3, <4>1, <4>2
    <3> QED BY <3>1, <3>2
  <2>6. CASE out_beam + 1 < N_BEAM_PER_PACK
    <3>1. out_pc' = "format" /\ out_beam' = out_beam + 1 /\ File_dir' = File_dir
      BY <1>5, <2>6 DEF FormatName
    <3>2. out_beam' \in Beams /\ out_beam' - 1 = out_beam
      BY <2>1, <2>6, <3>1 DEF Beams
    <3> QED BY <2>1, <2>3, <2>5, <3>1, <3>2 DEF OpenInv
  <2>7. CASE ~(out_beam + 1 < N_BEAM_PER_PACK)
    <3>1. out_pc' = "header"
      BY <1>5, <2>7 DEF FormatName
    <3>2. Beams \subseteq 0 .. out_beam
      BY <2>1, <2>7 DEF Beams
    <3> QED BY <2>5, <3>1, <3>2 DEF OpenInv
  <2> QED BY <2>6, <2>7
<1>6. CASE CreateFile
  BY <1>6 DEF CreateFile, OpenInv
<1>7. CASE OpenFiles
  <2> DEFINE named == {j \in Beams : f_fil[j] # NoName}
             paths == {Working(f_fil[j]) : j \in named}
  <2>1. \A j \in Beams : f_fil[j] # NoName /\ f_fil[j].dir \in dirs
    BY <1>7 DEF OpenFiles, OpenInv
  <2>2. files' = OpenToAppend(paths) /\ is_open' = (paths \subseteq DOMAIN files')
    <3>1. named = Beams
      BY <2>1
    <3> QED BY <1>7, <3>1 DEF OpenFiles
  <2>3. \A q \in paths : q.dir \in dirs
    BY <2>1, WorkingPath
  <2>4. paths \subseteq DOMAIN files'
    BY <2>2, <2>3 DEF OpenToAppend
  <2> QED BY <1>7, <2>2, <2>4 DEF OpenFiles, OpenInv
<1>8. CASE WriteBeam \/ RenameFile
  BY <1>8 DEF WriteBeam, RenameFile, OpenInv
<1>9. CASE CountBlock
  BY <1>9 DEF CountBlock, FlagAfter, OpenInv
<1>10. CASE FreeOutput
  BY <1>10 DEF FreeOutput, OpenInv
<1> QED BY <1>1, <1>2, <1>3, <1>4, <1>5, <1>6, <1>7, <1>8, <1>9, <1>10 DEF OutputInternal
=============================================================================
