---------------------------- MODULE BenchProofs ----------------------------
(***************************************************************************)
(* Theorems about the two threads that run in benches of their own.        *)
(*                                                                         *)
(* The output thread, between a feeder, restarts, a disk that may fill up  *)
(* and somebody who removes files: for files and blocks of any size, any   *)
(* number of beams, restarts and removals.                                 *)
(*                                                                         *)
(* The net thread, for as long as it runs: what it counts and what it      *)
(* publishes when its count of packets has come back to 0 any number of    *)
(* times.                                                                  *)
(***************************************************************************)
EXTENDS NetBench, OutputBench, NetThreadProofs, OutputProofs

USE DEF FREE, FILLED

-----------------------------------------------------------------------------
(* The state between two steps.                                            *)

(* A file as the thread, a kill or a full disk may leave it.               *)
FileSet == [header : BOOLEAN, tstart : Nat, blocks : Seq(Mcnts), failed : Nat]

BenchTypeOK ==
  /\ OutputTypeOK
  /\ out_sem \in [OutBlocks -> {FREE, FILLED}]
  /\ out_netmcnt \in [OutBlocks -> Mcnts]
  /\ start_file \in BOOLEAN
  /\ init_mcnt \in Mcnts
  /\ beam_ID \in [Beams -> Nat]
  /\ fed \in Nat

(* Before the first packet nothing has happened; from then on beam number  *)
(* j of any group says which of the group's it is, and so does a name.     *)
BenchStart ==
  /\ IF start_file
     THEN \A j \in Beams : beam_ID[j] % N_BEAM_PER_PACK = j
     ELSE /\ fed = 0
          /\ \A b \in OutBlocks : out_sem[b] = FREE
          /\ out_pc \in {"wait", "exited"}
          /\ filb_flag = 1
          /\ saved = 0
  /\ \A j \in Beams : f_fil[j] # NoName => f_fil[j].beam % N_BEAM_PER_PACK = j

Naming == {"name", "mkdir", "stamp", "type", "format"}

(* Where the files of the current names begin and end; the progress of a   *)
(* step is reset.                                                          *)
FlagInv ==
  /\ filb_flag = 1 => FileFull(saved)
  /\ out_pc \in Naming \cup {"header", "rename"} => filb_flag = 1
  /\ out_pc = "free" => filb_flag # 1
  /\ out_pc \in {"wait", "name", "mkdir", "stamp", "type", "free"} => out_beam = 0

(* Spectra in the blocks given back.                                       *)
Taken == IF out_pc \in {"free", "rename"} THEN saved - N_SPEC_BUFF ELSE saved

(* The ring holds the blocks after the first r, up to the last one fed.    *)
FeedRing(r) ==
  /\ Taken = r * N_SPEC_BUFF
  /\ file_idx = r % N_OUTPUT_BLOCKS
  /\ fed <= r + N_OUTPUT_BLOCKS
  /\ \A i \in r .. fed - 1 : /\ out_sem[i % N_OUTPUT_BLOCKS] = FILLED
                            /\ out_netmcnt[i % N_OUTPUT_BLOCKS] = LastOfBlock(i + 1)
  /\ \A b \in OutBlocks : out_sem[b] = FILLED => \E i \in r .. fed - 1 : b = i % N_OUTPUT_BLOCKS

Holds == out_pc \in Naming \cup {"header", "write", "rename", "free"}

FeedInv ==
  /\ Holds => out_sem[file_idx] = FILLED
  /\ \E r \in 0 .. fed : FeedRing(r)

-----------------------------------------------------------------------------
(* What the files hold.                                                    *)

(* Blocks seen by a file, the lost ones included.                          *)
Count(file) == Len(file.blocks) + file.failed

(* The headers of block number k + 1 of the run, after saved spectra.      *)
NextHeader == init_mcnt + saved + N_SPEC_BUFF - 1

Gap(from, to, failed) == \E k \in 1 .. failed + 1 : to = from + k * N_SPEC_BUFF

(* A file whatever has become of it.                                       *)
Sound(file) ==
  /\ file \in FileSet
  /\ file.blocks # <<>> =>
       /\ \A i \in 1 .. Len(file.blocks) - 1 : Gap(file.blocks[i], file.blocks[i + 1], file.failed)
       /\ file.blocks[Len(file.blocks)] - file.blocks[1]
            <= (Len(file.blocks) + file.failed - 1) * N_SPEC_BUFF

(* A file being written that has seen so many blocks, and which one comes  *)
(* next; its header has the counter the thread stamped it with.            *)
Follows(file, next) ==
  /\ Gap(file.blocks[Len(file.blocks)], next, file.failed)
  /\ next - file.blocks[1] <= (Len(file.blocks) + file.failed) * N_SPEC_BUFF
  /\ file.failed = 0 => next - file.blocks[1] = Len(file.blocks) * N_SPEC_BUFF

Current(file, seen, next) ==
  /\ Count(file) = seen
  /\ file.blocks # <<>> => Follows(file, next)
  /\ file.header => file.tstart = file_mcnt

(* Blocks of the current file among the spectra saved.                     *)
BlocksIn(spectra) == (spectra % N_SPEC_PER_FILE) \div N_SPEC_BUFF
BlocksSaved == BlocksIn(saved)

(* The current file of a beam, if it is there.                             *)
BeamIs(j, file) ==
  /\ out_pc = "header" /\ j < out_beam => Current(file, 0, NextHeader)
  /\ out_pc = "write" /\ j >= out_beam => Current(file, BlocksSaved, NextHeader)
  /\ out_pc = "write" /\ j < out_beam =>
       Current(file, BlocksSaved + 1, NextHeader + N_SPEC_BUFF)
  /\ out_pc \in {"wait", "free"} /\ filb_flag # 1 =>
       Current(file, BlocksSaved, NextHeader)
  /\ out_pc = "rename" /\ j >= out_beam => Count(file) = BlocksPerFile

BeamInv(j) ==
  f_fil[j] # NoName /\ Working(f_fil[j]) \in DOMAIN files => BeamIs(j, files[Working(f_fil[j])])

DiskInv ==
  /\ \A p \in DOMAIN files : Sound(files[p])
  /\ \A p \in FilPaths : Count(files[p]) = BlocksPerFile
  /\ \A j \in Beams : BeamInv(j)

(* Spectra in the files before the current one.                            *)
Begun == saved - BlocksSaved * N_SPEC_BUFF

(* What the block that completed the file before made of the counter, 0 if *)
(* there was none; and what a file is stamped with if n were counted.      *)
Before == IF Begun = 0 THEN 0 ELSE (init_mcnt + Begun - 1 - N_SPEC_PER_FILE) % U64
StampOf(n) == IF n = 0 THEN init_mcnt ELSE Before

StampInv ==
  /\ out_pc \in {"wait", "name", "mkdir", "stamp", "rename"} /\ filb_flag = 1 =>
       file_mcnt = Before
  /\ out_pc \in {"type", "format", "header"} => file_mcnt = StampOf(N_files)
  /\ out_pc = "write" \/ (out_pc \in {"wait", "free"} /\ filb_flag # 1) =>
       file_mcnt = StampOf(N_files - 1)

-----------------------------------------------------------------------------
(* Arithmetic.                                                             *)

LEMMA FileIsBlocks ==
  /\ BlocksPerFile \in Nat \ {0}
  /\ N_SPEC_PER_FILE = BlocksPerFile * N_SPEC_BUFF
<1> DEFINE n == N_SPEC_BUFF
           p == N_SPEC_PER_FILE
           q == p \div n
<1>1. n \in Nat \ {0} /\ p \in Nat \ {0} /\ p % n = 0
  BY OutputConstants
<1>2. q \in Int /\ p = q * n + (p % n)
  BY ONLY <1>1, DivMod
<1> HIDE DEF q
<1>3. p = q * n
  <2>1. q * n \in Int
    BY <1>1, <1>2
  <2> QED BY <1>1, <1>2, <2>1
<1>4. q > 0
  <2>1. q <= -1 => q * n <= -n
    BY <1>1, <1>2, MultipleAtLeast
  <2>2. q = 0 => q * n = 0
    BY <1>1
  <2> QED BY <1>1, <1>2, <1>3, <2>1, <2>2
<1>5. BlocksPerFile = q
  BY DEF BlocksPerFile, q
<1> QED BY <1>2, <1>3, <1>4, <1>5

(* One more block completes the file or is one more block of it.           *)
LEMMA BlocksStep ==
  ASSUME NEW s \in Nat, s % N_SPEC_BUFF = 0, NEW t, t = s + N_SPEC_BUFF
  PROVE  /\ BlocksIn(s) \in Nat
         /\ BlocksIn(s) * N_SPEC_BUFF = s % N_SPEC_PER_FILE
         /\ FileFull(s) => BlocksIn(s) = 0
         /\ FileFull(t) => BlocksIn(s) + 1 = BlocksPerFile
         /\ ~FileFull(t) => BlocksIn(t) = BlocksIn(s) + 1
<1> DEFINE n == N_SPEC_BUFF
           p == N_SPEC_PER_FILE
           b == BlocksPerFile
           a == s \div n
           q == s \div p
           x == s % p
           k == a - q * b
<1>1. n \in Nat \ {0} /\ p \in Nat \ {0} /\ b \in Nat \ {0} /\ p = b * n /\ s \in Int
  BY OutputConstants, FileIsBlocks
<1>2. a \in Int /\ s = a * n
  <2>1. s = (s \div n) * n + (s % n) /\ s \div n \in Int
    BY ONLY <1>1, DivMod
  <2>2. (s \div n) * n \in Int
    BY <1>1, <2>1
  <2> QED BY <2>1, <2>2
<1>3. q \in Int /\ s = q * p + x /\ x \in 0 .. p - 1
  BY ONLY <1>1, DivMod
<1> HIDE DEF a, q, x
<1>4. k \in Int /\ x = k * n
  <2>1. q * b \in Int /\ q * p \in Int
    BY <1>1, <1>3
  <2>2. q * p = (q * b) * n
    BY ONLY <1>1, <1>3
  <2>3. (a - q * b) * n = a * n - (q * b) * n
    BY ONLY <1>1, <1>2, <2>1
  <2> QED BY <1>2, <1>3, <2>1, <2>2, <2>3
<1> HIDE DEF k, b
<1>5. k \in 0 .. b - 1
  <2>1. k >= 0
    BY <1>1, <1>3, <1>4, MultipleAtLeast
  <2>2. k < b
    <3>1. (k - b) * n = k * n - b * n
      BY ONLY <1>1, <1>4
    <3>2. k - b >= 1 => (k - b) * n >= n
      BY <1>1, <1>4, MultipleAtLeast
    <3> QED BY <1>1, <1>3, <1>4, <3>1, <3>2
  <2> QED BY <1>1, <1>4, <2>1, <2>2
<1>6. BlocksIn(s) = k
  <2>1. (k * n + 0) \div n = k
    <3>1. 0 \in 0 .. n - 1
      BY <1>1
    <3> QED BY ONLY <1>1, <1>4, <3>1, ModOfMultiple
  <2>2. k * n + 0 = x
    BY <1>3, <1>4
  <2> QED BY <2>1, <2>2 DEF BlocksIn, x
<1>7. (k + 1) * n = x + n
  BY ONLY <1>1, <1>4
<1>10. /\ BlocksIn(s) \in Nat /\ (FileFull(s) => BlocksIn(s) = 0)
       /\ BlocksIn(s) * N_SPEC_BUFF = s % N_SPEC_PER_FILE
  <2>1. x = 0 => k = 0
    <3>1. k >= 1 => k * n >= n
      BY <1>1, <1>4, MultipleAtLeast
    <3> QED BY <1>1, <1>4, <1>5, <3>1
  <2>2. FileFull(s) <=> x = 0
    BY DEF FileFull, x
  <2>3. BlocksIn(s) * N_SPEC_BUFF = s % N_SPEC_PER_FILE
    BY <1>4, <1>6 DEF x
  <2> QED BY <1>1, <1>5, <1>6, <2>1, <2>2, <2>3
<1>8. CASE x + n < p
  <2>1. t = q * p + (x + n) /\ x + n \in 0 .. p - 1
    <3>1. q * p \in Int
      BY <1>1, <1>3
    <3> QED BY <1>1, <1>3, <1>8, <3>1
  <2>2. (q * p + (x + n)) % p = x + n
    BY ONLY <1>1, <1>3, <2>1, ModOfMultiple
  <2>3. t % p = x + n
    BY <2>1, <2>2
  <2>4. BlocksIn(t) = k + 1
    <3>1. ((k + 1) * n + 0) \div n = k + 1
      <4>1. 0 \in 0 .. n - 1 /\ k + 1 \in Int
        BY <1>1, <1>4
      <4> QED BY ONLY <1>1, <4>1, ModOfMultiple
    <3>2. (k + 1) * n + 0 = x + n
      BY <1>1, <1>3, <1>7
    <3> QED BY <2>3, <3>1, <3>2 DEF BlocksIn
  <2>5. ~FileFull(t)
    BY <1>1, <1>3, <2>3 DEF FileFull
  <2> QED BY <1>6, <1>10, <2>4, <2>5
<1>9. CASE ~(x + n < p)
  <2>1. k + 1 = b
    <3>1. (b - (k + 1)) * n = b * n - (k + 1) * n
      BY ONLY <1>1, <1>4
    <3>2. b - (k + 1) >= 1 => (b - (k + 1)) * n >= n
      BY <1>1, <1>4, MultipleAtLeast
    <3> QED BY <1>1, <1>3, <1>4, <1>5, <1>7, <1>9, <3>1, <3>2
  <2>2. x + n = p
    BY <1>1, <1>7, <2>1
  <2>3. t = (q + 1) * p + 0
    <3>1. (q + 1) * p = q * p + p /\ q * p \in Int
      BY ONLY <1>1, <1>3
    <3> QED BY <1>1, <1>3, <2>2, <3>1
  <2>4. ((q + 1) * p + 0) % p = 0
    <3>1. 0 \in 0 .. p - 1 /\ q + 1 \in Int
      BY <1>1, <1>3
    <3> QED BY ONLY <1>1, <3>1, ModOfMultiple
  <2>5. FileFull(t)
    BY <2>3, <2>4 DEF FileFull
  <2> QED BY <1>6, <1>10, <2>1, <2>5 DEF b
<1> QED BY <1>8, <1>9

-----------------------------------------------------------------------------
(* What opening and writing make of a file.                                *)

LEMMA FreshFile ==
  ASSUME file_mcnt \in Nat, NEW next \in Int, NEW file \in {EmptyFile, HeaderOnly(file_mcnt)}
  PROVE  Sound(file) /\ Current(file, 0, next)
<1>1. <<>> \in Seq(Mcnts) /\ Len(<<>>) = 0
  OBVIOUS
<1>2. HeaderOnly(file_mcnt) = [header |-> TRUE, tstart |-> file_mcnt, blocks |-> <<>>, failed |-> 0]
  BY DEF HeaderOnly
<1>3. PICK h \in BOOLEAN, t \in Nat :
        /\ file = [header |-> h, tstart |-> t, blocks |-> <<>>, failed |-> 0]
        /\ h => t = file_mcnt
  BY <1>2 DEF EmptyFile
<1>4. file \in FileSet
  BY <1>1, <1>3 DEF FileSet
<1>5. file.blocks = <<>> /\ file.failed = 0 /\ (file.header => file.tstart = file_mcnt)
  BY <1>3
<1> QED BY <1>1, <1>4, <1>5 DEF Sound, Current, Count

LEMMA GapLater ==
  ASSUME NEW a \in Int, NEW b \in Int, NEW f \in Nat, Gap(a, b, f)
  PROVE  Gap(a, b, f + 1) /\ Gap(a, b + N_SPEC_BUFF, f + 1)
<1>1. PICK k \in 1 .. f + 1 : b = a + k * N_SPEC_BUFF
  BY DEF Gap
<1>2. /\ N_SPEC_BUFF \in Int /\ k * N_SPEC_BUFF \in Int
      /\ (k + 1) * N_SPEC_BUFF = k * N_SPEC_BUFF + N_SPEC_BUFF
  BY OutputConstants
<1>3. b + N_SPEC_BUFF = a + (k + 1) * N_SPEC_BUFF
  BY <1>1, <1>2
<1>4. k \in 1 .. (f + 1) + 1 /\ k + 1 \in 1 .. (f + 1) + 1
  OBVIOUS
<1> QED BY <1>1, <1>3, <1>4 DEF Gap

LEMMA GapOne ==
  ASSUME NEW a \in Int, NEW f \in Nat
  PROVE  Gap(a, a + N_SPEC_BUFF, f)
<1>1. 1 \in 1 .. f + 1 /\ 1 * N_SPEC_BUFF = N_SPEC_BUFF
  BY OutputConstants
<1> QED BY <1>1 DEF Gap

LEMMA NextSpan ==
  ASSUME NEW l \in Int
  PROVE  /\ l * N_SPEC_BUFF \in Int
         /\ (l + 1) * N_SPEC_BUFF = l * N_SPEC_BUFF + N_SPEC_BUFF
BY OutputConstants

(* A block that is written ...                                             *)
LEMMA WriteGood ==
  ASSUME NEW file, NEW seen \in Nat, NEW next \in Mcnts,
         Sound(file), Current(file, seen, next)
  PROVE  /\ Sound(WithBlock(file, next))
         /\ Current(WithBlock(file, next), seen + 1, next + N_SPEC_BUFF)
<1> DEFINE old == file.blocks
           l == Len(old)
           f == file.failed
<1>0. PICK new : new = WithBlock(file, next)
  OBVIOUS
<1>1. /\ file.header \in BOOLEAN /\ file.tstart \in Nat /\ old \in Seq(Mcnts)
      /\ f \in Nat /\ l \in Nat /\ next \in Int /\ N_SPEC_BUFF \in Nat
  BY OutputConstants DEF Sound, FileSet, Mcnts
<1>2. /\ new.blocks = Append(old, next) /\ new.failed = f
      /\ new.header = file.header /\ new.tstart = file.tstart
      /\ new = [header |-> file.header, tstart |-> file.tstart, blocks |-> Append(old, next),
                failed |-> f]
  <2>1. file = [header |-> file.header, tstart |-> file.tstart, blocks |-> old, failed |-> f]
    BY DEF Sound, FileSet
  <2> QED BY <1>0, <2>1 DEF WithBlock
<1>3. /\ Append(old, next) \in Seq(Mcnts) /\ Len(Append(old, next)) = l + 1
      /\ Append(old, next)[l + 1] = next
      /\ \A i \in 1 .. l : Append(old, next)[i] = old[i]
  BY <1>1
<1>4. new \in FileSet
  BY <1>1, <1>2, <1>3 DEF FileSet
<1>5. Count(new) = seen + 1
  BY <1>1, <1>2, <1>3 DEF Current, Count
<1>6. Append(old, next) # <<>>
  BY <1>3
<1>7. Gap(next, next + N_SPEC_BUFF, f)
  BY <1>1, GapOne
<1>11. new.header => new.tstart = file_mcnt
  BY <1>2 DEF Current
<1>12. (l + 1) * N_SPEC_BUFF = l * N_SPEC_BUFF + N_SPEC_BUFF /\ l * N_SPEC_BUFF \in Int
  BY <1>1, NextSpan
<1>8. (l + f + 1) * N_SPEC_BUFF = (l + f) * N_SPEC_BUFF + N_SPEC_BUFF /\ (l + f) * N_SPEC_BUFF \in Int
  BY <1>1, NextSpan
<1>9. CASE old = <<>>
  <2>1. l = 0
    BY <1>9
  <2>2. Append(old, next)[1] = next
    BY <1>3, <2>1
  <2>3. (l + f) * N_SPEC_BUFF >= 0
    BY <1>1, <2>1
  <2>4. Sound(new)
    <3>1. Len(new.blocks) = 1 /\ new.blocks[1] = next
      BY <1>2, <1>3, <2>1, <2>2
    <3>2. (1 + f - 1) * N_SPEC_BUFF >= 0
      BY <1>1, <2>1, <2>3
    <3> QED BY <1>1, <1>2, <1>4, <3>1, <3>2 DEF Sound
  <2>5. (next + N_SPEC_BUFF) - next <= (l + 1 + f) * N_SPEC_BUFF
    <3>1. l + 1 + f = l + f + 1
      BY <1>1
    <3> QED BY <1>1, <1>8, <2>3, <3>1
  <2>6. Current(new, seen + 1, next + N_SPEC_BUFF)
    <3>1. /\ new.blocks # <<>> /\ new.blocks[Len(new.blocks)] = next /\ new.failed = f
          /\ new.blocks[1] = next /\ Len(new.blocks) = l + 1
      BY <1>2, <1>3, <1>6, <2>2
    <3>2. Gap(new.blocks[Len(new.blocks)], next + N_SPEC_BUFF, new.failed)
      BY ONLY <1>7, <3>1
    <3>3. (next + N_SPEC_BUFF) - new.blocks[1] <= (Len(new.blocks) + new.failed) * N_SPEC_BUFF
      BY ONLY <2>5, <3>1
    <3>5. (next + N_SPEC_BUFF) - new.blocks[1] = Len(new.blocks) * N_SPEC_BUFF
      <4>1. (next + N_SPEC_BUFF) - next = (0 + 1) * N_SPEC_BUFF
        BY <1>1
      <4> QED BY <2>1, <3>1, <4>1
    <3>4. Follows(new, next + N_SPEC_BUFF)
      BY ONLY <3>2, <3>3, <3>5 DEF Follows
    <3> QED BY ONLY <1>5, <1>11, <3>1, <3>4 DEF Current
  <2> QED BY <1>0, <1>4, <2>4, <2>6
<1>10. CASE old # <<>>
  <2>1. l > 0 /\ old[1] \in Int /\ old[l] \in Int
    <3>1. l > 0
      BY <1>1, <1>10
    <3>2. 1 \in 1 .. l /\ l \in 1 .. l
      BY <1>1, <3>1
    <3>3. old[1] \in Mcnts /\ old[l] \in Mcnts
      BY <1>1, <3>2
    <3> QED BY <3>1, <3>3 DEF Mcnts
  <2>2. Append(old, next)[1] = old[1] /\ Append(old, next)[l] = old[l]
    BY <1>1, <1>3, <2>1
  <2>3. /\ Gap(old[l], next, f) /\ next - old[1] <= (l + f) * N_SPEC_BUFF
        /\ f = 0 => next - old[1] = l * N_SPEC_BUFF
    BY <1>10 DEF Current, Follows
  <2>4. Sound(new)
    <3>1. ASSUME NEW i \in 1 .. (l + 1) - 1 PROVE Gap(new.blocks[i], new.blocks[i + 1], f)
      <4>1. CASE i = l
        BY <1>2, <1>3, <2>2, <2>3, <4>1
      <4>2. CASE i # l
        <5>1. i \in 1 .. l - 1 /\ i \in 1 .. l /\ i + 1 \in 1 .. l
          BY <1>1, <4>2
        <5>2. Gap(old[i], old[i + 1], f)
          BY <1>10, <5>1 DEF Sound
        <5> QED BY <1>2, <1>3, <5>1, <5>2
      <4> QED BY <4>1, <4>2
    <3>2. next - old[1] <= (l + 1 + f - 1) * N_SPEC_BUFF
      <4>1. l + 1 + f - 1 = l + f
        BY <1>1
      <4> QED BY <2>3, <4>1
    <3> QED BY <1>2, <1>3, <1>4, <2>2, <3>1, <3>2 DEF Sound
  <2>5. (next + N_SPEC_BUFF) - old[1] <= (l + 1 + f) * N_SPEC_BUFF
    <3>1. l + 1 + f = l + f + 1
      BY <1>1
    <3>2. (l + 1 + f) * N_SPEC_BUFF = (l + f) * N_SPEC_BUFF + N_SPEC_BUFF
      BY ONLY <1>8, <3>1
    <3>3. next \in Int /\ N_SPEC_BUFF \in Nat /\ (l + f) * N_SPEC_BUFF \in Int /\ old[1] \in Int
      BY <1>1, <1>8, <2>1
    <3>4. next - old[1] <= (l + f) * N_SPEC_BUFF
      BY <2>3
    <3> HIDE DEF old, l, f
    <3> QED BY ONLY <3>2, <3>3, <3>4
  <2>6. Current(new, seen + 1, next + N_SPEC_BUFF)
    <3>1. /\ new.blocks # <<>> /\ new.blocks[Len(new.blocks)] = next /\ new.failed = f
          /\ new.blocks[1] = old[1] /\ Len(new.blocks) = l + 1
      BY <1>2, <1>3, <1>6, <2>2
    <3>2. Gap(new.blocks[Len(new.blocks)], next + N_SPEC_BUFF, new.failed)
      BY ONLY <1>7, <3>1
    <3>3. (next + N_SPEC_BUFF) - new.blocks[1] <= (Len(new.blocks) + new.failed) * N_SPEC_BUFF
      BY ONLY <2>5, <3>1
    <3>5. f = 0 => (next + N_SPEC_BUFF) - old[1] = (l + 1) * N_SPEC_BUFF
      <4>1. next \in Int /\ N_SPEC_BUFF \in Nat /\ old[1] \in Int
        BY <1>1, <2>1
      <4> HIDE DEF old, l, f
      <4> QED BY <1>12, <2>3, <4>1
    <3>4. Follows(new, next + N_SPEC_BUFF)
      BY ONLY <3>1, <3>2, <3>3, <3>5 DEF Follows
    <3> QED BY ONLY <1>5, <1>11, <3>1, <3>4 DEF Current
  <2> QED BY <1>0, <1>4, <2>4, <2>6
<1> QED BY <1>9, <1>10

(* ... and one that is not, or not all.                                    *)
LEMMA FailGood ==
  ASSUME NEW file, NEW seen \in Nat, NEW next \in Mcnts,
         Sound(file), Current(file, seen, next)
  PROVE  /\ Sound(WithFailure(file))
         /\ Current(WithFailure(file), seen + 1, next + N_SPEC_BUFF)
<1> DEFINE old == file.blocks
           l == Len(old)
           f == file.failed
<1>0. PICK new : new = WithFailure(file)
  OBVIOUS
<1>1. /\ file.header \in BOOLEAN /\ file.tstart \in Nat /\ old \in Seq(Mcnts)
      /\ f \in Nat /\ l \in Nat /\ next \in Int /\ N_SPEC_BUFF \in Nat
  BY OutputConstants DEF Sound, FileSet, Mcnts
<1>2. /\ new.blocks = old /\ new.failed = f + 1
      /\ new = [header |-> file.header, tstart |-> file.tstart, blocks |-> old, failed |-> f + 1]
  <2>1. file = [header |-> file.header, tstart |-> file.tstart, blocks |-> old, failed |-> f]
    BY DEF Sound, FileSet
  <2> QED BY <1>0, <2>1 DEF WithFailure
<1>3. new \in FileSet
  BY <1>1, <1>2 DEF FileSet
<1>4. Count(new) = seen + 1
  <2>1. Count(file) = seen
    BY DEF Current
  <2>2. Count(file) = l + f /\ Count(new) = l + (f + 1)
    BY <1>2 DEF Count
  <2> QED BY <1>1, <2>1, <2>2
<1>5. /\ new.header => new.tstart = file_mcnt
      /\ new.failed # 0
  BY <1>1, <1>2 DEF Current
<1>6. CASE old = <<>>
  BY <1>0, <1>2, <1>3, <1>4, <1>5, <1>6 DEF Sound, Current
<1>7. CASE old # <<>>
  <2>1. \A i \in 1 .. l : old[i] \in Int
    <3>1. Mcnts \subseteq Int
      BY DEF Mcnts
    <3>2. \A i \in 1 .. l : old[i] \in Mcnts
      BY ONLY <1>1
    <3> QED BY <3>1, <3>2
  <2>2. l > 0 /\ old[1] \in Int /\ old[l] \in Int
    BY <1>1, <1>7, <2>1
  <2>3. /\ (l + (f + 1)) * N_SPEC_BUFF = (l + f) * N_SPEC_BUFF + N_SPEC_BUFF
        /\ (l + (f + 1) - 1) * N_SPEC_BUFF = (l + f - 1) * N_SPEC_BUFF + N_SPEC_BUFF
        /\ (l + f) * N_SPEC_BUFF \in Int /\ (l + f - 1) * N_SPEC_BUFF \in Int
    <3>1. l + (f + 1) = (l + f) + 1 /\ l + (f + 1) - 1 = (l + f - 1) + 1
      BY <1>1
    <3>2. l + f \in Int /\ l + f - 1 \in Int
      BY <1>1
    <3> QED BY <3>1, <3>2, NextSpan
  <2>4. ASSUME NEW i \in 1 .. l - 1 PROVE Gap(old[i], old[i + 1], f + 1)
    <3>1. old[i] \in Int /\ old[i + 1] \in Int
      BY <1>1, <2>1
    <3>2. Gap(old[i], old[i + 1], f)
      BY <1>7 DEF Sound
    <3> QED BY <1>1, <3>1, <3>2, GapLater
  <2>5. old[l] - old[1] <= (l + (f + 1) - 1) * N_SPEC_BUFF
    <3>1. old[l] - old[1] <= (l + f - 1) * N_SPEC_BUFF
      BY <1>7 DEF Sound
    <3> HIDE DEF old, l, f
    <3> QED BY <1>1, <2>2, <2>3, <3>1
  <2>6. Gap(old[l], next + N_SPEC_BUFF, f + 1)
    <3>1. Gap(old[l], next, f)
      BY <1>7 DEF Current, Follows
    <3> QED BY <1>1, <2>2, <3>1, GapLater
  <2>7. (next + N_SPEC_BUFF) - old[1] <= (l + (f + 1)) * N_SPEC_BUFF
    <3>1. next - old[1] <= (l + f) * N_SPEC_BUFF
      BY <1>7 DEF Current, Follows
    <3> HIDE DEF old, l, f
    <3> QED BY <1>1, <2>2, <2>3, <3>1
  <2>8. Sound(new)
    BY <1>2, <1>3, <2>4, <2>5 DEF Sound
  <2>9. Follows(new, next + N_SPEC_BUFF)
    BY ONLY <1>2, <1>5, <2>6, <2>7 DEF Follows
  <2> QED BY <1>0, <1>2, <1>4, <1>5, <1>7, <2>8, <2>9 DEF Current
<1> QED BY <1>6, <1>7

-----------------------------------------------------------------------------
(* The ring and the thread's own variables.                                *)

(* The block in hand is the next one of the run.                           *)
LEMMA HeldBlock ==
  ASSUME BenchTypeOK, FeedInv, out_sem[file_idx] = FILLED, NEW r \in 0 .. fed, FeedRing(r)
  PROVE  r < fed /\ out_netmcnt[file_idx] = LastOfBlock(r + 1)
<1>1. file_idx \in OutBlocks /\ fed \in Nat /\ N_OUTPUT_BLOCKS \in Nat \ {0}
  BY OutputConstants DEF BenchTypeOK, OutputTypeOK
<1>2. PICK i \in r .. fed - 1 : file_idx = i % N_OUTPUT_BLOCKS
  BY <1>1 DEF FeedRing
<1>3. i = r
  <2>1. r \in Int /\ i \in r .. r + N_OUTPUT_BLOCKS - 1 /\ r % N_OUTPUT_BLOCKS = i % N_OUTPUT_BLOCKS
    BY <1>1, <1>2 DEF FeedRing
  <2> QED BY ONLY <1>1, <2>1, ModWindow
<1> QED BY <1>1, <1>2, <1>3 DEF FeedRing

LEMMA HeldHeader ==
  ASSUME BenchTypeOK, FeedInv, out_sem[file_idx] = FILLED
  PROVE  /\ out_netmcnt[file_idx] = init_mcnt + Taken + N_SPEC_BUFF - 1
         /\ fed > 0
<1>1. PICK r \in 0 .. fed : FeedRing(r)
  BY DEF FeedInv
<1>2. r < fed /\ out_netmcnt[file_idx] = LastOfBlock(r + 1)
  BY <1>1, HeldBlock
<1>3. Taken = r * N_SPEC_BUFF
  BY <1>1 DEF FeedRing
<1>4. r \in Int /\ fed \in Nat /\ init_mcnt \in Int /\ N_SPEC_BUFF \in Nat
  BY OutputConstants DEF BenchTypeOK, Mcnts
<1>5. (r + 1) * N_SPEC_BUFF = r * N_SPEC_BUFF + N_SPEC_BUFF /\ r * N_SPEC_BUFF \in Int
  BY <1>4, NextSpan
<1>6. LastOfBlock(r + 1) = init_mcnt + Taken + N_SPEC_BUFF - 1
  BY <1>3, <1>4, <1>5 DEF LastOfBlock
<1> QED BY <1>2, <1>4, <1>6

(* Packets after the first.                                                *)
LaterPacket ==
  \/ \E source_from \in SourceTypes, group \in BeamGroups : NextPacket(source_from, group)
  \/ \E j \in Beams \ {0} : NextBeam(j)

LEMMA PacketLeaves ==
  ASSUME LaterPacket
  PROVE  /\ UNCHANGED <<output_vars, start_file, init_mcnt, out_private, fs_vars, fed, restarts,
                        cleans, raced>>
         /\ start_file
BY DEF LaterPacket, NextPacket, NextBeam

(* Whatever group they come from, and however far beam_ID is rewritten.    *)
LEMMA PacketBeams ==
  ASSUME BenchTypeOK, LaterPacket
  PROVE  /\ beam_ID' \in [Beams -> Nat]
         /\ (\A j \in Beams : beam_ID[j] % N_BEAM_PER_PACK = j)
              => \A j \in Beams : beam_ID'[j] % N_BEAM_PER_PACK = j
<1> DEFINE n == N_BEAM_PER_PACK
<1>1. n \in Nat \ {0} /\ 0 \in Beams /\ beam_ID \in [Beams -> Nat]
  BY OutputConstants DEF Beams, BenchTypeOK
<1>2. ASSUME NEW source_from \in SourceTypes, NEW group \in BeamGroups,
             NextPacket(source_from, group)
      PROVE  beam_ID' = [beam_ID EXCEPT ![0] = group * n + 0] /\ group * n + 0 \in Nat
             /\ (group * n + 0) % n = 0
  <2>1. beam_ID' = [beam_ID EXCEPT ![0] = group * n + 0]
    BY <1>1, <1>2 DEF NextPacket, BeamsOfGroup
  <2>2. group \in Nat /\ 0 \in 0 .. n - 1
    BY <1>1, GroupAssumption
  <2>3. (group * n + 0) % n = 0
    <3>1. group \in Int
      BY <2>2
    <3> QED BY ONLY <1>1, <2>2, <3>1, ModOfMultiple
  <2>4. group * n + 0 \in Nat
    <3>1. group * n \in Nat
      BY <1>1, <2>2, ProductNat
    <3> QED BY <3>1
  <2> QED BY <2>1, <2>3, <2>4
<1>3. ASSUME NEW j \in Beams \ {0}, NextBeam(j)
      PROVE  /\ beam_ID' = [beam_ID EXCEPT ![j] = beam_ID[j - 1] + 1]
             /\ beam_ID[j - 1] + 1 \in Nat /\ j - 1 \in Beams
             /\ beam_ID[j - 1] % n = j - 1 => (beam_ID[j - 1] + 1) % n = j
  <2>1. j \in 0 .. n - 1 /\ j # 0 /\ j - 1 \in 0 .. n - 1 /\ j - 1 \in Beams
    BY <1>1 DEF Beams
  <2>2. beam_ID[j - 1] \in Nat
    BY <1>1, <2>1
  <2>3. PICK x \in Nat : x = beam_ID[j - 1]
    BY <2>2
  <2>4. x % n = j - 1 => (x + 1) % n = j
    <3>1. ((x % n) + 1) % n = (x + 1) % n
      <4>1. x \in Int
        OBVIOUS
      <4> QED BY ONLY <1>1, <4>1, ModNext
    <3>2. (j - 1) + 1 = j /\ j % n = j
      <4>1. j % n = j
        BY ONLY <1>1, <2>1, ModId
      <4> QED BY <2>1, <4>1
    <3> QED BY <3>1, <3>2
  <2> QED BY <1>3, <2>1, <2>2, <2>3, <2>4 DEF NextBeam
<1>4. CASE \E source_from \in SourceTypes, group \in BeamGroups : NextPacket(source_from, group)
  <2>1. PICK v \in Nat : beam_ID' = [beam_ID EXCEPT ![0] = v] /\ v % n = 0
    BY <1>2, <1>4
  <2> HIDE DEF n
  <2>2. beam_ID' \in [Beams -> Nat]
    BY <1>1, <2>1
  <2> QED BY <1>1, <2>1, <2>2 DEF n
<1>5. CASE \E j \in Beams \ {0} : NextBeam(j)
  <2>1. PICK j \in Beams \ {0} : NextBeam(j)
    BY <1>5
  <2>2. PICK v \in Nat : /\ beam_ID' = [beam_ID EXCEPT ![j] = v]
                         /\ beam_ID[j - 1] % n = j - 1 => v % n = j
    BY <1>3, <2>1
  <2> HIDE DEF n
  <2>3. beam_ID' \in [Beams -> Nat]
    BY <1>1, <2>2
  <2>4. j - 1 \in Beams
    BY <1>3, <2>1
  <2> QED BY <1>1, <2>2, <2>3, <2>4 DEF n
<1> QED BY <1>4, <1>5 DEF LaterPacket

LEMMA BenchTypeNext ==
  ASSUME BenchTypeOK, BenchNext
  PROVE  BenchTypeOK'
<1> USE OutputConstants
<1>1. CASE OutputSteps
  <2>1. OutputTypeOK'
    BY <1>1, OutputTypeStep DEF OutputSteps, BenchTypeOK
  <2>2. UNCHANGED <<out_netmcnt, start_file, init_mcnt, beam_ID, fed>>
    BY <1>1 DEF OutputSteps, OutputInternal, OutputWaitError, TakeBlock, NameDirectory,
       MakeDirectory, StampFiles, CheckType, FormatName, CreateFile, OpenFiles, WriteBeam,
       WriteCrash, CountBlock, RenameFile, FreeOutput, output_vars, global_vars
  <2>3. out_sem' = out_sem \/ out_sem' = [out_sem EXCEPT ![file_idx] = FREE]
    BY <1>1 DEF OutputSteps, OutputInternal, OutputWaitError, TakeBlock, NameDirectory,
       MakeDirectory, StampFiles, CheckType, FormatName, CreateFile, OpenFiles, WriteBeam,
       WriteCrash, CountBlock, RenameFile, FreeOutput, output_vars, set_free
  <2>4. out_sem' \in [OutBlocks -> {FREE, FILLED}]
    BY <2>3 DEF BenchTypeOK
  <2> QED BY <2>1, <2>2, <2>4 DEF BenchTypeOK
<1>2. ASSUME NEW m \in FirstFed, NEW source_from \in SourceTypes, NEW group \in BeamGroups,
             FirstPacket(m, source_from, group)
      PROVE  BenchTypeOK'
  <2>1. init_mcnt' \in Mcnts /\ start_file' \in BOOLEAN
    BY <1>2, BenchAssumption DEF FirstPacket
  <2>3. beam_ID' \in [Beams -> Nat]
    <3>1. \A j \in Beams : group * N_BEAM_PER_PACK + j \in Nat
      <4>1. group * N_BEAM_PER_PACK \in Nat
        BY GroupAssumption, ProductNat
      <4> QED BY <4>1 DEF Beams
    <3> QED BY <1>2, <3>1 DEF FirstPacket, BeamsOfGroup
  <2>2. UNCHANGED <<output_vars, out_private, fs_vars, fed>>
    BY <1>2 DEF FirstPacket
  <2> QED BY <2>1, <2>2, <2>3 DEF BenchTypeOK, OutputTypeOK, output_vars, out_private,
             fs_vars
<1>3. CASE LaterPacket
  BY <1>3, PacketLeaves, PacketBeams DEF BenchTypeOK, OutputTypeOK, output_vars,
     out_private, fs_vars
<1>4. CASE FeedBlock
  <2>1. fed % N_OUTPUT_BLOCKS \in OutBlocks
    BY ModRange DEF BenchTypeOK, OutBlocks
  <2>2. LastOfBlock(fed + 1) \in Mcnts
    <3>1. fed + 1 >= 1 /\ fed + 1 \in Int /\ N_SPEC_BUFF \in Nat \ {0} /\ init_mcnt \in Nat
      BY DEF BenchTypeOK, Mcnts
    <3>2. (fed + 1) * N_SPEC_BUFF >= N_SPEC_BUFF /\ (fed + 1) * N_SPEC_BUFF \in Int
      BY <3>1, MultipleAtLeast
    <3>3. LastOfBlock(fed + 1) <= MaxMcnt
      BY <1>4 DEF FeedBlock
    <3> QED BY <3>1, <3>2, <3>3 DEF LastOfBlock, Mcnts
  <2>3. /\ out_netmcnt' = [out_netmcnt EXCEPT ![fed % N_OUTPUT_BLOCKS] = LastOfBlock(fed + 1)]
        /\ out_sem' = [out_sem EXCEPT ![fed % N_OUTPUT_BLOCKS] = FILLED]
        /\ fed' = fed + 1
        /\ UNCHANGED <<global_vars, out_private, fs_vars>>
    BY <1>4 DEF FeedBlock, set_filled
  <2>4. /\ out_netmcnt' \in [OutBlocks -> Mcnts]
        /\ out_sem' \in [OutBlocks -> {FREE, FILLED}]
        /\ fed' \in Nat
    BY <2>1, <2>2, <2>3 DEF BenchTypeOK
  <2> QED BY <2>3, <2>4 DEF BenchTypeOK, OutputTypeOK, global_vars, out_private, fs_vars
<1>5. CASE Restart
  <2>1. /\ out_sem' \in [OutBlocks -> {FREE, FILLED}]
        /\ out_netmcnt' \in [OutBlocks -> Mcnts]
        /\ start_file' \in BOOLEAN /\ init_mcnt' \in Mcnts /\ fed' \in Nat
        /\ beam_ID' \in [Beams -> Nat]
    <3>1. /\ out_sem' = [b \in OutBlocks |-> FREE]
          /\ out_netmcnt' = [b \in OutBlocks |-> 0]
          /\ start_file' = FALSE /\ init_mcnt' = 0 /\ fed' = 0
          /\ beam_ID' = [j \in Beams |-> 0]
      BY <1>5 DEF Restart
    <3>2. 0 \in Mcnts
      BY DEF Mcnts
    <3> QED BY ONLY <3>1, <3>2 DEF FREE, FILLED
  <2>2. saved' \in Nat /\ saved' % N_SPEC_BUFF = 0
    <3>1. saved' = 0 /\ 0 \in 0 .. N_SPEC_BUFF - 1
      BY <1>5 DEF Restart
    <3> QED BY <3>1, ModId
  <2>3. /\ out_pc' = "wait" /\ file_idx' \in OutBlocks /\ filb_flag' \in {0, 1}
        /\ file_mcnt' \in Nat /\ N_files' \in Int /\ is_open' \in BOOLEAN
        /\ out_beam' \in 0 .. N_BEAM_PER_PACK /\ gps_time' \in GpsTimes
        /\ UNCHANGED <<files, dirs, failures>>
    <3>1. /\ out_pc' = "wait" /\ file_idx' = 0 /\ filb_flag' = 1 /\ file_mcnt' = 0
          /\ N_files' \in NFilesInit /\ is_open' = FALSE /\ out_beam' = 0
          /\ gps_time' \in GpsTimes
          /\ UNCHANGED <<files, dirs, failures>>
      BY <1>5 DEF Restart, fs_vars
    <3>2. N_files' \in Int
      BY <3>1
    <3>3. 0 \in OutBlocks /\ 0 \in 0 .. N_BEAM_PER_PACK
      BY DEF OutBlocks
    <3> QED BY ONLY <3>1, <3>2, <3>3
  <2>4. File_dir' \in Seq(Nat) /\ f_fil' \in [Beams -> [dir : Seq(Nat), beam : Nat, stamp : Int]]
    <3>1. File_dir' = <<>> /\ f_fil' = [j \in Beams |-> NoName]
      BY <1>5 DEF Restart
    <3>2. NoName \in [dir : Seq(Nat), beam : Nat, stamp : Int] /\ <<>> \in Seq(Nat)
      BY DEF NoName
    <3> QED BY ONLY <3>1, <3>2
  <2> QED BY <2>1, <2>2, <2>3, <2>4 DEF BenchTypeOK, OutputTypeOK
<1>6. CASE Data_clean
  <2>1. PICK gone \in SUBSET DOMAIN files :
          /\ files' = Remove(files, gone)
          /\ dirs' \in {dirs, {d \in dirs : \E p \in DOMAIN files' : p.dir = d}}
    BY <1>6 DEF Data_clean
  <2>2. DOMAIN files' \subseteq DOMAIN files
    BY <2>1 DEF Remove
  <2>3. \A p \in DOMAIN files : p.ext \in {"fil", "fil.working"} /\ p.dir \in dirs
    BY DEF BenchTypeOK, OutputTypeOK
  <2>4. \A p \in DOMAIN files' : p.ext \in {"fil", "fil.working"} /\ p.dir \in dirs'
    BY <2>1, <2>2, <2>3
  <2>5. UNCHANGED <<output_vars, global_vars, out_private, failures, fed>>
    BY <1>6 DEF Data_clean
  <2> QED BY <2>4, <2>5 DEF BenchTypeOK, OutputTypeOK, output_vars, global_vars, out_private
<1> QED BY <1>1, <1>2, <1>3, <1>4, <1>5, <1>6 DEF BenchNext, LaterPacket

(* Before the first packet the thread can only end.                        *)
LEMMA IdleBefore ==
  ASSUME BenchTypeOK, BenchStart, OutputSteps, ~start_file
  PROVE  OutputWaitError
<1>1. file_idx \in OutBlocks
  BY DEF BenchTypeOK, OutputTypeOK
<1>2. ~OutMayTake
  BY <1>1 DEF OutMayTake, wait_filled, BenchStart
<1> QED BY <1>2 DEF BenchStart, OutputSteps, OutputInternal, TakeBlock, NameDirectory,
           MakeDirectory, StampFiles, CheckType, FormatName, CreateFile, OpenFiles,
           WriteBeam, WriteCrash, CountBlock, RenameFile, FreeOutput

LEMMA BenchStartNext ==
  ASSUME BenchTypeOK, BenchStart, BenchNext
  PROVE  BenchStart'
<1> USE DEF BenchStart
<1>0. f_fil \in [Beams -> [dir : Seq(Nat), beam : Nat, stamp : Int]]
  BY DEF BenchTypeOK, OutputTypeOK
<1>1. CASE OutputSteps
  <2>1. UNCHANGED <<fed, beam_ID, start_file>>
    BY <1>1 DEF OutputSteps, OutputInternal, OutputWaitError, TakeBlock, NameDirectory,
       MakeDirectory, StampFiles, CheckType, FormatName, CreateFile, OpenFiles, WriteBeam,
       WriteCrash, CountBlock, RenameFile, FreeOutput, global_vars
  <2>2. f_fil' = f_fil \/ FormatName
    BY <1>1 DEF OutputSteps, OutputInternal, OutputWaitError, TakeBlock, NameDirectory,
       MakeDirectory, StampFiles, CheckType, FormatName, CreateFile, OpenFiles, WriteBeam,
       WriteCrash, CountBlock, RenameFile, FreeOutput
  <2>3. ~start_file => OutputWaitError
    BY <1>1, IdleBefore
  <2>4. ASSUME NEW j \in Beams, f_fil'[j] # NoName
        PROVE  f_fil'[j].beam % N_BEAM_PER_PACK = j
    <3>1. CASE f_fil'[j] = f_fil[j]
      BY <2>4, <3>1
    <3>2. CASE f_fil'[j] # f_fil[j]
      <4>1. FormatName /\ start_file
        BY <2>2, <2>3, <3>2 DEF OutputWaitError
      <4>2. f_fil' = [f_fil EXCEPT ![out_beam] = [dir   |-> File_dir,
                                                  beam  |-> beam_ID[out_beam],
                                                  stamp |-> time_calculate(file_mcnt)]]
        BY <4>1 DEF FormatName
      <4>3. j = out_beam /\ f_fil'[j].beam = beam_ID[j]
        BY <1>0, <3>2, <4>2
      <4> QED BY <4>1, <4>3
    <3> QED BY <3>1, <3>2
  <2>5. CASE start_file
    BY <2>1, <2>4, <2>5
  <2>6. CASE ~start_file
    BY <2>1, <2>3, <2>4, <2>6 DEF OutputWaitError, output_vars
  <2> QED BY <2>5, <2>6
<1>2. ASSUME NEW m \in FirstFed, NEW source_from \in SourceTypes, NEW group \in BeamGroups,
             FirstPacket(m, source_from, group)
      PROVE  BenchStart'
  <2>1. start_file' /\ beam_ID' = BeamsOfGroup(group) /\ f_fil' = f_fil
    BY <1>2 DEF FirstPacket, out_private
  <2>2. ASSUME NEW j \in Beams PROVE beam_ID'[j] % N_BEAM_PER_PACK = j
    <3>1. N_BEAM_PER_PACK \in Nat \ {0} /\ group \in Int /\ j \in 0 .. N_BEAM_PER_PACK - 1
      BY OutputConstants, GroupAssumption DEF Beams
    <3>2. (group * N_BEAM_PER_PACK + j) % N_BEAM_PER_PACK = j
      BY ONLY <3>1, ModOfMultiple
    <3> QED BY <2>1, <3>2 DEF BeamsOfGroup
  <2> QED BY <2>1, <2>2
<1>3. CASE LaterPacket
  BY <1>3, PacketLeaves, PacketBeams DEF out_private
<1>4. CASE FeedBlock
  BY <1>4 DEF FeedBlock, global_vars, out_private
<1>5. CASE Restart
  <2>1. /\ out_sem' = [b \in OutBlocks |-> FREE] /\ ~start_file' /\ fed' = 0 /\ out_pc' = "wait"
        /\ filb_flag' = 1 /\ saved' = 0 /\ f_fil' = [j \in Beams |-> NoName]
    BY <1>5 DEF Restart
  <2> QED BY <2>1
<1>6. CASE Data_clean
  BY <1>6 DEF Data_clean, output_vars, global_vars, out_private
<1> QED BY <1>1, <1>2, <1>3, <1>4, <1>5, <1>6 DEF BenchNext, LaterPacket

LEMMA FlagNext ==
  ASSUME FlagInv, BenchNext
  PROVE  FlagInv'
<1> USE DEF FlagInv, Naming
<1>1. CASE OutputSteps
  <2>1. CASE CountBlock
    <3>1. /\ filb_flag' = IF FileFull(saved') THEN 1 ELSE 0
          /\ out_pc' = IF FileFull(saved') THEN "rename" ELSE "free"
          /\ out_beam' = 0
      BY <2>1 DEF CountBlock, FlagAfter
    <3>2. FileFull(saved)' = FileFull(saved')
      BY DEF FileFull
    <3> QED BY <3>1, <3>2
  <2> QED BY <1>1, <2>1 DEF OutputSteps, OutputInternal, OutputWaitError, TakeBlock,
             NameDirectory, MakeDirectory, StampFiles, CheckType, FormatName, CreateFile,
             OpenFiles, WriteBeam, WriteCrash, RenameFile, FreeOutput, FileFull
<1>2. ASSUME NEW m \in FirstFed, NEW source_from \in SourceTypes, NEW group \in BeamGroups,
             FirstPacket(m, source_from, group)
      PROVE  FlagInv'
  BY <1>2 DEF FirstPacket, out_private, FileFull
<1>3. CASE LaterPacket
  BY <1>3, PacketLeaves DEF out_private, FileFull
<1>4. CASE FeedBlock
  BY <1>4 DEF FeedBlock, out_private, FileFull
<1>5. CASE Restart
  <2>1. 0 % N_SPEC_PER_FILE = 0
    <3>1. 0 \in 0 .. N_SPEC_PER_FILE - 1 /\ N_SPEC_PER_FILE \in Nat \ {0}
      BY OutputConstants
    <3> QED BY ONLY <3>1, ModId
  <2> QED BY <1>5, <2>1 DEF Restart, FileFull
<1>6. CASE Data_clean
  BY <1>6 DEF Data_clean, out_private, FileFull
<1> QED BY <1>1, <1>2, <1>3, <1>4, <1>5, <1>6 DEF BenchNext, LaterPacket

(* What leaves the ring alone, or what the thread has given back.          *)
LEMMA RingFrame ==
  ASSUME FeedInv, UNCHANGED <<out_sem, out_netmcnt, fed, file_idx, init_mcnt>>,
         Taken' = Taken, Holds' => Holds \/ out_sem[file_idx] = FILLED
  PROVE  FeedInv'
<1>1. PICK r \in 0 .. fed : FeedRing(r)
  BY DEF FeedInv
<1>2. FeedRing(r)'
  BY <1>1 DEF FeedRing, LastOfBlock
<1>3. Holds' => out_sem'[file_idx'] = FILLED
  BY DEF FeedInv
<1>4. r \in 0 .. fed'
  OBVIOUS
<1> QED BY <1>2, <1>3, <1>4 DEF FeedInv

LEMMA FeedFree ==
  ASSUME BenchTypeOK, FeedInv, FreeOutput, UNCHANGED fed
  PROVE  FeedInv'
<1> DEFINE n == N_OUTPUT_BLOCKS
<1>1. PICK r \in 0 .. fed : FeedRing(r)
  BY DEF FeedInv
<1>2. out_sem[file_idx] = FILLED
  BY DEF FreeOutput, FeedInv, Holds
<1>3. r < fed
  BY <1>1, <1>2, HeldBlock
<1>4. n \in Nat \ {0} /\ fed \in Nat /\ r \in Int /\ r + 1 \in 0 .. fed
  BY <1>3, OutputConstants DEF BenchTypeOK
<1>5. /\ out_sem' = [out_sem EXCEPT ![file_idx] = FREE] /\ file_idx' = Following(file_idx, n)
      /\ out_pc' = "wait" /\ UNCHANGED <<out_netmcnt, init_mcnt, saved, fed>>
  BY DEF FreeOutput, set_free, global_vars
<1>6. file_idx = r % n /\ out_sem \in [OutBlocks -> {FREE, FILLED}]
  BY <1>1 DEF FeedRing, BenchTypeOK
<1>7. \A i \in r + 1 .. fed - 1 : i % n # r % n /\ i % n \in OutBlocks /\ i \in r .. fed - 1
  <2> SUFFICES ASSUME NEW i \in r + 1 .. fed - 1
               PROVE  i % n # r % n /\ i % n \in OutBlocks /\ i \in r .. fed - 1
    OBVIOUS
  <2>1. i \in r .. r + n - 1 /\ i \in Int /\ i # r /\ i \in r .. fed - 1
    BY <1>1, <1>4 DEF FeedRing
  <2>2. i % n \in OutBlocks
    BY <1>4, <2>1, ModRange DEF OutBlocks
  <2>3. r % n # i % n
    BY ONLY <1>4, <2>1, ModWindow
  <2> QED BY <2>1, <2>2, <2>3
<1>8. FeedRing(r + 1)'
  <2>1. Taken' = (r + 1) * N_SPEC_BUFF
    <3>1. Taken' = saved /\ Taken = saved - N_SPEC_BUFF
      BY <1>5 DEF Taken, FreeOutput
    <3>2. Taken = r * N_SPEC_BUFF
      BY <1>1 DEF FeedRing
    <3>3. (r + 1) * N_SPEC_BUFF = r * N_SPEC_BUFF + N_SPEC_BUFF /\ r * N_SPEC_BUFF \in Int
      BY <1>4, NextSpan
    <3>4. saved \in Int /\ N_SPEC_BUFF \in Int
      BY OutputConstants DEF BenchTypeOK, OutputTypeOK
    <3> QED BY ONLY <3>1, <3>2, <3>3, <3>4
  <2>2. file_idx' = (r + 1) % n
    <3>1. Following(file_idx, n) = ((r % n) + 1) % n
      BY <1>6 DEF Following
    <3>2. ((r % n) + 1) % n = (r + 1) % n
      BY ONLY <1>4, ModNext
    <3> QED BY <1>5, <3>1, <3>2
  <2>3. fed' <= (r + 1) + n
    BY <1>1, <1>4, <1>5 DEF FeedRing
  <2>4. ASSUME NEW i \in r + 1 .. fed' - 1
        PROVE  out_sem'[i % n] = FILLED /\ out_netmcnt'[i % n] = LastOfBlock(i + 1)'
    <3>1. /\ i % n # file_idx /\ i % n \in OutBlocks
          /\ out_sem[i % n] = FILLED /\ out_netmcnt[i % n] = LastOfBlock(i + 1)
      BY <1>1, <1>5, <1>6, <1>7 DEF FeedRing
    <3>2. LastOfBlock(i + 1)' = LastOfBlock(i + 1)
      BY <1>5 DEF LastOfBlock
    <3> QED BY <1>5, <1>6, <3>1, <3>2
  <2>5. ASSUME NEW b \in OutBlocks, out_sem'[b] = FILLED
        PROVE  \E i \in r + 1 .. fed' - 1 : b = i % n
    <3>1. b # file_idx /\ out_sem[b] = FILLED
      BY <1>5, <1>6, <2>5
    <3>2. PICK i \in r .. fed - 1 : b = i % n
      BY <1>1, <3>1 DEF FeedRing
    <3>3. i \in r + 1 .. fed - 1
      BY <1>4, <1>6, <3>1, <3>2
    <3> QED BY <1>5, <3>2, <3>3
  <2> QED BY <2>1, <2>2, <2>3, <2>4, <2>5 DEF FeedRing
<1>9. ~Holds'
  BY <1>5 DEF Holds, Naming
<1> QED BY <1>4, <1>5, <1>8, <1>9 DEF FeedInv

LEMMA FeedFeed ==
  ASSUME BenchTypeOK, FeedInv, FeedBlock
  PROVE  FeedInv'
<1> DEFINE n == N_OUTPUT_BLOCKS
           k == fed % n
<1>1. PICK r \in 0 .. fed : FeedRing(r)
  BY DEF FeedInv
<1>2. n \in Nat \ {0} /\ fed \in Nat /\ r \in Int /\ r \in 0 .. fed + 1
  BY OutputConstants DEF BenchTypeOK
<1>3. /\ out_sem' = [out_sem EXCEPT ![k] = FILLED] /\ out_sem[k] = FREE
      /\ out_netmcnt' = [out_netmcnt EXCEPT ![k] = LastOfBlock(fed + 1)]
      /\ fed' = fed + 1 /\ UNCHANGED <<global_vars, out_private>>
  BY DEF FeedBlock, set_filled, wait_free
<1>4. /\ out_sem \in [OutBlocks -> {FREE, FILLED}] /\ out_netmcnt \in [OutBlocks -> Mcnts]
      /\ k \in OutBlocks
  BY <1>2, ModRange DEF BenchTypeOK, OutBlocks
<1>5. fed < r + n
  <2> SUFFICES ASSUME fed = r + n PROVE FALSE
    BY <1>1, <1>2 DEF FeedRing
  <2>1. r \in r .. fed - 1
    BY <1>2
  <2>2. out_sem[r % n] = FILLED
    BY <1>1, <2>1 DEF FeedRing
  <2>3. fed % n = r % n
    BY ONLY <1>2, fed = r + n, ModAddModulus
  <2> QED BY <1>3, <2>2, <2>3
<1>6. \A i \in r .. fed - 1 : i % n # k /\ i % n \in OutBlocks
  <2> SUFFICES ASSUME NEW i \in r .. fed - 1 PROVE i % n # k /\ i % n \in OutBlocks
    OBVIOUS
  <2>1. fed \in i .. i + n - 1 /\ i \in Int /\ i # fed
    BY <1>2, <1>5
  <2>2. i % n # fed % n
    BY ONLY <1>2, <2>1, ModWindow
  <2>3. i % n \in OutBlocks
    BY <1>2, <2>1, ModRange DEF OutBlocks
  <2> QED BY <2>2, <2>3
<1>7. FeedRing(r)'
  <2>1. Taken' = Taken /\ file_idx' = file_idx /\ init_mcnt' = init_mcnt
    BY <1>3 DEF Taken, out_private, global_vars
  <2>2. fed' <= r + n
    BY <1>2, <1>3, <1>5
  <2>3. ASSUME NEW i \in r .. fed' - 1
        PROVE  out_sem'[i % n] = FILLED /\ out_netmcnt'[i % n] = LastOfBlock(i + 1)'
    <3>1. LastOfBlock(i + 1)' = LastOfBlock(i + 1)
      BY <2>1 DEF LastOfBlock
    <3>2. CASE i = fed
      <4>1. out_sem'[k] = FILLED /\ out_netmcnt'[k] = LastOfBlock(fed + 1)
        BY <1>3, <1>4
      <4> QED BY <3>1, <3>2, <4>1
    <3>3. CASE i # fed
      <4>1. i \in r .. fed - 1
        BY <1>2, <1>3, <3>3
      <4>2. /\ out_sem[i % n] = FILLED /\ out_netmcnt[i % n] = LastOfBlock(i + 1)
            /\ i % n # k /\ i % n \in OutBlocks
        BY <1>1, <1>6, <4>1 DEF FeedRing
      <4> HIDE DEF k
      <4> QED BY <1>3, <1>4, <3>1, <4>2
    <3> QED BY <3>2, <3>3
  <2>4. ASSUME NEW b \in OutBlocks, out_sem'[b] = FILLED
        PROVE  \E i \in r .. fed' - 1 : b = i % n
    <3>1. CASE b = k
      <4>1. fed \in r .. fed' - 1
        BY <1>2, <1>3
      <4> QED BY <3>1, <4>1
    <3>2. CASE b # k
      <4>1. out_sem[b] = FILLED
        <5> HIDE DEF k
        <5> QED BY <1>3, <1>4, <2>4, <3>2
      <4>2. PICK i \in r .. fed - 1 : b = i % n
        BY <1>1, <4>1 DEF FeedRing
      <4>3. i \in r .. fed' - 1
        BY <1>2, <1>3
      <4> QED BY <4>2, <4>3
    <3> QED BY <3>1, <3>2
  <2>5. Taken = r * N_SPEC_BUFF /\ file_idx = r % n
    BY <1>1 DEF FeedRing
  <2> QED BY <2>1, <2>2, <2>3, <2>4, <2>5 DEF FeedRing
<1>8. Holds' => out_sem'[file_idx'] = FILLED
  <2> SUFFICES ASSUME Holds' PROVE out_sem'[file_idx'] = FILLED
    OBVIOUS
  <2>1. Holds /\ file_idx' = file_idx /\ file_idx \in OutBlocks
    BY <1>3 DEF Holds, out_private, BenchTypeOK, OutputTypeOK
  <2>2. out_sem[file_idx] = FILLED
    BY <2>1 DEF FeedInv
  <2> HIDE DEF k
  <2> QED BY <1>3, <1>4, <2>1, <2>2
<1> QED BY <1>2, <1>3, <1>7, <1>8 DEF FeedInv

LEMMA FeedNext ==
  ASSUME BenchTypeOK, BenchStart, FeedInv, BenchNext
  PROVE  FeedInv'
<1>1. CASE OutputSteps
  <2>1. CASE FreeOutput
    BY <1>1, <2>1, FeedFree DEF OutputSteps
  <2>2. CASE CountBlock
    <3>1. UNCHANGED <<out_sem, out_netmcnt, fed, file_idx, init_mcnt>>
      BY <1>1, <2>2 DEF OutputSteps, CountBlock, output_vars, global_vars
    <3>2. Taken' = Taken
      <4>1. saved' = saved + N_SPEC_BUFF /\ out_pc = "write" /\ out_pc' \in {"free", "rename"}
        BY <2>2 DEF CountBlock
      <4>2. saved \in Int /\ N_SPEC_BUFF \in Int
        BY OutputConstants DEF BenchTypeOK, OutputTypeOK
      <4> QED BY <4>1, <4>2 DEF Taken
    <3>3. Holds
      BY <2>2 DEF CountBlock, Holds, Naming
    <3> QED BY <3>1, <3>2, <3>3, RingFrame
  <2>3. CASE ~FreeOutput /\ ~CountBlock
    <3>1. UNCHANGED <<out_sem, out_netmcnt, fed, file_idx, init_mcnt, saved>>
      BY <1>1, <2>3 DEF OutputSteps, OutputInternal, OutputWaitError, TakeBlock,
         NameDirectory, MakeDirectory, StampFiles, CheckType, FormatName, CreateFile,
         OpenFiles, WriteBeam, WriteCrash, RenameFile, output_vars, global_vars
    <3>2. Taken' = Taken
      BY <1>1, <2>3, <3>1 DEF OutputSteps, OutputInternal, OutputWaitError, TakeBlock,
         NameDirectory, MakeDirectory, StampFiles, CheckType, FormatName, CreateFile,
         OpenFiles, WriteBeam, WriteCrash, RenameFile, Taken
    <3>3. Holds' => Holds \/ out_sem[file_idx] = FILLED
      BY <1>1, <2>3 DEF OutputSteps, OutputInternal, OutputWaitError, TakeBlock,
         NameDirectory, MakeDirectory, StampFiles, CheckType, FormatName, CreateFile,
         OpenFiles, WriteBeam, WriteCrash, RenameFile, Holds, Naming, OutMayTake,
         wait_filled
    <3> QED BY <3>1, <3>2, <3>3, RingFrame
  <2> QED BY <2>1, <2>2, <2>3
<1>2. ASSUME NEW m \in FirstFed, NEW source_from \in SourceTypes, NEW group \in BeamGroups,
             FirstPacket(m, source_from, group)
      PROVE  FeedInv'
  <2>1. fed = 0 /\ UNCHANGED <<out_sem, out_netmcnt, fed, file_idx, out_pc, saved>>
    BY <1>2 DEF FirstPacket, BenchStart, output_vars, out_private
  <2>2. PICK r \in 0 .. fed : FeedRing(r)
    BY DEF FeedInv
  <2>3. r = 0 /\ r .. fed - 1 = {}
    BY <2>1, <2>2
  <2>4. FeedRing(r)'
    BY <2>1, <2>2, <2>3 DEF FeedRing, Taken
  <2>5. Holds' => out_sem'[file_idx'] = FILLED
    BY <2>1 DEF FeedInv, Holds, Naming
  <2> QED BY <2>1, <2>2, <2>4, <2>5 DEF FeedInv
<1>3. CASE LaterPacket
  <2>1. UNCHANGED <<out_sem, out_netmcnt, fed, file_idx, init_mcnt, saved, out_pc>>
    BY <1>3, PacketLeaves DEF output_vars, out_private
  <2> QED BY <2>1, RingFrame DEF Taken, Holds
<1>4. CASE FeedBlock
  BY <1>4, FeedFeed
<1>5. CASE Restart
  <2>1. /\ out_sem' = [b \in OutBlocks |-> FREE] /\ fed' = 0 /\ file_idx' = 0 /\ saved' = 0
        /\ out_pc' = "wait"
    BY <1>5 DEF Restart
  <2>2. 0 = 0 * N_SPEC_BUFF /\ 0 = 0 % N_OUTPUT_BLOCKS /\ 0 <= 0 + N_OUTPUT_BLOCKS
    <3>1. N_SPEC_BUFF \in Int /\ N_OUTPUT_BLOCKS \in Nat \ {0} /\ 0 \in 0 .. N_OUTPUT_BLOCKS - 1
      BY OutputConstants
    <3>2. 0 % N_OUTPUT_BLOCKS = 0
      BY <3>1, ModId
    <3> QED BY <3>1, <3>2
  <2>3. 0 .. 0 - 1 = {} /\ 0 \in 0 .. 0
    OBVIOUS
  <2>4. Taken' = 0
    BY <2>1 DEF Taken
  <2>5. \A b \in OutBlocks : out_sem'[b] # FILLED
    BY <2>1
  <2>6. FeedRing(0)'
    BY <2>1, <2>2, <2>3, <2>4, <2>5 DEF FeedRing
  <2> QED BY <2>1, <2>3, <2>6 DEF FeedInv, Holds, Naming
<1>6. CASE Data_clean
  <2>1. UNCHANGED <<out_sem, out_netmcnt, fed, file_idx, init_mcnt, saved, out_pc>>
    BY <1>6 DEF Data_clean, output_vars, out_private, global_vars
  <2> QED BY <2>1, RingFrame DEF Taken, Holds
<1> QED BY <1>1, <1>2, <1>3, <1>4, <1>5, <1>6 DEF BenchNext, LaterPacket

(* A block is written only after the first packet, and its header is the   *)
(* next one.                                                               *)
LEMMA NextHeld ==
  ASSUME BenchTypeOK, FeedInv, out_sem[file_idx] = FILLED,
         out_pc \in Naming \cup {"wait", "header", "write"}
  PROVE  /\ out_netmcnt[file_idx] = NextHeader
         /\ NextHeader \in Mcnts
         /\ fed > 0
<1>1. out_netmcnt[file_idx] = init_mcnt + Taken + N_SPEC_BUFF - 1 /\ fed > 0
  BY HeldHeader
<1>2. Taken = saved
  BY DEF Taken, Naming
<1>3. out_netmcnt[file_idx] \in Mcnts
  BY DEF BenchTypeOK, OutputTypeOK
<1> QED BY <1>1, <1>2, <1>3 DEF NextHeader

(* What StampInv is about, while nothing is saved and no packet is the     *)
(* first.                                                                  *)
LEMMA StampFrame ==
  ASSUME StampInv, UNCHANGED <<init_mcnt, saved, filb_flag, file_mcnt, N_files, out_pc>>
  PROVE  StampInv'
<1>1. Begun' = Begun
  BY DEF Begun, BlocksSaved, BlocksIn
<1>2. Before' = Before
  BY <1>1 DEF Before
<1> QED BY <1>2 DEF StampInv, StampOf

(* Nothing is saved of the file that is to begin.                          *)
LEMMA BegunAll ==
  ASSUME NEW t \in Nat, t % N_SPEC_BUFF = 0, FileFull(t)
  PROVE  t - BlocksIn(t) * N_SPEC_BUFF = t
<1>1. \E u : u = t + N_SPEC_BUFF
  OBVIOUS
<1>2. BlocksIn(t) = 0
  BY <1>1, BlocksStep
<1> QED BY <1>2, OutputConstants

LEMMA StampThread ==
  ASSUME BenchTypeOK, BenchStart, FlagInv, FeedInv, StampInv, OutputSteps
  PROVE  StampInv'
<1>0. /\ N_files \in Int /\ saved \in Nat /\ saved % N_SPEC_BUFF = 0 /\ init_mcnt \in Int
      /\ N_SPEC_BUFF \in Nat \ {0} /\ N_SPEC_PER_FILE \in Int
  BY OutputConstants DEF BenchTypeOK, OutputTypeOK, Mcnts
<1>1. UNCHANGED <<start_file, init_mcnt>>
  BY DEF OutputSteps, OutputInternal, OutputWaitError, TakeBlock, NameDirectory,
     MakeDirectory, StampFiles, CheckType, FormatName, CreateFile, OpenFiles, WriteBeam,
     WriteCrash, CountBlock, RenameFile, FreeOutput, global_vars
<1>2. saved' = saved => Begun' = Begun /\ Before' = Before
  BY <1>1 DEF Begun, BlocksSaved, BlocksIn, Before
<1>3. CASE TakeBlock
  <2>1. out_sem[file_idx] = FILLED /\ out_pc = "wait"
    BY <1>3 DEF TakeBlock, OutMayTake, wait_filled
  <2>2. start_file
    BY <2>1, NextHeld DEF BenchStart
  <2>3. /\ UNCHANGED <<saved, filb_flag, file_mcnt, N_files>>
        /\ out_pc' = IF filb_flag = 1 THEN "name" ELSE "write"
    BY <1>3, <2>2 DEF TakeBlock
  <2> QED BY <1>1, <1>2, <2>1, <2>3 DEF StampInv, StampOf
<1>4. CASE NameDirectory \/ MakeDirectory
  BY <1>1, <1>2, <1>4 DEF NameDirectory, MakeDirectory, StampInv, StampOf
<1>5. CASE StampFiles
  <2>1. file_mcnt = Before
    BY <1>5 DEF StampFiles, StampInv, FlagInv, Naming
  <2> QED BY <1>1, <1>2, <1>5, <2>1 DEF StampFiles, StampInv, StampOf
<1>6. CASE CheckType \/ FormatName \/ CreateFile
  <2>1. out_pc \in {"type", "format", "header"} /\ out_pc' \in {"format", "header"}
    BY <1>6 DEF CheckType, FormatName, CreateFile
  <2>2. UNCHANGED <<saved, filb_flag, file_mcnt, N_files>>
    BY <1>6 DEF CheckType, FormatName, CreateFile
  <2> QED BY <1>1, <1>2, <2>1, <2>2 DEF StampInv, StampOf
<1>7. CASE OpenFiles
  <2>1. /\ N_files' - 1 = N_files /\ out_pc' = "write" /\ out_pc = "header"
        /\ UNCHANGED <<saved, filb_flag, file_mcnt>>
    BY <1>0, <1>7 DEF OpenFiles
  <2>2. file_mcnt' = StampOf(N_files)
    BY <2>1 DEF StampInv
  <2>3. StampOf(N_files) = StampOf(N_files - 1)'
    BY <1>1, <1>2, <2>1 DEF StampOf
  <2> QED BY <2>1, <2>2, <2>3 DEF StampInv
<1>8. CASE CountBlock
  <2>1. /\ out_pc = "write" /\ N_files' = N_files /\ saved' = saved + N_SPEC_BUFF
        /\ saved' \in Nat /\ saved' % N_SPEC_BUFF = 0
    <3>1. out_pc = "write" /\ N_files' = N_files /\ saved' = saved + N_SPEC_BUFF
      BY <1>8 DEF CountBlock
    <3>2. saved' % N_SPEC_BUFF = saved % N_SPEC_BUFF
      <4>1. saved \in Int
        BY <1>0
      <4> QED BY ONLY <1>0, <3>1, <4>1, ModAddModulus
    <3> QED BY <1>0, <3>1, <3>2
  <2>2. out_netmcnt[file_idx] = NextHeader
    BY <2>1, NextHeld DEF FeedInv, Holds
  <2>3. CASE FileFull(saved')
    <3>1. /\ out_pc' = "rename" /\ file_mcnt' = (NextHeader - N_SPEC_PER_FILE) % U64
      BY <1>8, <2>2, <2>3 DEF CountBlock, NextFileMcnt
    <3>2. Begun' = saved'
      <4>1. Begun' = saved' - BlocksIn(saved') * N_SPEC_BUFF
        BY DEF Begun, BlocksSaved, BlocksIn
      <4>2. saved' - BlocksIn(saved') * N_SPEC_BUFF = saved'
        BY <2>1, <2>3, BegunAll
      <4> QED BY <4>1, <4>2
    <3>3. Begun' # 0 /\ NextHeader - N_SPEC_PER_FILE = init_mcnt' + Begun' - 1 - N_SPEC_PER_FILE
      BY <1>0, <1>1, <2>1, <3>2 DEF NextHeader
    <3>4. file_mcnt' = Before'
      BY <3>1, <3>3 DEF Before
    <3> QED BY <3>1, <3>4 DEF StampInv
  <2>4. CASE ~FileFull(saved')
    <3>1. out_pc' = "free" /\ file_mcnt' = file_mcnt /\ filb_flag' # 1
      BY <1>8, <2>4 DEF CountBlock, FlagAfter, FileFull
    <3>2. Begun' = Begun
      <4>1. Begun' = saved' - BlocksIn(saved') * N_SPEC_BUFF
        BY DEF Begun, BlocksSaved, BlocksIn
      <4>2. BlocksIn(saved') = BlocksIn(saved) + 1 /\ BlocksIn(saved) \in Nat
        BY <1>0, <2>1, <2>4, BlocksStep
      <4>3. /\ (BlocksIn(saved) + 1) * N_SPEC_BUFF = BlocksIn(saved) * N_SPEC_BUFF + N_SPEC_BUFF
            /\ BlocksIn(saved) * N_SPEC_BUFF \in Int
        BY <4>2, NextSpan
      <4>4. Begun = saved - BlocksIn(saved) * N_SPEC_BUFF
        BY DEF Begun, BlocksSaved
      <4> QED BY <1>0, <2>1, <4>1, <4>2, <4>3, <4>4
    <3>3. Before' = Before
      BY <1>1, <3>2 DEF Before
    <3>4. file_mcnt = StampOf(N_files - 1)
      BY <2>1 DEF StampInv
    <3> QED BY <1>1, <2>1, <3>1, <3>3, <3>4 DEF StampInv, StampOf
  <2> QED BY <2>3, <2>4
<1>9. CASE WriteBeam \/ WriteCrash \/ RenameFile \/ FreeOutput \/ OutputWaitError
  <2>1. UNCHANGED <<saved, file_mcnt, N_files, filb_flag>>
    BY <1>9 DEF WriteBeam, WriteCrash, RenameFile, FreeOutput, OutputWaitError
  <2>2. \/ out_pc' = out_pc \/ out_pc' \in {"crashed", "exited"}
        \/ out_pc \in {"free", "rename"} /\ out_pc' = "wait"
    BY <1>9 DEF WriteBeam, WriteCrash, RenameFile, FreeOutput, OutputWaitError
  <2>3. (out_pc = "free" => filb_flag # 1) /\ (out_pc = "rename" => filb_flag = 1)
    BY DEF FlagInv
  <2> QED BY <1>1, <1>2, <2>1, <2>2, <2>3 DEF StampInv, StampOf
<1> QED BY <1>3, <1>4, <1>5, <1>6, <1>7, <1>8, <1>9 DEF OutputSteps, OutputInternal

LEMMA NothingBegun ==
  ASSUME saved = 0
  PROVE  Begun = 0
<1>1. 0 % N_SPEC_BUFF = 0 /\ FileFull(0)
  <2>1. /\ N_SPEC_BUFF \in Nat \ {0} /\ 0 \in 0 .. N_SPEC_BUFF - 1
        /\ N_SPEC_PER_FILE \in Nat \ {0} /\ 0 \in 0 .. N_SPEC_PER_FILE - 1
    BY OutputConstants
  <2>2. 0 % N_SPEC_BUFF = 0 /\ 0 % N_SPEC_PER_FILE = 0
    BY ONLY <2>1, ModId
  <2> QED BY <2>2 DEF FileFull
<1>2. 0 - BlocksIn(0) * N_SPEC_BUFF = 0
  BY <1>1, BegunAll
<1> QED BY <1>2 DEF Begun, BlocksSaved

LEMMA StampNext ==
  ASSUME BenchTypeOK, BenchStart, FlagInv, FeedInv, StampInv, BenchNext
  PROVE  StampInv'
<1>1. CASE OutputSteps
  BY <1>1, StampThread
<1>2. ASSUME NEW m \in FirstFed, NEW source_from \in SourceTypes, NEW group \in BeamGroups,
             FirstPacket(m, source_from, group)
      PROVE  StampInv'
  <2>1. out_pc \in {"wait", "exited"} /\ filb_flag = 1 /\ saved = 0
    BY <1>2 DEF FirstPacket, BenchStart
  <2>2. UNCHANGED <<saved, file_mcnt, N_files, filb_flag, out_pc>>
    BY <1>2 DEF FirstPacket, out_private
  <2>3. Begun = 0
    BY <2>1, NothingBegun
  <2>4. Begun' = Begun
    BY <2>2 DEF Begun, BlocksSaved, BlocksIn
  <2>5. Before = 0 /\ Before' = 0
    BY <2>3, <2>4 DEF Before
  <2> QED BY <2>1, <2>2, <2>5 DEF StampInv
<1>3. CASE LaterPacket \/ FeedBlock \/ Data_clean
  <2>1. UNCHANGED <<init_mcnt, saved, filb_flag, file_mcnt, N_files, out_pc>>
    BY <1>3, PacketLeaves DEF FeedBlock, Data_clean, out_private, global_vars
  <2> QED BY <2>1, StampFrame
<1>4. CASE Restart
  <2>1. out_pc' = "wait" /\ saved' = 0 /\ filb_flag' = 1 /\ file_mcnt' = 0
    BY <1>4 DEF Restart
  <2>2. Begun' = 0
    <3>1. \A t : t = 0 => t - BlocksIn(t) * N_SPEC_BUFF = 0
      <4>1. 0 % N_SPEC_BUFF = 0 /\ FileFull(0)
        <5>1. /\ N_SPEC_BUFF \in Nat \ {0} /\ 0 \in 0 .. N_SPEC_BUFF - 1
              /\ N_SPEC_PER_FILE \in Nat \ {0} /\ 0 \in 0 .. N_SPEC_PER_FILE - 1
          BY OutputConstants
        <5>2. 0 % N_SPEC_BUFF = 0 /\ 0 % N_SPEC_PER_FILE = 0
          BY ONLY <5>1, ModId
        <5> QED BY <5>2 DEF FileFull
      <4> QED BY <4>1, BegunAll
    <3>2. Begun' = saved' - BlocksIn(saved') * N_SPEC_BUFF
      BY DEF Begun, BlocksSaved, BlocksIn
    <3> QED BY <2>1, <3>1, <3>2
  <2>3. Before' = 0
    BY <2>2 DEF Before
  <2> QED BY <2>1, <2>3 DEF StampInv
<1> QED BY <1>1, <1>2, <1>3, <1>4 DEF BenchNext, LaterPacket

-----------------------------------------------------------------------------
(* The disk.                                                               *)

(* Each beam has a path of its own.                                        *)
LEMMA OwnPath ==
  ASSUME BenchStart, NEW i \in Beams, NEW j \in Beams, i # j,
         f_fil[i] # NoName, f_fil[j] # NoName
  PROVE  Working(f_fil[i]) # Working(f_fil[j])
<1>1. /\ f_fil[i].beam % N_BEAM_PER_PACK = i
      /\ f_fil[j].beam % N_BEAM_PER_PACK = j
  BY DEF BenchStart
<1>2. f_fil[i].beam # f_fil[j].beam
  BY <1>1
<1>3. Working(f_fil[i]).beam = f_fil[i].beam /\ Working(f_fil[j]).beam = f_fil[j].beam
  BY DEF Working, Path
<1> QED BY <1>2, <1>3

(* One more block in the files.                                            *)
LEMMA SavedStep ==
  ASSUME BenchTypeOK, CountBlock, UNCHANGED init_mcnt
  PROVE  /\ FileFull(saved') => BlocksSaved + 1 = BlocksPerFile
         /\ ~FileFull(saved') => BlocksSaved' = BlocksSaved + 1
         /\ NextHeader' = NextHeader + N_SPEC_BUFF
<1>1. saved \in Nat /\ saved % N_SPEC_BUFF = 0 /\ init_mcnt \in Int /\ N_SPEC_BUFF \in Int
  BY OutputConstants DEF BenchTypeOK, OutputTypeOK, Mcnts
<1>2. saved' = saved + N_SPEC_BUFF
  BY DEF CountBlock
<1>3. NextHeader' = NextHeader + N_SPEC_BUFF
  BY <1>1, <1>2 DEF NextHeader
<1>4. /\ FileFull(saved') => BlocksIn(saved) + 1 = BlocksPerFile
      /\ ~FileFull(saved') => BlocksIn(saved') = BlocksIn(saved) + 1
  BY ONLY <1>1, <1>2, BlocksStep
<1>5. BlocksSaved' = BlocksIn(saved')
  BY DEF BlocksSaved, BlocksIn
<1> QED BY <1>3, <1>4, <1>5 DEF BlocksSaved

(* Steps that leave the disk and the current names alone.                  *)
LEMMA ControlStep ==
  ASSUME BenchTypeOK, BenchStart, FlagInv, FeedInv, UNCHANGED <<f_fil, init_mcnt>>,
         \/ TakeBlock
         \/ WriteCrash
         \/ OutputWaitError
         \/ CountBlock
         \/ FreeOutput,
         NEW j \in Beams, NEW file, BeamIs(j, file)
  PROVE  BeamIs(j, file)'
<1>0. j \in Nat
  BY DEF Beams
<1>1. CASE TakeBlock
  <2>1. out_sem[file_idx] = FILLED /\ out_pc = "wait"
    BY <1>1 DEF TakeBlock, OutMayTake, wait_filled
  <2>2. start_file
    BY <2>1, NextHeld DEF BenchStart
  <2>3. /\ out_beam = 0 /\ UNCHANGED <<saved, filb_flag, out_beam, file_mcnt>>
        /\ out_pc' \in {"name", "write"} /\ (out_pc' = "write" => filb_flag # 1)
    BY <1>1, <2>2 DEF TakeBlock, FlagInv
  <2>4. filb_flag # 1 => Current(file, BlocksSaved, NextHeader)
    BY <2>1 DEF BeamIs
  <2>5. BlocksSaved' = BlocksSaved /\ NextHeader' = NextHeader
    BY <2>3 DEF BlocksSaved, BlocksIn, NextHeader
  <2>6. ~(j < out_beam')
    BY <1>0, <2>3
  <2>7. out_pc' = "write" => Current(file, BlocksSaved', NextHeader')
    BY <2>3, <2>4, <2>5
  <2> QED BY <2>3, <2>6, <2>7 DEF BeamIs, Current, Follows, Gap, Count
<1>2. CASE WriteCrash \/ OutputWaitError
  BY <1>2 DEF WriteCrash, OutputWaitError, BeamIs
<1>3. CASE CountBlock
  <2>1. out_pc = "write" /\ out_beam = N_BEAM_PER_PACK /\ out_pc' \in {"free", "rename"}
    BY <1>3 DEF CountBlock
  <2>2. j < out_beam
    BY <2>1, OutputConstants DEF Beams
  <2>3. Current(file, BlocksSaved + 1, NextHeader + N_SPEC_BUFF)
    BY <2>1, <2>2 DEF BeamIs
  <2>4. Count(file) = BlocksSaved + 1
    BY <2>3 DEF Current
  <2>5. out_pc' = IF FileFull(saved') THEN "rename" ELSE "free"
    BY <1>3 DEF CountBlock
  <2>6. out_pc' = "rename" => Count(file) = BlocksPerFile
    BY <1>3, <2>4, <2>5, SavedStep
  <2>7. out_pc' = "free" => Current(file, BlocksSaved', NextHeader') /\ file_mcnt' = file_mcnt
    BY <1>3, <2>3, <2>5, SavedStep DEF CountBlock
  <2> QED BY <2>1, <2>6, <2>7 DEF BeamIs, Current, Follows, Gap, Count,
      BlocksPerFile
<1>4. CASE FreeOutput
  <2>1. /\ out_pc' = "wait" /\ filb_flag' = filb_flag /\ saved' = saved /\ file_mcnt' = file_mcnt
        /\ out_pc = "free" \/ (out_pc = "rename" /\ filb_flag = 1)
    BY <1>4 DEF FreeOutput, FlagInv
  <2>2. filb_flag # 1 => Current(file, BlocksSaved, NextHeader)
    BY <2>1 DEF BeamIs
  <2>3. BlocksSaved' = BlocksSaved /\ NextHeader' = NextHeader
    BY <2>1 DEF BlocksSaved, BlocksIn, NextHeader
  <2>4. filb_flag' # 1 => Current(file, BlocksSaved', NextHeader')
    BY <2>1, <2>2, <2>3
  <2> QED BY <2>1, <2>4 DEF BeamIs, Current, Follows, Gap, Count
<1> QED BY <1>1, <1>2, <1>3, <1>4

(* Steps that neither change a file that stays nor make a new one.         *)
LEMMA DiskFrame ==
  ASSUME DiskInv, DOMAIN files' \subseteq DOMAIN files,
         \A p \in DOMAIN files' : files'[p] = files[p],
         f_fil' = f_fil \/ f_fil' = [j \in Beams |-> NoName],
         ASSUME NEW j \in Beams, NEW file, BeamIs(j, file), f_fil'[j] # NoName
         PROVE  BeamIs(j, file)'
  PROVE  DiskInv'
<1>1. \A p \in DOMAIN files' : Sound(files'[p])
  BY DEF DiskInv
<1>2. \A p \in FilPaths' : Count(files'[p]) = BlocksPerFile
  BY DEF DiskInv, FilPaths
<1>3. ASSUME NEW j \in Beams, f_fil'[j] # NoName, Working(f_fil'[j]) \in DOMAIN files'
      PROVE  BeamIs(j, files[Working(f_fil[j])])'
  <2> DEFINE p == Working(f_fil[j])
             file == files[p]
  <2>1. f_fil' = f_fil /\ f_fil[j] # NoName /\ p \in DOMAIN files
    BY <1>3
  <2>2. BeamIs(j, file)
    BY <2>1 DEF DiskInv, BeamInv
  <2>3. PICK old : old = file
    OBVIOUS
  <2>4. BeamIs(j, old)'
    BY <1>3, <2>2, <2>3
  <2>5. files'[Working(f_fil'[j])] = old
    BY <1>3, <2>1, <2>3
  <2> QED BY <2>4, <2>5 DEF Working, Path
<1>4. \A j \in Beams : BeamInv(j)'
  BY <1>3 DEF BeamInv, Working, Path, NoName
<1> QED BY <1>1, <1>2, <1>4 DEF DiskInv, Sound, Count, FilPaths, Gap, BlocksPerFile

LEMMA DiskControl ==
  ASSUME BenchTypeOK, BenchStart, FlagInv, FeedInv, DiskInv, OutputSteps,
         \/ TakeBlock
         \/ WriteCrash
         \/ OutputWaitError
         \/ CountBlock
         \/ FreeOutput
  PROVE  DiskInv'
<1>1. UNCHANGED <<f_fil, init_mcnt, files>>
  BY DEF TakeBlock, WriteCrash, OutputWaitError, CountBlock, FreeOutput, global_vars,
     fs_vars
<1>2. \A j \in Beams : \A file : BeamIs(j, file) => BeamIs(j, file)'
  BY <1>1, ControlStep
<1> QED BY <1>1, <1>2, DiskFrame

LEMMA DiskName ==
  ASSUME DiskInv, FlagInv,
         NameDirectory \/ MakeDirectory \/ StampFiles \/ CheckType \/ FormatName
  PROVE  DiskInv'
<1>1. /\ out_pc' \in Naming \cup {"header"} /\ files' = files
      /\ out_pc' = "header" => out_beam' = 0
  BY DEF NameDirectory, MakeDirectory, StampFiles, CheckType, FormatName, fs_vars,
     FlagInv, Naming
<1>2. \A j \in Beams : \A file : BeamIs(j, file)'
  <2>1. \A j \in Beams : ~(j < 0)
    BY DEF Beams
  <2> QED BY <1>1, <2>1 DEF BeamIs, Naming
<1>3. \A j \in Beams : BeamInv(j)'
  BY <1>2 DEF BeamInv
<1> QED BY <1>1, <1>3 DEF DiskInv, Sound, Count, FilPaths, Gap, BlocksPerFile

(* The header of the block a step works on.                                *)
LEMMA BlockInHand ==
  ASSUME BenchTypeOK, FeedInv, out_pc \in {"header", "write"}
  PROVE  /\ out_netmcnt[file_idx] = NextHeader
         /\ NextHeader \in Mcnts /\ NextHeader \in Int
BY NextHeld DEF FeedInv, Holds, Mcnts

LEMMA DiskCreate ==
  ASSUME BenchTypeOK, BenchStart, FlagInv, FeedInv, DiskInv, StampInv, OutputSteps, CreateFile
  PROVE  DiskInv'
<1>1. /\ out_pc = "header" /\ out_pc' = "header" /\ out_beam' = out_beam + 1
      /\ UNCHANGED <<f_fil, init_mcnt, saved, dirs, file_mcnt>> /\ out_beam \in Beams
  BY OutputConstants DEF CreateFile, global_vars, Beams, BenchTypeOK, OutputTypeOK
<1>2. PICK file \in {EmptyFile, HeaderOnly(file_mcnt)} :
        files' = IF f_fil[out_beam] = NoName THEN files
                 ELSE WriteHeader(Working(f_fil[out_beam]), file)
  BY DEF CreateFile
<1> DEFINE P == Working(f_fil[out_beam])
<1>3. Sound(file) /\ Current(file, 0, NextHeader)
  <2>1. file_mcnt \in Nat /\ NextHeader \in Int
    BY <1>1, BlockInHand DEF BenchTypeOK, OutputTypeOK
  <2> QED BY <2>1, FreshFile
<1>4. /\ P \in DOMAIN files' /\ f_fil[out_beam] # NoName => files'[P] = file
      /\ \A p \in DOMAIN files' : p # P => p \in DOMAIN files /\ files'[p] = files[p]
      /\ \A p \in DOMAIN files' : files'[p] \in {file} \/ (p \in DOMAIN files /\ files'[p] = files[p])
      /\ \A p \in DOMAIN files' : p.ext = "fil" => p \in DOMAIN files /\ files'[p] = files[p]
  <2>1. P.ext = "fil.working"
    BY WorkingPath
  <2>2. CASE f_fil[out_beam] = NoName
    BY <1>2, <2>2
  <2>3. CASE f_fil[out_beam] # NoName /\ P.dir \in dirs
    BY <1>2, <2>1, <2>3 DEF WriteHeader, Put
  <2>4. CASE f_fil[out_beam] # NoName /\ P.dir \notin dirs
    <3>1. P \notin DOMAIN files
      BY <2>4 DEF BenchTypeOK, OutputTypeOK
    <3> QED BY <1>2, <2>4, <3>1 DEF WriteHeader
  <2> QED BY <2>2, <2>3, <2>4
<1>5. NextHeader' = NextHeader
  BY <1>1 DEF NextHeader
<1>6. ASSUME NEW j \in Beams, f_fil[j] # NoName, Working(f_fil[j]) \in DOMAIN files', j < out_beam + 1
      PROVE  Current(files'[Working(f_fil[j])], 0, NextHeader)
  <2>1. CASE j = out_beam
    BY <1>3, <1>4, <1>6, <2>1
  <2>2. CASE j # out_beam
    <3>1. j < out_beam
      BY <1>1, <1>6, <2>2 DEF Beams
    <3>2. CASE f_fil[out_beam] # NoName
      <4>1. Working(f_fil[j]) # P
        BY <1>1, <1>6, <2>2, <3>2, OwnPath
      <4>2. Current(files[Working(f_fil[j])], 0, NextHeader)
        BY <1>1, <1>4, <1>6, <3>1, <4>1 DEF DiskInv, BeamInv, BeamIs
      <4> QED BY <1>4, <1>6, <4>1, <4>2
    <3>3. CASE f_fil[out_beam] = NoName
      <4>1. files' = files
        BY <1>2, <3>3
      <4> QED BY <1>1, <1>6, <3>1, <4>1 DEF DiskInv, BeamInv, BeamIs
    <3> QED BY <3>2, <3>3
  <2> QED BY <2>1, <2>2
<1>7. \A j \in Beams : BeamInv(j)'
  <2> SUFFICES ASSUME NEW j \in Beams, f_fil[j] # NoName, Working(f_fil[j]) \in DOMAIN files'
               PROVE  BeamIs(j, files[Working(f_fil[j])])'
    BY <1>1 DEF BeamInv, Working, Path, NoName
  <2>1. j < out_beam' => Current(files'[Working(f_fil'[j])], 0, NextHeader')
    BY <1>1, <1>5, <1>6
  <2> QED BY <1>1, <2>1 DEF BeamIs, Current, Follows, Gap, Count,
      Working, Path
<1>8. \A p \in DOMAIN files' : Sound(files'[p])
  BY <1>3, <1>4 DEF DiskInv
<1>9. \A p \in FilPaths' : Count(files'[p]) = BlocksPerFile
  BY <1>4 DEF DiskInv, FilPaths
<1> QED BY <1>7, <1>8, <1>9 DEF DiskInv, Sound, Count, FilPaths, Gap, BlocksPerFile

LEMMA DiskOpen ==
  ASSUME BenchTypeOK, BenchStart, FlagInv, FeedInv, DiskInv, StampInv, OutputSteps, OpenFiles
  PROVE  DiskInv'
<1> DEFINE paths == {Working(f_fil[j]) : j \in {i \in Beams : f_fil[i] # NoName}}
<1>1. /\ out_pc = "header" /\ out_pc' = "write" /\ out_beam' = 0 /\ out_beam = N_BEAM_PER_PACK
      /\ UNCHANGED <<f_fil, init_mcnt, saved, file_mcnt>>
  BY DEF OpenFiles, global_vars
<1>2. files' = OpenToAppend(paths)
  BY DEF OpenFiles
<1> HIDE DEF paths
<1>3. Sound(EmptyFile) /\ Current(EmptyFile, 0, NextHeader)
  <2>1. file_mcnt \in Nat /\ NextHeader \in Int
    BY <1>1, BlockInHand DEF BenchTypeOK, OutputTypeOK
  <2> QED BY <2>1, FreshFile
<1>4. \A p \in DOMAIN files' :
         \/ p \in DOMAIN files /\ files'[p] = files[p]
         \/ p \in paths /\ p \notin DOMAIN files /\ files'[p] = EmptyFile
  BY <1>2 DEF OpenToAppend
<1>5. \A p \in paths : p.ext = "fil.working"
  BY WorkingPath DEF paths
<1>6. NextHeader' = NextHeader /\ BlocksSaved' = 0
  <2>1. FileFull(saved) /\ saved \in Nat /\ saved % N_SPEC_BUFF = 0
    BY <1>1 DEF FlagInv, BenchTypeOK, OutputTypeOK
  <2>2. \E t : t = saved + N_SPEC_BUFF
    OBVIOUS
  <2>3. BlocksIn(saved) = 0
    BY ONLY <2>1, <2>2, BlocksStep
  <2> QED BY <1>1, <2>3 DEF NextHeader, BlocksSaved, BlocksIn
<1>7. ASSUME NEW j \in Beams, f_fil[j] # NoName, Working(f_fil[j]) \in DOMAIN files'
      PROVE  Current(files'[Working(f_fil[j])], 0, NextHeader)
  <2> DEFINE p == Working(f_fil[j])
  <2>1. CASE p \in DOMAIN files /\ files'[p] = files[p]
    <3>1. j < out_beam
      BY <1>1, OutputConstants DEF Beams
    <3> QED BY <1>1, <1>7, <2>1, <3>1 DEF DiskInv, BeamInv, BeamIs
  <2>2. CASE files'[p] = EmptyFile
    BY <1>3, <2>2
  <2> QED BY <1>4, <1>7, <2>1, <2>2
<1>8. \A j \in Beams : BeamInv(j)'
  <2> SUFFICES ASSUME NEW j \in Beams, f_fil[j] # NoName, Working(f_fil[j]) \in DOMAIN files'
               PROVE  BeamIs(j, files[Working(f_fil[j])])'
    BY <1>1 DEF BeamInv, Working, Path, NoName
  <2>1. Current(files'[Working(f_fil'[j])], BlocksSaved', NextHeader')
    BY <1>1, <1>6, <1>7
  <2>2. ~(j < out_beam')
    BY <1>1 DEF Beams
  <2> QED BY <1>1, <2>1, <2>2 DEF BeamIs, Current, Follows, Gap, Count,
      Working, Path
<1>9. \A p \in DOMAIN files' : Sound(files'[p])
  BY <1>3, <1>4 DEF DiskInv
<1>10. \A p \in FilPaths' : Count(files'[p]) = BlocksPerFile
  BY <1>4, <1>5 DEF DiskInv, FilPaths
<1> QED BY <1>8, <1>9, <1>10 DEF DiskInv, Sound, Count, FilPaths, Gap, BlocksPerFile

LEMMA DiskWrite ==
  ASSUME BenchTypeOK, BenchStart, FlagInv, FeedInv, DiskInv, OutputSteps, WriteBeam
  PROVE  DiskInv'
<1> DEFINE P == Working(f_fil[out_beam])
           mcnt == out_netmcnt[file_idx]
<1>1. /\ out_pc = "write" /\ out_pc' = "write" /\ out_beam' = out_beam + 1
      /\ UNCHANGED <<f_fil, init_mcnt, saved, file_mcnt>> /\ out_beam \in Beams
  BY OutputConstants DEF WriteBeam, global_vars, Beams, BenchTypeOK, OutputTypeOK
<1>2. NextHeader' = NextHeader /\ BlocksSaved' = BlocksSaved
  BY <1>1 DEF NextHeader, BlocksSaved, BlocksIn
<1>3. /\ DOMAIN files' = DOMAIN files
      /\ \A p \in DOMAIN files : p # P \/ f_fil[out_beam] = NoName => files'[p] = files[p]
  BY DEF WriteBeam, AppendBlock, AppendFails
<1>4. P \in DOMAIN files /\ f_fil[out_beam] # NoName =>
        files'[P] \in {WithBlock(files[P], mcnt), WithFailure(files[P])}
  BY DEF WriteBeam, AppendBlock, AppendFails
<1>5. ASSUME P \in DOMAIN files, f_fil[out_beam] # NoName
      PROVE  /\ Sound(files'[P])
             /\ Current(files'[P], BlocksSaved + 1, NextHeader + N_SPEC_BUFF)
  <2>1. Current(files[P], BlocksSaved, NextHeader) /\ Sound(files[P])
    <3>1. out_beam >= out_beam
      BY <1>1 DEF Beams
    <3> QED BY <1>1, <1>5, <3>1 DEF DiskInv, BeamInv, BeamIs
  <2>2. BlocksSaved \in Nat
    <3>1. saved \in Nat /\ saved % N_SPEC_BUFF = 0 /\ \E t : t = saved + N_SPEC_BUFF
      BY DEF BenchTypeOK, OutputTypeOK
    <3> QED BY ONLY <3>1, BlocksStep DEF BlocksSaved
  <2>3. mcnt = NextHeader /\ NextHeader \in Mcnts
    BY <1>1, BlockInHand
  <2>4. CASE files'[P] = WithBlock(files[P], mcnt)
    BY <2>1, <2>2, <2>3, <2>4, WriteGood
  <2>5. CASE files'[P] = WithFailure(files[P])
    BY <2>1, <2>2, <2>3, <2>5, FailGood
  <2> QED BY <1>4, <1>5, <2>4, <2>5
<1>6. ASSUME NEW j \in Beams, f_fil[j] # NoName, Working(f_fil[j]) \in DOMAIN files'
      PROVE  /\ j < out_beam + 1 =>
                  Current(files'[Working(f_fil[j])], BlocksSaved + 1, NextHeader + N_SPEC_BUFF)
             /\ j >= out_beam + 1 => Current(files'[Working(f_fil[j])], BlocksSaved, NextHeader)
  <2>1. CASE j = out_beam
    <3>1. ~(j >= out_beam + 1)
      BY <1>1, <2>1 DEF Beams
    <3> QED BY <1>3, <1>5, <1>6, <2>1, <3>1
  <2>2. CASE j # out_beam
    <3>1. (j < out_beam + 1 => j < out_beam) /\ (j >= out_beam + 1 => j >= out_beam)
      BY <1>1, <2>2 DEF Beams
    <3>2. files'[Working(f_fil[j])] = files[Working(f_fil[j])]
      <4>1. f_fil[out_beam] # NoName => Working(f_fil[j]) # P
        BY <1>1, <1>6, <2>2, OwnPath
      <4> QED BY <1>3, <1>6, <4>1
    <3>3. BeamIs(j, files[Working(f_fil[j])])
      BY <1>3, <1>6 DEF DiskInv, BeamInv
    <3> QED BY <1>1, <3>1, <3>2, <3>3 DEF BeamIs
  <2> QED BY <2>1, <2>2
<1>7. \A j \in Beams : BeamInv(j)'
  <2> SUFFICES ASSUME NEW j \in Beams, f_fil[j] # NoName, Working(f_fil[j]) \in DOMAIN files'
               PROVE  BeamIs(j, files[Working(f_fil[j])])'
    BY <1>1 DEF BeamInv, Working, Path, NoName
  <2> DEFINE file == files'[Working(f_fil'[j])]
  <2>1. /\ j < out_beam' => Current(file, BlocksSaved' + 1, NextHeader' + N_SPEC_BUFF)
        /\ j >= out_beam' => Current(file, BlocksSaved', NextHeader')
    BY <1>1, <1>2, <1>6
  <2> QED BY <1>1, <2>1 DEF BeamIs, Current, Follows, Gap, Count,
      Working, Path
<1>8. \A p \in DOMAIN files' : Sound(files'[p])
  BY <1>3, <1>5 DEF DiskInv
<1>9. \A p \in FilPaths' : Count(files'[p]) = BlocksPerFile
  <2>1. P.ext # "fil"
    BY WorkingPath
  <2> QED BY <1>3, <2>1 DEF DiskInv, FilPaths
<1> QED BY <1>7, <1>8, <1>9 DEF DiskInv, Sound, Count, FilPaths, Gap, BlocksPerFile

LEMMA DiskRename ==
  ASSUME BenchTypeOK, BenchStart, DiskInv, OutputSteps, RenameFile
  PROVE  DiskInv'
<1> DEFINE P == Working(f_fil[out_beam])
           Q == Filname(f_fil[out_beam])
<1>1. /\ out_pc = "rename" /\ out_pc' = "rename" /\ out_beam' = out_beam + 1
      /\ UNCHANGED f_fil /\ out_beam \in Beams
  BY OutputConstants DEF RenameFile, Beams, BenchTypeOK, OutputTypeOK
<1>2. files' = IF f_fil[out_beam] = NoName THEN files ELSE Rename(P, Q)
  BY DEF RenameFile
<1>3. P.ext = "fil.working" /\ Q.ext = "fil"
  BY WorkingPath
<1>4. \A p \in DOMAIN files' :
         \/ p \in DOMAIN files /\ files'[p] = files[p]
         \/ p = Q /\ f_fil[out_beam] # NoName /\ P \in DOMAIN files /\ files'[p] = files[P]
  BY <1>2 DEF Rename, Put, Remove
<1>5. f_fil[out_beam] # NoName /\ P \in DOMAIN files => Count(files[P]) = BlocksPerFile
  <2>1. out_beam >= out_beam
    BY <1>1 DEF Beams
  <2> QED BY <1>1, <2>1 DEF DiskInv, BeamInv, BeamIs
<1>6. \A j \in Beams : BeamInv(j)'
  <2> SUFFICES ASSUME NEW j \in Beams, f_fil[j] # NoName, Working(f_fil[j]) \in DOMAIN files',
                      j >= out_beam + 1
               PROVE  Count(files'[Working(f_fil[j])]) = BlocksPerFile
    BY <1>1 DEF BeamInv, BeamIs, Working, Path, NoName, Count, BlocksPerFile
  <2>1. j >= out_beam
    BY <1>1 DEF Beams
  <2>2. Working(f_fil[j]) # Q
    BY <1>3, WorkingPath
  <2>3. Working(f_fil[j]) \in DOMAIN files /\ files'[Working(f_fil[j])] = files[Working(f_fil[j])]
    BY <1>4, <2>2
  <2> QED BY <1>1, <2>1, <2>3 DEF DiskInv, BeamInv, BeamIs
<1>7. \A p \in DOMAIN files' : Sound(files'[p])
  BY <1>4 DEF DiskInv
<1>8. \A p \in FilPaths' : Count(files'[p]) = BlocksPerFile
  BY <1>4, <1>5 DEF DiskInv, FilPaths
<1> QED BY <1>6, <1>7, <1>8 DEF DiskInv, Sound, Count, FilPaths, Gap, BlocksPerFile

LEMMA DiskNext ==
  ASSUME BenchTypeOK, BenchStart, FlagInv, FeedInv, DiskInv, StampInv, BenchNext
  PROVE  DiskInv'
<1>1. CASE OutputSteps
  <2>1. CASE TakeBlock \/ WriteCrash \/ OutputWaitError \/ CountBlock \/ FreeOutput
    BY <1>1, <2>1, DiskControl
  <2>2. CASE NameDirectory \/ MakeDirectory \/ StampFiles \/ CheckType \/ FormatName
    BY <2>2, DiskName
  <2>3. CASE CreateFile
    BY <1>1, <2>3, DiskCreate
  <2>4. CASE OpenFiles
    BY <1>1, <2>4, DiskOpen
  <2>5. CASE WriteBeam
    BY <1>1, <2>5, DiskWrite
  <2>6. CASE RenameFile
    BY <1>1, <2>6, DiskRename
  <2> QED BY <1>1, <2>1, <2>2, <2>3, <2>4, <2>5, <2>6 DEF OutputSteps, OutputInternal
<1>2. ASSUME NEW m \in FirstFed, NEW source_from \in SourceTypes, NEW group \in BeamGroups,
             FirstPacket(m, source_from, group)
      PROVE  DiskInv'
  <2>1. UNCHANGED <<f_fil, files, out_pc, filb_flag>>
    BY <1>2 DEF FirstPacket, out_private, fs_vars
  <2>2. out_pc \in {"wait", "exited"} /\ filb_flag = 1
    BY <1>2 DEF FirstPacket, BenchStart
  <2>3. \A j \in Beams : \A file : BeamIs(j, file)'
    BY <2>1, <2>2 DEF BeamIs
  <2> QED BY <2>1, <2>3, DiskFrame
<1>3. CASE FeedBlock \/ Data_clean \/ LaterPacket
  <2>1. UNCHANGED <<f_fil, out_pc, out_beam, init_mcnt, saved, filb_flag, file_mcnt>>
    BY <1>3, PacketLeaves DEF FeedBlock, Data_clean, out_private, global_vars
  <2>2. /\ DOMAIN files' \subseteq DOMAIN files
        /\ \A p \in DOMAIN files' : files'[p] = files[p]
    BY <1>3, PacketLeaves DEF FeedBlock, Data_clean, fs_vars, Remove
  <2>3. \A j \in Beams : \A file : BeamIs(j, file) => BeamIs(j, file)'
    <3>1. NextHeader' = NextHeader /\ BlocksSaved' = BlocksSaved
      BY <2>1 DEF NextHeader, BlocksSaved, BlocksIn
    <3> QED BY <2>1, <3>1 DEF BeamIs, Current, Follows, Gap, Count,
        BlocksPerFile
  <2> QED BY <2>1, <2>2, <2>3, DiskFrame
<1>4. CASE Restart
  <2>1. f_fil' = [j \in Beams |-> NoName] /\ files' = files
    BY <1>4 DEF Restart, fs_vars
  <2> QED BY <2>1, DiskFrame
<1> QED BY <1>1, <1>2, <1>3, <1>4 DEF BenchNext, LaterPacket

-----------------------------------------------------------------------------
(* The theorems.                                                           *)

BenchInv == BenchTypeOK /\ BenchStart /\ FlagInv /\ FeedInv /\ DiskInv /\ StampInv

LEMMA BenchInitInv == BenchInit => BenchInv
<1> SUFFICES ASSUME BenchInit PROVE BenchInv
  OBVIOUS
<1>1. /\ out_sem = [b \in OutBlocks |-> FREE] /\ out_netmcnt = [b \in OutBlocks |-> 0]
      /\ start_file = FALSE /\ init_mcnt = 0 /\ fed = 0 /\ beam_ID = [j \in Beams |-> 0]
  BY DEF BenchInit, TL_output_databuf_create, GlobalsInit
<1>2. /\ out_pc = "wait" /\ file_idx = 0 /\ saved = 0 /\ filb_flag = 1 /\ N_files \in NFilesInit
      /\ f_fil = [j \in Beams |-> NoName] /\ out_beam = 0 /\ files = <<>> /\ file_mcnt = 0
  BY DEF BenchInit, OutputInit
<1>3. 0 % N_SPEC_PER_FILE = 0 /\ 0 % N_OUTPUT_BLOCKS = 0 /\ 0 * N_SPEC_BUFF = 0
  <2>1. /\ 0 \in 0 .. N_SPEC_PER_FILE - 1 /\ 0 \in 0 .. N_OUTPUT_BLOCKS - 1
        /\ N_SPEC_PER_FILE \in Nat \ {0} /\ N_OUTPUT_BLOCKS \in Nat \ {0} /\ N_SPEC_BUFF \in Int
    BY OutputConstants
  <2> QED BY ONLY <2>1, ModId
<1>4. BenchTypeOK
  <2>1. OutputTypeOK
    BY OutputTypeInit DEF BenchInit
  <2>2. 0 \in Mcnts
    BY OutputConstants DEF Mcnts
  <2> QED BY <1>1, <2>1, <2>2 DEF BenchTypeOK
<1>5. BenchStart
  BY <1>1, <1>2 DEF BenchStart
<1>6. FlagInv
  BY <1>2, <1>3 DEF FlagInv, FileFull, Naming
<1>7. FeedInv
  <2>1. 0 .. 0 - 1 = {} /\ 0 \in 0 .. 0 /\ 0 <= 0 + N_OUTPUT_BLOCKS
    BY OutputConstants
  <2>2. \A b \in OutBlocks : out_sem[b] # FILLED
    BY <1>1
  <2>3. Taken = 0
    BY <1>2 DEF Taken
  <2>4. FeedRing(0)
    BY <1>1, <1>2, <1>3, <2>1, <2>2, <2>3 DEF FeedRing
  <2> QED BY <1>1, <1>2, <2>1, <2>4 DEF FeedInv, Holds, Naming
<1>8. DiskInv
  <2>1. DOMAIN files = {}
    BY <1>2
  <2> QED BY <1>2, <2>1 DEF DiskInv, FilPaths, BeamInv
<1>9. StampInv
  <2>1. Before = 0
    BY <1>2, NothingBegun DEF Before
  <2> QED BY <1>2, <2>1 DEF StampInv
<1> QED BY <1>4, <1>5, <1>6, <1>7, <1>8, <1>9 DEF BenchInv

LEMMA BenchNextInv == BenchInv /\ [BenchNext]_bench_vars => BenchInv'
<1> SUFFICES ASSUME BenchInv, [BenchNext]_bench_vars PROVE BenchInv'
  OBVIOUS
<1>1. CASE BenchNext
  BY <1>1, BenchTypeNext, BenchStartNext, FlagNext, FeedNext, StampNext, DiskNext DEF
     BenchInv
<1>2. CASE UNCHANGED bench_vars
  <2>1. UNCHANGED <<out_sem, out_netmcnt, start_file, init_mcnt, beam_ID, out_private, fs_vars, fed>>
    BY <1>2 DEF bench_vars, out_vars, output_vars, global_vars
  <2>2. BenchTypeOK'
    BY <2>1 DEF BenchInv, BenchTypeOK, OutputTypeOK, out_private, fs_vars
  <2>3. BenchStart'
    BY <2>1 DEF BenchInv, BenchStart, out_private
  <2>4. FlagInv'
    BY <2>1 DEF BenchInv, FlagInv, FileFull, out_private
  <2>5. FeedInv'
    BY <2>1, RingFrame DEF BenchInv, Taken, Holds, out_private
  <2>6. StampInv'
    BY <2>1, StampFrame DEF BenchInv, out_private
  <2>7. DiskInv'
    <3>1. \A j \in Beams : \A file : BeamIs(j, file) => BeamIs(j, file)'
      <4>1. NextHeader' = NextHeader /\ BlocksSaved' = BlocksSaved
        BY <2>1 DEF NextHeader, BlocksSaved, BlocksIn, out_private
      <4> QED BY <2>1, <4>1 DEF BeamIs, Current, Follows, Gap, Count,
          BlocksPerFile, out_private
    <3> QED BY <2>1, <3>1, DiskFrame DEF BenchInv, fs_vars, out_private
  <2> QED BY <2>2, <2>3, <2>4, <2>5, <2>6, <2>7 DEF BenchInv
<1> QED BY <1>1, <1>2

LEMMA BenchInvariant == BenchSpec => []BenchInv
BY BenchInitInv, BenchNextInv, PTL DEF BenchSpec

(* A file under its final name has seen the writing of a whole file's      *)
(* worth of blocks, whatever was killed, left over or removed: the rename  *)
(* at TL_output_thread.c:262-265 comes after as many writes to each stream *)
(* since it was opened.                                                    *)
THEOREM RenamedFilesComplete == BenchSpec => []FilComplete
<1>1. BenchInv => FilComplete
  BY DEF BenchInv, DiskInv, FilComplete, FilPaths, Count
<1> QED BY <1>1, BenchInvariant, PTL

(* No file mixes runs or files, repeats a block or leaves one out that     *)
(* could be written.                                                       *)
THEOREM FilesInOnePiece == BenchSpec => []FilesContiguous
<1>1. BenchInv => FilesContiguous
  <2> SUFFICES ASSUME BenchInv, NEW p \in DOMAIN files, files[p].blocks # <<>>
               PROVE  /\ \A i \in 1 .. Len(files[p].blocks) - 1 :
                           files[p].blocks[i + 1] \in {files[p].blocks[i] + k * N_SPEC_BUFF :
                                                        k \in 1 .. files[p].failed + 1}
                      /\ files[p].blocks[Len(files[p].blocks)] - files[p].blocks[1]
                           <= (Len(files[p].blocks) + files[p].failed - 1) * N_SPEC_BUFF
    BY DEF FilesContiguous
  <2>1. Sound(files[p])
    BY DEF BenchInv, DiskInv
  <2> QED BY <2>1 DEF Sound, Gap
<1> QED BY <1>1, BenchInvariant, PTL

(* The time the current file of a beam claims to start at, whatever the    *)
(* counter of files, which nobody initialises (TL_output_thread.c:117),    *)
(* starts from, whatever is removed and whichever writes fail: that of its *)
(* first spectrum for the first file of a run if the counter started at 0, *)
(* counter 0 if not, and for every later file the counter before the start *)
(* of the file that precedes it, or init_mcnt again for the file that      *)
(* brings the counter of files from 0 to 1.                                *)
THEOREM StampsLag == BenchSpec => []StampLag
<1>1. BenchInv => StampLag
  <2> DEFINE file(j)  == files[Working(f_fil[j])]
             first(j) == file(j).blocks[1] - (N_SPEC_BUFF - 1)
  <2> SUFFICES ASSUME BenchInv, out_pc = "write", NEW j \in Beams, f_fil[j] # NoName,
                      Working(f_fil[j]) \in DOMAIN files,
                      file(j).header, file(j).blocks # <<>>, file(j).failed = 0
               PROVE  IF saved < N_SPEC_PER_FILE
                      THEN /\ first(j) = init_mcnt
                           /\ file(j).tstart = IF N_files = 1 THEN first(j) ELSE 0
                      ELSE file(j).tstart = IF N_files = 1 THEN init_mcnt
                                            ELSE (first(j) - 1 - N_SPEC_PER_FILE) % U64
    BY DEF StampLag
  <2>1. /\ N_files \in Int /\ saved \in Nat /\ saved % N_SPEC_BUFF = 0 /\ init_mcnt \in Int
        /\ N_SPEC_BUFF \in Nat \ {0} /\ N_SPEC_PER_FILE \in Nat \ {0} /\ out_beam \in Int /\ j \in Int
    BY OutputConstants DEF BenchInv, BenchTypeOK, OutputTypeOK, Mcnts, Beams
  <2>2. BlocksSaved \in Nat /\ BlocksSaved * N_SPEC_BUFF = saved % N_SPEC_PER_FILE
    <3>1. \E t : t = saved + N_SPEC_BUFF
      OBVIOUS
    <3> QED BY <2>1, <3>1, BlocksStep DEF BlocksSaved
  <2>3. BeamIs(j, file(j)) /\ Sound(file(j))
    BY DEF BenchInv, DiskInv, BeamInv
  <2> DEFINE blocks == file(j).blocks
  <2>4. blocks[1] \in Int /\ Len(blocks) \in Nat
    <3>1. blocks \in Seq(Mcnts)
      BY <2>3 DEF Sound, FileSet
    <3>2. blocks[1] \in Mcnts
      BY <3>1
    <3> QED BY <3>1, <3>2, OutputConstants DEF Mcnts
  <2>5. file(j).tstart = file_mcnt /\ first(j) = init_mcnt + Begun
    <3>1. CASE j < out_beam
      <4>1. Current(file(j), BlocksSaved + 1, NextHeader + N_SPEC_BUFF)
        BY <2>3, <3>1 DEF BeamIs
      <4>2. /\ Len(blocks) + 0 = BlocksSaved + 1
            /\ (NextHeader + N_SPEC_BUFF) - blocks[1] = Len(blocks) * N_SPEC_BUFF
            /\ file(j).tstart = file_mcnt
        BY <4>1 DEF Current, Follows, Count
      <4>3. /\ Len(blocks) * N_SPEC_BUFF = BlocksSaved * N_SPEC_BUFF + N_SPEC_BUFF
            /\ BlocksSaved * N_SPEC_BUFF \in Int
        <5>1. Len(blocks) = BlocksSaved + 1
          BY <2>4, <4>2
        <5>2. BlocksSaved \in Int
          BY <2>2
        <5> QED BY <5>1, <5>2, NextSpan
      <4> HIDE DEF blocks
      <4>4. blocks[1] - (N_SPEC_BUFF - 1) = init_mcnt + Begun
        <5> DEFINE product == BlocksSaved * N_SPEC_BUFF
        <5>1. /\ (NextHeader + N_SPEC_BUFF) - blocks[1] = product + N_SPEC_BUFF
              /\ product \in Int /\ Begun = saved - product
          BY <4>2, <4>3 DEF Begun
        <5> HIDE DEF product
        <5> QED BY <2>1, <2>4, <5>1 DEF NextHeader
      <4> QED BY <4>2, <4>4 DEF blocks
    <3>2. CASE ~(j < out_beam)
      <4>1. Current(file(j), BlocksSaved, NextHeader)
        BY <2>1, <2>3, <3>2 DEF BeamIs
      <4>2. /\ Len(blocks) + 0 = BlocksSaved
            /\ NextHeader - blocks[1] = Len(blocks) * N_SPEC_BUFF
            /\ file(j).tstart = file_mcnt
        BY <4>1 DEF Current, Follows, Count
      <4>3. /\ Len(blocks) * N_SPEC_BUFF = BlocksSaved * N_SPEC_BUFF
            /\ BlocksSaved * N_SPEC_BUFF \in Int
        <5>1. Len(blocks) = BlocksSaved
          BY <2>4, <4>2
        <5> QED BY <2>1, <2>2, <5>1
      <4> HIDE DEF blocks
      <4>4. blocks[1] - (N_SPEC_BUFF - 1) = init_mcnt + Begun
        <5> DEFINE product == BlocksSaved * N_SPEC_BUFF
        <5>1. NextHeader - blocks[1] = product /\ product \in Int /\ Begun = saved - product
          BY <4>2, <4>3 DEF Begun
        <5> HIDE DEF product
        <5> QED BY <2>1, <2>4, <5>1 DEF NextHeader
      <4> QED BY <4>2, <4>4 DEF blocks
    <3> QED BY <3>1, <3>2
  <2>6. saved % N_SPEC_PER_FILE \in 0 .. N_SPEC_PER_FILE - 1 /\ Begun = saved - (saved % N_SPEC_PER_FILE)
    <3>1. saved % N_SPEC_PER_FILE \in 0 .. N_SPEC_PER_FILE - 1
      BY ONLY <2>1, ModRange
    <3>2. Begun = saved - (saved % N_SPEC_PER_FILE)
      BY <2>2 DEF Begun
    <3> QED BY <3>1, <3>2
  <2>7. file_mcnt = StampOf(N_files - 1)
    BY DEF BenchInv, StampInv
  <2>8. CASE saved < N_SPEC_PER_FILE
    <3>1. saved % N_SPEC_PER_FILE = saved
      <4>1. saved \in 0 .. N_SPEC_PER_FILE - 1
        BY <2>1, <2>8
      <4> QED BY ONLY <2>1, <4>1, ModId
    <3>2. Begun = 0
      BY <2>1, <2>6, <3>1
    <3>3. first(j) = init_mcnt /\ Before = 0
      BY <2>1, <2>5, <3>2 DEF Before
    <3>4. file(j).tstart = IF N_files = 1 THEN init_mcnt ELSE 0
      BY <2>1, <2>5, <2>7, <3>3 DEF StampOf
    <3> QED BY <2>8, <3>3, <3>4
  <2>9. CASE ~(saved < N_SPEC_PER_FILE)
    <3>1. Begun # 0
      <4> DEFINE rest == saved % N_SPEC_PER_FILE
      <4>1. rest \in 0 .. N_SPEC_PER_FILE - 1 /\ Begun = saved - rest
        BY <2>6
      <4> HIDE DEF rest
      <4> QED BY <2>1, <2>9, <4>1
    <3>2. Before = (init_mcnt + Begun - 1 - N_SPEC_PER_FILE) % U64
      BY <3>1 DEF Before
    <3>3. Before = (first(j) - 1 - N_SPEC_PER_FILE) % U64
      <4> DEFINE f == first(j)
      <4>1. f = init_mcnt + Begun /\ f \in Int /\ Begun \in Int
        BY <2>1, <2>4, <2>5, <2>6
      <4> HIDE DEF f
      <4>2. init_mcnt + Begun - 1 - N_SPEC_PER_FILE = f - 1 - N_SPEC_PER_FILE
        BY ONLY <2>1, <4>1
      <4> QED BY <3>2, <4>2 DEF f
    <3>4. file(j).tstart = IF N_files = 1 THEN init_mcnt ELSE Before
      BY <2>1, <2>5, <2>7 DEF StampOf
    <3> QED BY <2>9, <3>3, <3>4
  <2> QED BY <2>8, <2>9
<1> QED BY <1>1, BenchInvariant, PTL

-----------------------------------------------------------------------------
(* Removing files while the pipeline runs.                                 *)

Whole(file) == file.header = TRUE

CleanInv ==
  /\ data_type = 0
  /\ ~raced =>
       /\ OpenInv
       /\ out_pc # "crashed"
       /\ \A p \in DOMAIN files : Whole(files[p])
       /\ out_pc = "header" =>
            \A j \in Beams : j < out_beam => Working(f_fil[j]) \in DOMAIN files

(* A disk with room.                                                       *)
LEMMA NothingRefused ==
  ASSUME MaxFailures = 0, BenchTypeOK, NEW refused, Refuses(refused)
  PROVE  ~refused
BY DEF BenchTypeOK, OutputTypeOK, Refuses

(* Before the first packet the thread can only end.                        *)
LEMMA CleanThread ==
  ASSUME SourceTypes \subseteq {0}, MaxFailures = 0, BenchInv, CleanInv, OutputSteps
  PROVE  CleanInv'
<1>0. BenchTypeOK /\ BenchStart
  BY DEF BenchInv
<1>1. data_type' = data_type /\ raced' = raced
  BY DEF OutputSteps, OutputInternal, OutputWaitError, TakeBlock, NameDirectory,
     MakeDirectory, StampFiles, CheckType, FormatName, CreateFile, OpenFiles, WriteBeam,
     WriteCrash, CountBlock, RenameFile, FreeOutput, global_vars
<1>2. SUFFICES ASSUME ~raced
               PROVE  /\ OpenInv'
                      /\ out_pc' # "crashed"
                      /\ \A p \in DOMAIN files' : Whole(files'[p])
                      /\ out_pc' = "header" =>
                           \A j \in Beams : j < out_beam' => Working(f_fil'[j]) \in DOMAIN files'
  BY <1>1 DEF CleanInv, Whole
<1>3. /\ OpenInv /\ out_pc # "crashed" /\ data_type = 0
      /\ \A p \in DOMAIN files : Whole(files[p]) /\ files[p] \in FileSet
  BY <1>2 DEF CleanInv, BenchInv, DiskInv, Sound
<1>4. CASE ~start_file
  <2>1. OutputWaitError
    BY <1>0, <1>4, IdleBefore
  <2> QED BY <1>3, <2>1 DEF OutputWaitError, OpenInv, fs_vars
<1>5. CASE start_file
  <2>1. OpenInv'
    BY <1>0, <1>3, <1>5, OpenStep DEF OutputSteps, BenchTypeOK
  <2>2. out_pc' # "crashed"
    <3>1. ~WriteCrash
      BY <1>3 DEF WriteCrash, OpenInv
    <3> QED BY <1>3, <3>1 DEF OutputSteps, OutputInternal, OutputWaitError, TakeBlock,
               NameDirectory, MakeDirectory, StampFiles, CheckType, FormatName,
               CreateFile, OpenFiles, WriteBeam, CountBlock, RenameFile, FreeOutput
  <2>3. CASE CreateFile
    <3> DEFINE P == Working(f_fil[out_beam])
    <3>1. /\ out_pc = "header" /\ out_beam' = out_beam + 1 /\ f_fil' = f_fil /\ out_beam \in Beams
      BY <1>0, <2>3, OutputConstants DEF CreateFile, Beams, BenchTypeOK, OutputTypeOK
    <3>2. NameStands(out_beam)
      BY <1>3, <3>1 DEF OpenInv
    <3>3. f_fil[out_beam] # NoName /\ P.dir \in dirs
      BY <3>2 DEF NameStands, Working, Path
    <3>4. files' = Put(files, P, HeaderOnly(file_mcnt))
      <4>1. PICK file \in {HeaderOnly(file_mcnt), EmptyFile} :
              Refuses(file = EmptyFile) /\ files' = WriteHeader(P, file)
        BY <2>3, <3>3 DEF CreateFile
      <4>2. file # EmptyFile
        BY <4>1 DEF Refuses, BenchInv, BenchTypeOK, OutputTypeOK
      <4> QED BY <3>3, <4>1, <4>2 DEF WriteHeader
    <3>5. Whole(HeaderOnly(file_mcnt))
      BY DEF Whole, HeaderOnly
    <3>6. \A p \in DOMAIN files' : Whole(files'[p])
      BY <1>3, <3>4, <3>5 DEF Put
    <3>7. \A j \in Beams : j < out_beam' => Working(f_fil'[j]) \in DOMAIN files'
      <4>1. DOMAIN files' = DOMAIN files \cup {P}
        BY <3>4 DEF Put
      <4>2. \A j \in Beams : j < out_beam + 1 => j < out_beam \/ j = out_beam
        BY <3>1 DEF Beams
      <4>3. \A j \in Beams : j < out_beam => Working(f_fil[j]) \in DOMAIN files
        BY <1>2, <3>1 DEF CleanInv
      <4> QED BY <3>1, <4>1, <4>2, <4>3
    <3> QED BY <2>1, <2>2, <3>6, <3>7
  <2>4. CASE OpenFiles
    <3> DEFINE paths == {Working(f_fil[j]) : j \in Beams}
    <3>1. out_pc = "header" /\ out_pc' = "write" /\ out_beam = N_BEAM_PER_PACK
      BY <2>4 DEF OpenFiles
    <3>2. paths \subseteq DOMAIN files
      <4>1. \A j \in Beams : j < out_beam
        BY <3>1, OutputConstants DEF Beams
      <4> QED BY <1>2, <3>1, <4>1 DEF CleanInv
    <3>3. files' = OpenToAppend(paths)
      <4>1. {j \in Beams : f_fil[j] # NoName} = Beams
        BY <1>3, <3>1 DEF OpenInv, NameStands
      <4> QED BY <2>4, <4>1 DEF OpenFiles
    <3> HIDE DEF paths
    <3>4. \A p \in DOMAIN files' : p \in DOMAIN files /\ files'[p] = files[p]
      BY <3>2, <3>3 DEF OpenToAppend
    <3> QED BY <1>3, <2>1, <2>2, <3>1, <3>4
  <2>5. CASE WriteBeam
    <3> DEFINE P == Working(f_fil[out_beam])
    <3>1. out_pc' = "write" /\ DOMAIN files' = DOMAIN files
      BY <2>5 DEF WriteBeam, AppendBlock, AppendFails
    <3>2. \A p \in DOMAIN files :
            files'[p] = files[p] \/ files'[p] = WithBlock(files[p], out_netmcnt[file_idx])
      BY <1>0, <2>5, NothingRefused DEF WriteBeam, AppendBlock
    <3>3. ASSUME NEW p \in DOMAIN files PROVE Whole(WithBlock(files[p], out_netmcnt[file_idx]))
      <4>1. PICK file \in FileSet : file = files[p]
        BY <1>3
      <4>2. file = [header |-> file.header, tstart |-> file.tstart, blocks |-> file.blocks,
                    failed |-> file.failed]
        BY DEF FileSet
      <4>3. WithBlock(file, out_netmcnt[file_idx]).header = file.header
        BY <4>2 DEF WithBlock
      <4> QED BY <1>3, <4>1, <4>3 DEF Whole
    <3> QED BY <1>3, <2>1, <2>2, <3>1, <3>2, <3>3
  <2>6. CASE RenameFile
    <3>1. out_pc' = "rename"
      BY <2>6 DEF RenameFile
    <3>2. \A p \in DOMAIN files' : \E q \in DOMAIN files : files'[p] = files[q]
      BY <2>6 DEF RenameFile, Rename, Put, Remove
    <3> QED BY <1>3, <2>1, <2>2, <3>1, <3>2
  <2>7. CASE NameDirectory \/ MakeDirectory \/ StampFiles \/ CheckType \/ FormatName
    <3>1. files' = files /\ (out_pc' = "header" => out_beam' = 0)
      BY <1>3, <2>7 DEF NameDirectory, MakeDirectory, StampFiles, CheckType, FormatName,
         OpenInv, fs_vars
    <3>2. out_pc' = "header" => \A j \in Beams : ~(j < out_beam')
      BY <3>1 DEF Beams
    <3> QED BY <1>3, <2>1, <2>2, <3>1, <3>2
  <2>8. CASE TakeBlock \/ WriteCrash \/ OutputWaitError \/ CountBlock \/ FreeOutput
    <3>1. files' = files /\ out_pc' # "header"
      BY <2>8 DEF TakeBlock, WriteCrash, OutputWaitError, CountBlock, FreeOutput, fs_vars
    <3> QED BY <1>3, <2>1, <2>2, <3>1
  <2> QED BY <2>3, <2>4, <2>5, <2>6, <2>7, <2>8 DEF OutputSteps, OutputInternal
<1> QED BY <1>4, <1>5

LEMMA CleanNext ==
  ASSUME SourceTypes \subseteq {0}, MaxFailures = 0, BenchInv, CleanInv, [BenchNext]_bench_vars
  PROVE  CleanInv'
<1> USE DEF CleanInv, OpenInv, NameStands, Whole
<1>1. CASE OutputSteps
  BY <1>1, CleanThread
<1>2. ASSUME NEW m \in FirstFed, NEW source_from \in SourceTypes, NEW group \in BeamGroups,
             FirstPacket(m, source_from, group)
      PROVE  CleanInv'
  <2>1. data_type' = 0
    BY <1>2 DEF FirstPacket
  <2>2. UNCHANGED <<out_private, fs_vars, raced>>
    BY <1>2 DEF FirstPacket
  <2> QED BY <2>1, <2>2 DEF out_private, fs_vars
<1>3. CASE FeedBlock \/ LaterPacket \/ UNCHANGED bench_vars
  <2>1. UNCHANGED <<out_private, fs_vars, raced>> /\ data_type' = 0
    BY <1>3 DEF FeedBlock, LaterPacket, NextPacket, NextBeam, bench_vars, out_vars,
       global_vars
  <2> QED BY <2>1 DEF out_private, fs_vars
<1>4. CASE Restart
  BY <1>4 DEF Restart, fs_vars
<1>5. CASE Data_clean
  <2>1. /\ data_type' = data_type /\ UNCHANGED out_private
        /\ raced' = (raced \/ out_pc \in {"stamp", "type", "format", "header"})
    BY <1>5 DEF Data_clean, global_vars
  <2>2. \A p \in DOMAIN files' : p \in DOMAIN files /\ files'[p] = files[p]
    BY <1>5 DEF Data_clean, Remove
  <2> QED BY <2>1, <2>2 DEF out_private
<1> QED BY <1>1, <1>2, <1>3, <1>4, <1>5 DEF BenchNext, LaterPacket

(* Files may be removed at any moment but between the making of their      *)
(* directory and their opening (TL_output_thread.c:186-224): the thread    *)
(* then never writes to a stream that is not open, and no file is left     *)
(* without a header.  Assumed: data_type 0, without which the names are    *)
(* never formatted, and a disk with room.                                  *)
THEOREM CleaningIsHarmless ==
  ASSUME SourceTypes \subseteq {0}, MaxFailures = 0
  PROVE  BenchSpec => []CleanHarmless
<1>1. BenchInit => CleanInv
  <2> SUFFICES ASSUME BenchInit PROVE CleanInv
    OBVIOUS
  <2>1. /\ data_type = 0 /\ out_pc = "wait" /\ filb_flag = 1 /\ out_beam = 0
        /\ DOMAIN files = {}
    BY DEF BenchInit, GlobalsInit, OutputInit
  <2> QED BY <2>1 DEF CleanInv, OpenInv
<1>2. BenchInv /\ CleanInv /\ [BenchNext]_bench_vars => CleanInv'
  BY CleanNext
<1>3. CleanInv => CleanHarmless
  BY DEF CleanInv, CleanHarmless, Whole
<1> QED BY <1>1, <1>2, <1>3, BenchInvariant, PTL DEF BenchSpec

-----------------------------------------------------------------------------
(* The beams in step, until the first restart or removal.                  *)

Dir == Append(<<beam_ID[0]>>, beam_ID[N_BEAM_PER_PACK - 1])
NameOf(j, stamp) == [dir |-> Dir, beam |-> beam_ID[j], stamp |-> stamp]
At(j, stamp, ext) == Path(NameOf(j, stamp), ext)
HasNames == f_fil[0] # NoName

(* All beams have the same file.                                           *)
Agreed(p) ==
  \A j \in Beams : /\ At(j, p.stamp, p.ext) \in DOMAIN files
                   /\ files[At(j, p.stamp, p.ext)] = files[p]

(* It is one of the files the thread is at.                                *)
Busy(p) ==
  /\ HasNames
  /\ p.stamp = f_fil[0].stamp
  /\ (out_pc \in {"header", "write"} /\ p.ext = "fil.working") \/ out_pc = "rename"

(* The current file of a beam once the block is written, and where it is   *)
(* while the files are renamed.                                            *)
Written(j) ==
  LET file == files[Working(f_fil[j])]
  IN  IF j < out_beam THEN file ELSE WithBlock(file, out_netmcnt[file_idx])
Moved(j) == IF j < out_beam THEN Filname(f_fil[j]) ELSE Working(f_fil[j])

InStep ==
  /\ out_pc = "header" =>
       \A j \in Beams : j < out_beam => /\ Working(f_fil[j]) \in DOMAIN files
                                        /\ files[Working(f_fil[j])] = HeaderOnly(file_mcnt)
  /\ out_pc = "write" =>
       \A i, j \in Beams : Working(f_fil[i]) \in DOMAIN files /\ Written(i) = Written(j)
  /\ out_pc \in {"wait", "free"} /\ filb_flag # 1 =>
       \A j \in Beams : Working(f_fil[j]) \in DOMAIN files
  /\ out_pc = "rename" =>
       \A i, j \in Beams : /\ Moved(i) \in DOMAIN files
                           /\ files[Moved(i)] = files[Moved(j)]
                           /\ j < out_beam => Working(f_fil[j]) \notin DOMAIN files

NamesInv ==
  /\ ~start_file => DOMAIN files = {} /\ f_fil = [j \in Beams |-> NoName]
  /\ start_file => \E g \in BeamGroups : beam_ID = BeamsOfGroup(g)
  /\ \A p \in DOMAIN files : \E j \in Beams : p = At(j, p.stamp, p.ext)
  /\ out_pc = "mkdir" => File_dir = <<beam_ID[0]>>
  /\ out_pc \in {"stamp", "type", "format"} => File_dir = Dir /\ Dir \in dirs
  /\ out_pc = "header" => Dir \in dirs
  /\ IF out_pc = "format"
     THEN /\ out_beam \in Beams
          /\ \A j \in 0 .. out_beam - 1 : f_fil[j] = NameOf(j, time_calculate(file_mcnt))
     ELSE \A j \in Beams : f_fil[j] = IF HasNames THEN NameOf(j, f_fil[0].stamp) ELSE NoName

StepInv ==
  out_pc \notin {"exited", "crashed"} =>
    /\ \A p \in DOMAIN files : Busy(p) \/ Agreed(p)
    /\ HasNames => InStep

AgreeInv ==
  /\ restarts \in Nat /\ cleans \in Nat
  /\ restarts = 0 /\ cleans = 0 => NamesInv /\ StepInv

(* A formatted name differs from an uninitialised buffer.                  *)
LEMMA NameIsSome ==
  ASSUME NEW j, NEW stamp
  PROVE  NameOf(j, stamp) # NoName /\ NameOf(j, stamp).stamp = stamp
<1>1. Dir # <<>>
  <2>1. ASSUME NEW a, NEW b PROVE Append(<<a>>, b) # <<>>
    <3>1. <<a>> \in Seq({a, b}) /\ b \in {a, b} /\ Len(<<a>>) = 1
      OBVIOUS
    <3>2. Len(Append(<<a>>, b)) = 2
      BY <3>1
    <3> QED BY <3>2
  <2> QED BY <2>1 DEF Dir
<1>2. NameOf(j, stamp).dir = Dir /\ NoName.dir = <<>> /\ NameOf(j, stamp).stamp = stamp
  BY DEF NameOf, NoName
<1> QED BY <1>1, <1>2

LEMMA NamedAll ==
  ASSUME NamesInv, out_pc # "format", NEW j \in Beams
  PROVE  HasNames <=> f_fil[j] # NoName
BY NameIsSome DEF NamesInv

LEMMA CurrentAt ==
  ASSUME NamesInv, HasNames, out_pc # "format", NEW j \in Beams
  PROVE  /\ Working(f_fil[j]) = At(j, f_fil[0].stamp, "fil.working")
         /\ Filname(f_fil[j]) = At(j, f_fil[0].stamp, "fil")
BY DEF NamesInv, Working, Filname, At

LEMMA AtIs ==
  ASSUME NEW j, NEW s, NEW e
  PROVE  At(j, s, e) = [dir |-> Dir, beam |-> beam_ID[j], stamp |-> s, ext |-> e]
BY DEF At, Path, NameOf

LEMMA AtApart ==
  ASSUME BenchStart, start_file, NEW i \in Beams, NEW j \in Beams, NEW s, NEW t, NEW e, NEW x
  PROVE  At(i, s, e) = At(j, t, x) <=> i = j /\ s = t /\ e = x
<1>1. beam_ID[i] % N_BEAM_PER_PACK = i /\ beam_ID[j] % N_BEAM_PER_PACK = j
  BY DEF BenchStart
<1>2. beam_ID[i] = beam_ID[j] => i = j
  BY <1>1
<1>3. /\ At(i, s, e).beam = beam_ID[i] /\ At(i, s, e).stamp = s /\ At(i, s, e).ext = e
      /\ At(j, t, x).beam = beam_ID[j] /\ At(j, t, x).stamp = t /\ At(j, t, x).ext = x
  BY AtIs
<1> QED BY <1>2, <1>3

LEMMA NamesThread ==
  ASSUME BenchTypeOK, BenchStart, FlagInv, NamesInv, OutputSteps
  PROVE  NamesInv'
<1>0. 0 \in Beams /\ N_BEAM_PER_PACK - 1 \in Beams /\ N_BEAM_PER_PACK \in Nat \ {0}
  BY OutputConstants DEF Beams
<1>1. UNCHANGED <<start_file, beam_ID>>
  BY DEF OutputSteps, OutputInternal, OutputWaitError, TakeBlock, NameDirectory,
     MakeDirectory, StampFiles, CheckType, FormatName, CreateFile, OpenFiles, WriteBeam,
     WriteCrash, CountBlock, RenameFile, FreeOutput, global_vars
<1>2. /\ Dir' = Dir
      /\ \A j, t : NameOf(j, t)' = NameOf(j, t)
      /\ \A j, t, x : At(j, t, x)' = At(j, t, x)
  BY <1>1 DEF Dir, NameOf, At, Path
<1>3. CASE ~start_file
  <2>1. OutputWaitError
    BY <1>3, IdleBefore
  <2>2. UNCHANGED <<f_fil, files, dirs>> /\ out_pc' = "exited" /\ out_pc # "format"
    BY <2>1 DEF OutputWaitError, fs_vars
  <2> QED BY <1>1, <1>2, <1>3, <2>2 DEF NamesInv, HasNames, NoName
<1>4. CASE start_file
  <2>1. start_file' /\ \E g \in BeamGroups : beam_ID' = BeamsOfGroup(g)
    BY <1>1, <1>4 DEF NamesInv
  <2>2. /\ out_pc' = "mkdir" => File_dir' = <<beam_ID[0]>>
        /\ out_pc' \in {"stamp", "type", "format"} => File_dir' = Dir /\ Dir \in dirs'
        /\ out_pc' = "header" => Dir \in dirs'
    <3>1. CASE NameDirectory
      BY <3>1 DEF NameDirectory
    <3>2. CASE MakeDirectory
      <4>1. File_dir = <<beam_ID[0]>>
        BY <3>2 DEF MakeDirectory, NamesInv
      <4> QED BY <3>2, <4>1 DEF MakeDirectory, Dir
    <3>3. CASE StampFiles \/ CheckType \/ FormatName
      BY <3>3 DEF StampFiles, CheckType, FormatName, NamesInv, fs_vars
    <3>4. CASE CreateFile
      BY <3>4 DEF CreateFile, NamesInv
    <3>5. CASE \/ TakeBlock \/ OpenFiles \/ WriteBeam \/ WriteCrash \/ CountBlock
               \/ RenameFile \/ FreeOutput \/ OutputWaitError
      BY <3>5 DEF TakeBlock, OpenFiles, WriteBeam, WriteCrash, CountBlock, RenameFile,
         FreeOutput, OutputWaitError
    <3> QED BY <3>1, <3>2, <3>3, <3>4, <3>5 DEF OutputSteps, OutputInternal
  <2>3. IF out_pc' = "format"
        THEN /\ out_beam' \in Beams
             /\ \A j \in 0 .. out_beam' - 1 : f_fil'[j] = NameOf(j, time_calculate(file_mcnt)')
        ELSE \A j \in Beams :
               f_fil'[j] = IF f_fil'[0] # NoName THEN NameOf(j, f_fil'[0].stamp) ELSE NoName
    <3>1. CASE FormatName
      <4> DEFINE t == time_calculate(file_mcnt)
      <4>1. /\ out_pc = "format" /\ out_beam \in Beams /\ File_dir = Dir
            /\ \A j \in 0 .. out_beam - 1 : f_fil[j] = NameOf(j, t)
        BY <3>1 DEF FormatName, NamesInv
      <4>2. UNCHANGED <<file_mcnt, gps_time>>
        BY <3>1 DEF FormatName
      <4>3. t' = t
        BY <4>2 DEF time_calculate
      <4>4. f_fil' = [f_fil EXCEPT ![out_beam] = NameOf(out_beam, t)]
        BY <3>1, <4>1 DEF FormatName, NameOf
      <4>5. DOMAIN f_fil = Beams
        BY DEF BenchTypeOK, OutputTypeOK
      <4> HIDE DEF t
      <4>6. \A j \in 0 .. out_beam : f_fil'[j] = NameOf(j, t)
        BY <4>1, <4>4, <4>5 DEF Beams
      <4>7. CASE out_beam + 1 < N_BEAM_PER_PACK
        <5>1. out_pc' = "format" /\ out_beam' = out_beam + 1
          BY <3>1, <4>7 DEF FormatName
        <5>2. out_beam' \in Beams /\ out_beam' - 1 = out_beam
          BY <1>0, <4>1, <4>7, <5>1 DEF Beams
        <5> QED BY <4>3, <4>6, <5>1, <5>2 DEF t
      <4>8. CASE ~(out_beam + 1 < N_BEAM_PER_PACK)
        <5>1. out_pc' = "header" /\ 0 .. out_beam = Beams
          BY <1>0, <3>1, <4>1, <4>8 DEF FormatName, Beams
        <5>2. \A j \in Beams : f_fil'[j] = NameOf(j, t)
          BY <4>6, <5>1
        <5>3. f_fil'[0] # NoName /\ f_fil'[0].stamp = t
          BY <1>0, <5>2, NameIsSome
        <5> QED BY <5>1, <5>2, <5>3
      <4> QED BY <4>7, <4>8
    <3>2. CASE CheckType /\ out_pc' = "format"
      <4>1. out_beam' = 0
        BY <3>2 DEF CheckType, FlagInv
      <4> QED BY <1>0, <3>2, <4>1
    <3>3. CASE ~FormatName /\ out_pc' # "format"
      <4>1. f_fil' = f_fil /\ out_pc # "format"
        BY <3>3 DEF OutputSteps, OutputInternal, OutputWaitError, TakeBlock,
           NameDirectory, MakeDirectory, StampFiles, CheckType, CreateFile, OpenFiles,
           WriteBeam, WriteCrash, CountBlock, RenameFile, FreeOutput
      <4> QED BY <3>3, <4>1 DEF NamesInv, HasNames
    <3>4. out_pc' = "format" => CheckType \/ FormatName
      BY DEF OutputSteps, OutputInternal, OutputWaitError, TakeBlock, NameDirectory,
         MakeDirectory, StampFiles, CreateFile, OpenFiles, WriteBeam, WriteCrash,
         CountBlock, RenameFile, FreeOutput
    <3> QED BY <3>1, <3>2, <3>3, <3>4
  <2>4. \A p \in DOMAIN files' :
           \/ p \in DOMAIN files
           \/ /\ HasNames /\ out_pc # "format"
              /\ \E j \in Beams : p \in {Working(f_fil[j]), Filname(f_fil[j])}
    <3>1. CASE CreateFile \/ RenameFile
      <4>1. out_beam \in Beams /\ out_pc # "format"
        <5>1. /\ out_pc \in {"header", "rename"} /\ out_beam < N_BEAM_PER_PACK
              /\ out_beam \in 0 .. N_BEAM_PER_PACK
          BY <3>1 DEF CreateFile, RenameFile, BenchTypeOK, OutputTypeOK
        <5> QED BY <1>0, <5>1 DEF Beams
      <4>2. f_fil[out_beam] # NoName => HasNames
        BY <4>1, NamedAll
      <4> QED BY <3>1, <4>1, <4>2 DEF CreateFile, RenameFile, WriteHeader, Rename, Put,
                 Remove
    <3>2. CASE OpenFiles
      <4>1. out_pc # "format"
        BY <3>2 DEF OpenFiles
      <4>2. \A j \in Beams : f_fil[j] # NoName => HasNames
        BY <4>1, NamedAll
      <4> QED BY <3>2, <4>1, <4>2 DEF OpenFiles, OpenToAppend
    <3>3. CASE WriteBeam
      BY <3>3 DEF WriteBeam, AppendBlock, AppendFails
    <3>4. CASE \/ TakeBlock \/ NameDirectory \/ MakeDirectory \/ StampFiles \/ CheckType
               \/ FormatName \/ WriteCrash \/ CountBlock \/ FreeOutput \/ OutputWaitError
      BY <3>4 DEF TakeBlock, NameDirectory, MakeDirectory, StampFiles, CheckType,
         FormatName, WriteCrash, CountBlock, FreeOutput, OutputWaitError, fs_vars
    <3> QED BY <3>1, <3>2, <3>3, <3>4 DEF OutputSteps, OutputInternal
  <2>5. ASSUME NEW p \in DOMAIN files'
        PROVE  \E j \in Beams : p = At(j, p.stamp, p.ext)
    <3>1. CASE p \in DOMAIN files
      BY <3>1 DEF NamesInv
    <3>2. CASE p \notin DOMAIN files
      <4>1. PICK j \in Beams : p \in {Working(f_fil[j]), Filname(f_fil[j])}
        BY <2>4, <3>2
      <4>2. p = At(j, f_fil[0].stamp, "fil.working") \/ p = At(j, f_fil[0].stamp, "fil")
        BY <2>4, <3>2, <4>1, CurrentAt
      <4> QED BY <4>2, AtIs
    <3> QED BY <3>1, <3>2
  <2>6. \A p \in DOMAIN files' : \E j \in Beams : p = At(j, p.stamp, p.ext)'
    BY <1>2, <2>5
  <2> QED BY <1>1, <1>2, <2>1, <2>2, <2>3, <2>6 DEF NamesInv, HasNames, NoName
<1> QED BY <1>3, <1>4

LEMMA KeepAgreed ==
  ASSUME beam_ID' = beam_ID, NEW p, Agreed(p), files'[p] = files[p],
         \A j \in Beams : At(j, p.stamp, p.ext) \in DOMAIN files =>
           /\ At(j, p.stamp, p.ext) \in DOMAIN files'
           /\ files'[At(j, p.stamp, p.ext)] = files[At(j, p.stamp, p.ext)]
  PROVE  Agreed(p)'
<1>1. ASSUME NEW j \in Beams
      PROVE  /\ At(j, p.stamp, p.ext) \in DOMAIN files'
             /\ files'[At(j, p.stamp, p.ext)] = files'[p]
  BY DEF Agreed
<1>2. \A j \in Beams : At(j, p.stamp, p.ext)' = At(j, p.stamp, p.ext)
  BY DEF At, Path, NameOf, Dir
<1> QED BY <1>1, <1>2 DEF Agreed

(* While the disk is left alone, agreement is kept.                        *)
LEMMA StepControl ==
  ASSUME BenchTypeOK, BenchStart, FlagInv, FeedInv, NamesInv, StepInv, start_file, OutputSteps,
         \/ TakeBlock \/ NameDirectory \/ MakeDirectory \/ StampFiles \/ CheckType
         \/ FormatName \/ WriteCrash \/ OutputWaitError
  PROVE  StepInv'
<1>1. files' = files /\ beam_ID' = beam_ID
  BY DEF TakeBlock, NameDirectory, MakeDirectory, StampFiles, CheckType, FormatName,
     WriteCrash, OutputWaitError, global_vars, fs_vars
<1>2. CASE WriteCrash \/ OutputWaitError
  BY <1>2 DEF WriteCrash, OutputWaitError, StepInv
<1>3. CASE \/ TakeBlock \/ NameDirectory \/ MakeDirectory \/ StampFiles \/ CheckType
           \/ FormatName
  <2>1. out_pc \in Naming \cup {"wait"} /\ \A p \in DOMAIN files : Agreed(p)
    BY <1>3 DEF TakeBlock, NameDirectory, MakeDirectory, StampFiles, CheckType, FormatName,
       StepInv, Busy, Naming
  <2>2. \A p \in DOMAIN files' : Agreed(p)'
    BY <1>1, <2>1, KeepAgreed
  <2>3. CASE ~TakeBlock
    <3>1. out_pc' \in Naming \cup {"header"} /\ (out_pc' = "header" => out_beam' = 0)
      BY <1>3, <2>3 DEF NameDirectory, MakeDirectory, StampFiles, CheckType, FormatName,
         FlagInv, Naming
    <3>2. out_pc' = "header" => \A j \in Beams : ~(j < out_beam')
      BY <3>1 DEF Beams
    <3> QED BY <2>2, <3>1, <3>2 DEF StepInv, InStep, Naming
  <2>4. CASE TakeBlock
    <3>1. /\ out_pc = "wait" /\ out_pc' \in {"name", "write"} /\ (out_pc' = "write" => filb_flag # 1)
          /\ UNCHANGED <<f_fil, file_idx, out_netmcnt, out_beam>> /\ out_beam = 0
      BY <2>4 DEF TakeBlock, output_vars, FlagInv
    <3>2. ASSUME HasNames, filb_flag # 1, NEW i \in Beams, NEW j \in Beams
          PROVE  Working(f_fil[i]) \in DOMAIN files /\ Written(i)' = Written(j)'
      <4>1. Working(f_fil[i]) \in DOMAIN files /\ Working(f_fil[j]) \in DOMAIN files
        BY <3>1, <3>2 DEF StepInv, InStep
      <4>2. files[Working(f_fil[i])] = files[Working(f_fil[j])]
        <5>1. /\ Working(f_fil[i]) = At(i, f_fil[0].stamp, "fil.working")
              /\ Working(f_fil[j]) = At(j, f_fil[0].stamp, "fil.working")
          BY <3>1, <3>2, CurrentAt
        <5>2. /\ Working(f_fil[i]).stamp = f_fil[0].stamp
              /\ Working(f_fil[i]).ext = "fil.working"
          BY <5>1, AtIs
        <5> QED BY <2>1, <4>1, <5>1, <5>2 DEF Agreed
      <4>3. ~(i < out_beam') /\ ~(j < out_beam')
        BY <3>1 DEF Beams
      <4>4. /\ Written(i)' = WithBlock(files[Working(f_fil[i])], out_netmcnt[file_idx])
            /\ Written(j)' = WithBlock(files[Working(f_fil[j])], out_netmcnt[file_idx])
        BY <1>1, <3>1, <4>3 DEF Written, WithBlock, Working, Path
      <4> QED BY <4>1, <4>2, <4>4
    <3>3. HasNames' => InStep'
      BY <1>1, <3>1, <3>2 DEF InStep, Working, Path, HasNames, NoName
    <3> QED BY <2>2, <3>1, <3>3 DEF StepInv, HasNames, NoName
  <2> QED BY <1>3, <2>3, <2>4
<1> QED BY <1>2, <1>3

LEMMA StepCreate ==
  ASSUME BenchTypeOK, BenchStart, NamesInv, StepInv, start_file, MaxFailures = 0, OutputSteps, CreateFile
  PROVE  StepInv'
<1> DEFINE P == Working(f_fil[out_beam])
<1>1. /\ out_pc = "header" /\ out_pc' = "header" /\ out_beam' = out_beam + 1 /\ out_beam \in Beams
      /\ UNCHANGED <<f_fil, beam_ID, file_mcnt>>
  BY OutputConstants DEF CreateFile, Beams, BenchTypeOK, OutputTypeOK, global_vars
<1>2. CASE ~HasNames
  <2>1. files' = files
    BY <1>1, <1>2, NamedAll DEF CreateFile
  <2>2. \A p \in DOMAIN files : Agreed(p)
    BY <1>1, <1>2 DEF StepInv, Busy
  <2>3. \A p \in DOMAIN files' : Agreed(p)'
    BY <1>1, <2>1, <2>2, KeepAgreed
  <2> QED BY <1>1, <1>2, <2>3 DEF StepInv, HasNames, NoName
<1>3. CASE HasNames
  <2>1. f_fil[out_beam] # NoName /\ P = At(out_beam, f_fil[0].stamp, "fil.working")
    BY <1>1, <1>3, NamedAll, CurrentAt
  <2>2. P.dir \in dirs
    BY <1>1, <2>1, AtIs DEF NamesInv
  <2>3. files' = Put(files, P, HeaderOnly(file_mcnt))
    <3>1. PICK file \in {HeaderOnly(file_mcnt), EmptyFile} :
            Refuses(file = EmptyFile) /\ files' = WriteHeader(P, file)
      BY <2>1 DEF CreateFile
    <3>2. file # EmptyFile
      BY <3>1 DEF Refuses, BenchTypeOK, OutputTypeOK
    <3> QED BY <2>2, <3>1, <3>2 DEF WriteHeader
  <2>4. /\ DOMAIN files' = DOMAIN files \cup {P} /\ files'[P] = HeaderOnly(file_mcnt)
        /\ \A p \in DOMAIN files : p # P => files'[p] = files[p]
    BY <2>3 DEF Put
  <2>5. \A j \in Beams : /\ Working(f_fil[j]) = At(j, f_fil[0].stamp, "fil.working")
                         /\ f_fil[j] # NoName
    BY <1>1, <1>3, CurrentAt, NamedAll
  <2>6. InStep'
    <3>1. ASSUME NEW j \in Beams, j < out_beam + 1
          PROVE  Working(f_fil[j]) \in DOMAIN files' /\ files'[Working(f_fil[j])] = HeaderOnly(file_mcnt)
      <4>1. CASE j = out_beam
        BY <2>4, <4>1
      <4>2. CASE j # out_beam
        <5>1. j < out_beam
          BY <1>1, <3>1, <4>2 DEF Beams
        <5>2. Working(f_fil[j]) # P
          BY <1>1, <2>5, <4>2, OwnPath
        <5> QED BY <1>1, <1>3, <2>4, <5>1, <5>2 DEF StepInv, InStep
      <4> QED BY <4>1, <4>2
    <3> QED BY <1>1, <3>1 DEF InStep, Working, Path, HeaderOnly
  <2>7. ASSUME NEW p \in DOMAIN files', ~Busy(p)'
        PROVE  Agreed(p)'
    <3>1. ~(p.stamp = f_fil[0].stamp /\ p.ext = "fil.working")
      BY <1>1, <1>3, <2>7 DEF Busy, HasNames, NoName
    <3>2. p # P
      BY <2>5, <1>1, <3>1, AtIs
    <3>3. Agreed(p)
      BY <1>1, <2>4, <3>1, <3>2 DEF StepInv, Busy
    <3>4. \A j \in Beams : At(j, p.stamp, p.ext) # P
      BY <1>1, <2>5, <3>1, AtApart
    <3> QED BY <1>1, <2>4, <3>2, <3>3, <3>4, KeepAgreed
  <2> QED BY <2>6, <2>7 DEF StepInv
<1> QED BY <1>2, <1>3

LEMMA StepOpen ==
  ASSUME BenchTypeOK, BenchStart, NamesInv, StepInv, start_file, OutputSteps, OpenFiles
  PROVE  StepInv'
<1> DEFINE paths == {Working(f_fil[j]) : j \in Beams}
<1>1. /\ out_pc = "header" /\ out_pc' = "write" /\ out_beam' = 0 /\ out_beam = N_BEAM_PER_PACK
      /\ UNCHANGED <<f_fil, beam_ID, file_idx, out_netmcnt>>
  BY DEF OpenFiles, global_vars, output_vars
<1>2. \A j \in Beams : j < out_beam /\ ~(j < out_beam')
  BY <1>1, OutputConstants DEF Beams
<1>3. DOMAIN files' = DOMAIN files /\ \A p \in DOMAIN files : files'[p] = files[p]
  <2>1. CASE ~HasNames
    <3>1. {Working(f_fil[j]) : j \in {i \in Beams : f_fil[i] # NoName}} = {}
      BY <1>1, <2>1, NamedAll
    <3> QED BY <3>1 DEF OpenFiles, OpenToAppend
  <2>2. CASE HasNames
    <3>1. files' = OpenToAppend(paths)
      <4>1. {j \in Beams : f_fil[j] # NoName} = Beams
        BY <1>1, <2>2, NamedAll
      <4> QED BY <4>1 DEF OpenFiles
    <3>2. paths \subseteq DOMAIN files
      BY <1>1, <1>2, <2>2 DEF StepInv, InStep
    <3> HIDE DEF paths
    <3> QED BY <3>1, <3>2 DEF OpenToAppend
  <2> QED BY <2>1, <2>2
<1>4. ASSUME HasNames
      PROVE  InStep'
  <2>1. \A j \in Beams : /\ Working(f_fil[j]) \in DOMAIN files
                         /\ files[Working(f_fil[j])] = HeaderOnly(file_mcnt)
    BY <1>1, <1>2, <1>4 DEF StepInv, InStep
  <2>2. \A j \in Beams : Written(j)' = WithBlock(HeaderOnly(file_mcnt), out_netmcnt[file_idx])
    BY <1>1, <1>2, <1>3, <2>1 DEF Written, WithBlock, Working, Path
  <2> QED BY <1>1, <1>3, <2>1, <2>2 DEF InStep, Working, Path
<1>5. ASSUME NEW p \in DOMAIN files', ~Busy(p)'
      PROVE  Agreed(p)'
  <2>1. Agreed(p)
    BY <1>1, <1>3, <1>5 DEF StepInv, Busy, HasNames, NoName
  <2> QED BY <1>1, <1>3, <2>1, KeepAgreed
<1> QED BY <1>1, <1>4, <1>5 DEF StepInv, HasNames, NoName

LEMMA StepWrite ==
  ASSUME BenchTypeOK, BenchStart, NamesInv, StepInv, start_file, MaxFailures = 0, OutputSteps, WriteBeam
  PROVE  StepInv'
<1> DEFINE P == Working(f_fil[out_beam])
           mcnt == out_netmcnt[file_idx]
<1>1. /\ out_pc = "write" /\ out_pc' = "write" /\ out_beam' = out_beam + 1 /\ out_beam \in Beams
      /\ UNCHANGED <<f_fil, beam_ID, file_idx, out_netmcnt>>
  BY OutputConstants DEF WriteBeam, Beams, BenchTypeOK, OutputTypeOK, global_vars,
     output_vars
<1>2. CASE ~HasNames
  <2>1. files' = files
    BY <1>1, <1>2, NamedAll DEF WriteBeam
  <2>2. \A p \in DOMAIN files : Agreed(p)
    BY <1>1, <1>2 DEF StepInv, Busy
  <2>3. \A p \in DOMAIN files' : Agreed(p)'
    BY <1>1, <2>1, <2>2, KeepAgreed
  <2> QED BY <1>1, <1>2, <2>3 DEF StepInv, HasNames, NoName
<1>3. CASE HasNames
  <2>1. \A i, j \in Beams : Working(f_fil[i]) \in DOMAIN files /\ Written(i) = Written(j)
    BY <1>1, <1>3 DEF StepInv, InStep
  <2>2. files' = [files EXCEPT ![P] = WithBlock(files[P], mcnt)]
    <3>1. f_fil[out_beam] # NoName
      BY <1>1, <1>3, NamedAll
    <3>2. \A refused \in BOOLEAN : Refuses(refused) => ~refused
      BY NothingRefused
    <3> QED BY <1>1, <2>1, <3>1, <3>2 DEF WriteBeam, AppendBlock
  <2>3. /\ DOMAIN files' = DOMAIN files /\ files'[P] = WithBlock(files[P], mcnt)
        /\ \A p \in DOMAIN files : p # P => files'[p] = files[p]
    BY <1>1, <2>1, <2>2
  <2>4. \A j \in Beams : /\ Working(f_fil[j]) = At(j, f_fil[0].stamp, "fil.working")
                         /\ f_fil[j] # NoName
    BY <1>1, <1>3, CurrentAt, NamedAll
  <2>5. ASSUME NEW j \in Beams
        PROVE  Written(j)' = Written(j)
    <3>1. Written(j)' = IF j < out_beam + 1 THEN files'[Working(f_fil[j])]
                        ELSE WithBlock(files'[Working(f_fil[j])], mcnt)
      BY <1>1 DEF Written, WithBlock, Working, Path
    <3>2. CASE j = out_beam
      <4>1. j < out_beam + 1 /\ ~(j < out_beam)
        BY <1>1, <3>2 DEF Beams
      <4> QED BY <2>3, <3>1, <3>2, <4>1 DEF Written
    <3>3. CASE j # out_beam
      <4>1. j < out_beam + 1 <=> j < out_beam
        BY <1>1, <3>3 DEF Beams
      <4>2. files'[Working(f_fil[j])] = files[Working(f_fil[j])]
        BY <1>1, <2>1, <2>3, <2>4, <3>3, OwnPath
      <4> QED BY <3>1, <4>1, <4>2 DEF Written
    <3> QED BY <3>2, <3>3
  <2>6. InStep'
    <3>1. \A i, j \in Beams : Working(f_fil[i]) \in DOMAIN files' /\ Written(i)' = Written(j)'
      BY <2>1, <2>3, <2>5
    <3> QED BY <1>1, <3>1 DEF InStep, Working, Path
  <2>7. ASSUME NEW p \in DOMAIN files', ~Busy(p)'
        PROVE  Agreed(p)'
    <3>1. ~(p.stamp = f_fil[0].stamp /\ p.ext = "fil.working")
      BY <1>1, <1>3, <2>7 DEF Busy, HasNames, NoName
    <3>2. p # P
      BY <1>1, <2>4, <3>1, AtIs
    <3>3. Agreed(p)
      BY <1>1, <2>3, <3>1 DEF StepInv, Busy
    <3>4. \A j \in Beams : At(j, p.stamp, p.ext) # P
      BY <1>1, <2>4, <3>1, AtApart
    <3> QED BY <1>1, <2>3, <3>2, <3>3, <3>4, KeepAgreed
  <2> QED BY <2>6, <2>7 DEF StepInv
<1> QED BY <1>2, <1>3

LEMMA StepCount ==
  ASSUME BenchTypeOK, BenchStart, NamesInv, StepInv, start_file, OutputSteps, CountBlock
  PROVE  StepInv'
<1>1. /\ out_pc = "write" /\ out_pc' \in {"free", "rename"} /\ out_beam = N_BEAM_PER_PACK
      /\ out_beam' = 0 /\ UNCHANGED <<f_fil, beam_ID, files>>
  BY DEF CountBlock, global_vars, fs_vars
<1>2. \A j \in Beams : j < out_beam /\ ~(j < out_beam')
  BY <1>1, OutputConstants DEF Beams
<1>3. ASSUME HasNames, NEW i \in Beams, NEW j \in Beams
      PROVE  /\ Working(f_fil[i]) \in DOMAIN files
             /\ files[Working(f_fil[i])] = files[Working(f_fil[j])]
             /\ Working(f_fil[j]) = At(j, f_fil[0].stamp, "fil.working")
  BY <1>1, <1>2, <1>3, CurrentAt DEF StepInv, InStep, Written
<1>4. HasNames => InStep'
  <2>1. \A j \in Beams : Moved(j)' = Working(f_fil[j])
    BY <1>1, <1>2 DEF Moved, Working, Filname, Path
  <2> QED BY <1>1, <1>2, <1>3, <2>1 DEF InStep, Working, Path
<1>5. ASSUME NEW p \in DOMAIN files', ~Busy(p)'
      PROVE  Agreed(p)'
  <2>1. Agreed(p)
    <3>1. CASE Busy(p)
      <4>1. HasNames /\ p.stamp = f_fil[0].stamp /\ p.ext = "fil.working"
        BY <1>1, <3>1 DEF Busy
      <4>2. PICK i \in Beams : p = At(i, p.stamp, p.ext)
        BY <1>1, <1>5 DEF NamesInv
      <4>3. p = Working(f_fil[i])
        BY <1>3, <4>1, <4>2
      <4>4. \A j \in Beams : At(j, p.stamp, p.ext) = Working(f_fil[j])
        BY <1>3, <4>1
      <4> QED BY <1>3, <4>1, <4>3, <4>4 DEF Agreed
    <3>2. CASE ~Busy(p)
      BY <1>1, <1>5, <3>2 DEF StepInv
    <3> QED BY <3>1, <3>2
  <2> QED BY <1>1, <2>1, KeepAgreed
<1> QED BY <1>1, <1>4, <1>5 DEF StepInv, HasNames, NoName

LEMMA StepRename ==
  ASSUME BenchTypeOK, BenchStart, NamesInv, StepInv, start_file, OutputSteps, RenameFile
  PROVE  StepInv'
<1> DEFINE P == Working(f_fil[out_beam])
           Q == Filname(f_fil[out_beam])
<1>1. /\ out_pc = "rename" /\ out_pc' = "rename" /\ out_beam' = out_beam + 1 /\ out_beam \in Beams
      /\ UNCHANGED <<f_fil, beam_ID>>
  BY OutputConstants DEF RenameFile, Beams, BenchTypeOK, OutputTypeOK, global_vars
<1>2. CASE ~HasNames
  <2>1. files' = files
    BY <1>1, <1>2, NamedAll DEF RenameFile
  <2>2. \A p \in DOMAIN files : Agreed(p)
    BY <1>1, <1>2 DEF StepInv, Busy
  <2>3. \A p \in DOMAIN files' : Agreed(p)'
    BY <1>1, <2>1, <2>2, KeepAgreed
  <2> QED BY <1>1, <1>2, <2>3 DEF StepInv, HasNames, NoName
<1>3. CASE HasNames
  <2>1. \A i, j \in Beams : /\ Moved(i) \in DOMAIN files
                            /\ files[Moved(i)] = files[Moved(j)]
                            /\ j < out_beam => Working(f_fil[j]) \notin DOMAIN files
    BY <1>1, <1>3 DEF StepInv, InStep
  <2>2. \A j \in Beams : /\ Working(f_fil[j]) = At(j, f_fil[0].stamp, "fil.working")
                         /\ Filname(f_fil[j]) = At(j, f_fil[0].stamp, "fil")
                         /\ f_fil[j] # NoName
    BY <1>1, <1>3, CurrentAt, NamedAll
  <2>3. ~(out_beam < out_beam) /\ P \in DOMAIN files /\ Moved(out_beam) = P
    <3>1. ~(out_beam < out_beam)
      BY <1>1 DEF Beams
    <3> QED BY <1>1, <2>1, <3>1 DEF Moved
  <2>4. P # Q
    BY <1>1, <2>2, AtIs
  <2>5. /\ DOMAIN files' = (DOMAIN files \ {P}) \cup {Q} /\ files'[Q] = files[P]
        /\ \A p \in DOMAIN files : p # P /\ p # Q => files'[p] = files[p]
    BY <1>1, <2>2, <2>3, <2>4 DEF RenameFile, Rename, Put, Remove
  <2>6. ASSUME NEW j \in Beams
        PROVE  /\ Moved(j)' \in DOMAIN files'
               /\ files'[Moved(j)'] = files[Moved(j)]
               /\ j < out_beam + 1 => Working(f_fil[j]) \notin DOMAIN files'
    <3>1. Moved(j)' = IF j < out_beam + 1 THEN Filname(f_fil[j]) ELSE Working(f_fil[j])
      BY <1>1 DEF Moved, Working, Filname, Path
    <3>2. CASE j = out_beam
      <4>1. j < out_beam + 1
        BY <1>1, <3>2 DEF Beams
      <4> QED BY <2>3, <2>4, <2>5, <3>1, <3>2, <4>1
    <3>3. CASE j # out_beam
      <4>1. j < out_beam + 1 <=> j < out_beam
        BY <1>1, <3>3 DEF Beams
      <4>2. /\ Working(f_fil[j]) # P /\ Working(f_fil[j]) # Q
            /\ Filname(f_fil[j]) # P /\ Filname(f_fil[j]) # Q
        BY <1>1, <2>2, <3>3, AtApart
      <4>3. Moved(j)' = Moved(j) /\ Moved(j) # P /\ Moved(j) # Q
        BY <3>1, <4>1, <4>2 DEF Moved
      <4> QED BY <2>1, <2>5, <4>1, <4>2, <4>3
    <3> QED BY <3>2, <3>3
  <2>7. InStep'
    <3>1. \A i, j \in Beams : /\ Moved(i)' \in DOMAIN files'
                              /\ files'[Moved(i)'] = files'[Moved(j)']
                              /\ j < out_beam' => Working(f_fil'[j]) \notin DOMAIN files'
      BY <1>1, <2>1, <2>6
    <3> QED BY <1>1, <3>1 DEF InStep, Working, Path
  <2>8. ASSUME NEW p \in DOMAIN files', ~Busy(p)'
        PROVE  Agreed(p)'
    <3>1. p.stamp # f_fil[0].stamp
      BY <1>1, <1>3, <2>8 DEF Busy, HasNames, NoName
    <3>2. p # P /\ p # Q
      BY <1>1, <2>2, <3>1, AtIs
    <3>3. Agreed(p)
      BY <1>1, <2>5, <3>1, <3>2 DEF StepInv, Busy
    <3>4. \A j \in Beams : At(j, p.stamp, p.ext) # P /\ At(j, p.stamp, p.ext) # Q
      BY <1>1, <2>2, <3>1, AtApart
    <3> QED BY <1>1, <2>5, <3>2, <3>3, <3>4, KeepAgreed
  <2> QED BY <2>7, <2>8 DEF StepInv
<1> QED BY <1>2, <1>3

LEMMA StepFree ==
  ASSUME BenchTypeOK, BenchStart, FlagInv, NamesInv, StepInv, start_file, OutputSteps, FreeOutput
  PROVE  StepInv'
<1>1. /\ out_pc = "free" \/ (out_pc = "rename" /\ out_beam = N_BEAM_PER_PACK)
      /\ out_pc' = "wait" /\ UNCHANGED <<f_fil, beam_ID, files, filb_flag>>
  BY DEF FreeOutput, global_vars, fs_vars
<1>2. HasNames => InStep'
  <2>1. CASE out_pc = "free"
    BY <1>1, <2>1 DEF StepInv, InStep, Working, Path
  <2>2. CASE out_pc = "rename"
    BY <1>1, <2>2 DEF FlagInv, InStep
  <2> QED BY <1>1, <2>1, <2>2
<1>3. ASSUME NEW p \in DOMAIN files
      PROVE  Agreed(p)
  <2>1. CASE Busy(p)
    <3>1. HasNames /\ p.stamp = f_fil[0].stamp /\ out_pc = "rename" /\ out_beam = N_BEAM_PER_PACK
      BY <1>1, <2>1 DEF Busy
    <3>2. \A j \in Beams : j < out_beam
      BY <3>1, OutputConstants DEF Beams
    <3>3. \A i, j \in Beams : /\ Filname(f_fil[i]) \in DOMAIN files
                              /\ files[Filname(f_fil[i])] = files[Filname(f_fil[j])]
                              /\ Working(f_fil[j]) \notin DOMAIN files
      BY <3>1, <3>2 DEF StepInv, InStep, Moved
    <3>4. \A j \in Beams : /\ Working(f_fil[j]) = At(j, f_fil[0].stamp, "fil.working")
                           /\ Filname(f_fil[j]) = At(j, f_fil[0].stamp, "fil")
      BY <3>1, CurrentAt
    <3>5. PICK i \in Beams : p = At(i, p.stamp, p.ext)
      BY DEF NamesInv
    <3>6. p.ext = "fil"
      <4>1. p.ext \in {"fil", "fil.working"}
        BY DEF BenchTypeOK, OutputTypeOK
      <4>2. p.ext # "fil.working"
        BY <3>1, <3>3, <3>4, <3>5
      <4> QED BY <4>1, <4>2
    <3>7. p = Filname(f_fil[i]) /\ \A j \in Beams : At(j, p.stamp, p.ext) = Filname(f_fil[j])
      BY <3>1, <3>4, <3>5, <3>6
    <3> QED BY <3>3, <3>7 DEF Agreed
  <2>2. CASE ~Busy(p)
    BY <1>1, <2>2 DEF StepInv
  <2> QED BY <2>1, <2>2
<1>4. \A p \in DOMAIN files' : Agreed(p)'
  BY <1>1, <1>3, KeepAgreed
<1> QED BY <1>1, <1>2, <1>4 DEF StepInv, HasNames, NoName

(* Packets of one group rewrite beam_ID with what it holds.                *)
LEMMA OneGroup ==
  ASSUME \A g, h \in BeamGroups : g = h, BenchTypeOK, NamesInv, LaterPacket
  PROVE  beam_ID' = beam_ID
<1>1. PICK g \in BeamGroups : beam_ID = BeamsOfGroup(g)
  BY PacketLeaves DEF NamesInv
<1>2. g \in Nat /\ N_BEAM_PER_PACK \in Nat /\ DOMAIN beam_ID = Beams
  BY OutputConstants, GroupAssumption DEF BenchTypeOK
<1>3. ASSUME NEW source_from \in SourceTypes, NEW group \in BeamGroups,
             NextPacket(source_from, group)
      PROVE  beam_ID' = beam_ID
  <2>1. BeamsOfGroup(group) = beam_ID
    BY <1>1
  <2>2. beam_ID' = [beam_ID EXCEPT ![0] = beam_ID[0]]
    BY <1>3, <2>1 DEF NextPacket
  <2> QED BY <2>2 DEF BenchTypeOK
<1>4. ASSUME NEW j \in Beams \ {0}, NextBeam(j)
      PROVE  FALSE
  <2>1. j \in Beams /\ j - 1 \in Beams /\ j \in Int
    BY <1>2 DEF Beams
  <2>2. beam_ID[j] = g * N_BEAM_PER_PACK + j /\ beam_ID[j - 1] = g * N_BEAM_PER_PACK + (j - 1)
    BY <1>1, <2>1 DEF BeamsOfGroup
  <2>3. g * N_BEAM_PER_PACK \in Int
    BY <1>2
  <2>4. beam_ID[j] = beam_ID[j - 1] + 1
    BY <2>1, <2>2, <2>3
  <2> QED BY <1>4, <2>4 DEF NextBeam
<1> QED BY <1>3, <1>4 DEF LaterPacket

LEMMA AgreeNext ==
  ASSUME MaxFailures = 0, \A g, h \in BeamGroups : g = h,
         BenchInv, AgreeInv, [BenchNext]_bench_vars
  PROVE  AgreeInv'
<1>0. BenchTypeOK /\ BenchStart /\ FlagInv /\ FeedInv
  BY DEF BenchInv
<1>1. CASE OutputSteps
  <2>1. UNCHANGED <<restarts, cleans>>
    BY <1>1 DEF OutputSteps
  <2> SUFFICES ASSUME NamesInv, StepInv
               PROVE  NamesInv' /\ StepInv'
    BY <2>1 DEF AgreeInv
  <2>2. NamesInv'
    BY <1>0, <1>1, NamesThread
  <2>3. CASE ~start_file
    <3>1. OutputWaitError
      BY <1>0, <1>1, <2>3, IdleBefore
    <3> QED BY <2>2, <3>1 DEF OutputWaitError, StepInv
  <2>4. CASE start_file
    <3>1. CASE \/ TakeBlock \/ NameDirectory \/ MakeDirectory \/ StampFiles \/ CheckType
               \/ FormatName \/ WriteCrash \/ OutputWaitError
      BY <1>0, <1>1, <2>2, <2>4, <3>1, StepControl
    <3>2. CASE CreateFile
      BY <1>0, <1>1, <2>2, <2>4, <3>2, StepCreate
    <3>3. CASE OpenFiles
      BY <1>0, <1>1, <2>2, <2>4, <3>3, StepOpen
    <3>4. CASE WriteBeam
      BY <1>0, <1>1, <2>2, <2>4, <3>4, StepWrite
    <3>5. CASE CountBlock
      BY <1>0, <1>1, <2>2, <2>4, <3>5, StepCount
    <3>6. CASE RenameFile
      BY <1>0, <1>1, <2>2, <2>4, <3>6, StepRename
    <3>7. CASE FreeOutput
      BY <1>0, <1>1, <2>2, <2>4, <3>7, StepFree
    <3> QED BY <1>1, <3>1, <3>2, <3>3, <3>4, <3>5, <3>6, <3>7 DEF OutputSteps,
               OutputInternal
  <2> QED BY <2>3, <2>4
<1>2. ASSUME NEW m \in FirstFed, NEW source_from \in SourceTypes, NEW group \in BeamGroups,
             FirstPacket(m, source_from, group)
      PROVE  AgreeInv'
  <2>1. ~start_file /\ start_file' /\ UNCHANGED <<out_private, files, restarts, cleans>>
    BY <1>2 DEF FirstPacket, fs_vars
  <2>2. out_pc \in {"wait", "exited"}
    BY <1>0, <2>1 DEF BenchStart
  <2> SUFFICES ASSUME NamesInv PROVE NamesInv' /\ StepInv'
    BY <2>1 DEF AgreeInv
  <2>3. DOMAIN files = {} /\ f_fil = [j \in Beams |-> NoName] /\ 0 \in Beams
    BY <2>1, OutputConstants DEF NamesInv, Beams
  <2>4. beam_ID' = BeamsOfGroup(group)
    BY <1>2 DEF FirstPacket
  <2>5. ~HasNames'
    BY <2>1, <2>3 DEF out_private, HasNames, NoName
  <2> QED BY <2>1, <2>2, <2>3, <2>4, <2>5 DEF NamesInv, StepInv, out_private, HasNames,
             NoName
<1>3. CASE FeedBlock \/ LaterPacket \/ UNCHANGED bench_vars
  <2> SUFFICES ASSUME NamesInv, StepInv
               PROVE  NamesInv' /\ StepInv'
    <3>1. UNCHANGED <<restarts, cleans>>
      BY <1>3, PacketLeaves DEF FeedBlock, bench_vars
    <3> QED BY <3>1 DEF AgreeInv
  <2>1. /\ UNCHANGED <<out_private, fs_vars, restarts, cleans, start_file, beam_ID>>
        /\ out_sem' = out_sem \/ FeedBlock
    <3>1. CASE LaterPacket
      BY <1>0, <3>1, PacketLeaves, OneGroup DEF output_vars
    <3>2. CASE FeedBlock \/ UNCHANGED bench_vars
      BY <3>2 DEF FeedBlock, bench_vars, out_vars, global_vars, output_vars
    <3> QED BY <1>3, <3>1, <3>2
  <2>2. out_pc = "write" => out_netmcnt'[file_idx] = out_netmcnt[file_idx]
    <3>1. CASE FeedBlock
      <4>1. /\ out_sem[fed % N_OUTPUT_BLOCKS] = FREE
            /\ out_netmcnt' = [out_netmcnt EXCEPT ![fed % N_OUTPUT_BLOCKS] = LastOfBlock(fed + 1)]
        BY <3>1 DEF FeedBlock, wait_free
      <4>2. out_pc = "write" => out_sem[file_idx] = FILLED
        BY <1>0 DEF FeedInv, Holds, Naming
      <4>3. file_idx \in OutBlocks /\ out_netmcnt \in [OutBlocks -> Mcnts]
        BY <1>0 DEF BenchTypeOK, OutputTypeOK
      <4>4. out_pc = "write" => file_idx # fed % N_OUTPUT_BLOCKS
        BY <4>1, <4>2
      <4> QED BY <4>1, <4>3, <4>4
    <3>2. CASE ~FeedBlock
      BY <1>3, <3>2, PacketLeaves DEF bench_vars, out_vars, output_vars
    <3> QED BY <3>1, <3>2
  <2> DEFINE t == time_calculate(file_mcnt)
  <2>3. /\ Dir' = Dir /\ t' = t /\ (HasNames' <=> HasNames)
        /\ \A j, stamp : NameOf(j, stamp)' = NameOf(j, stamp)
        /\ \A j, stamp, ext : At(j, stamp, ext)' = At(j, stamp, ext)
    BY <2>1 DEF time_calculate, Dir, NameOf, At, Path, HasNames, NoName, out_private
  <2>4. NamesInv'
    <3> HIDE DEF t
    <3>1. out_pc = "format" => \A j \in 0 .. out_beam - 1 : f_fil[j] = NameOf(j, t)
      BY DEF NamesInv, t
    <3>2. out_pc' = "format" => \A j \in 0 .. out_beam' - 1 : f_fil'[j] = NameOf(j, t)'
      BY <2>1, <2>3, <3>1 DEF out_private
    <3> QED BY <2>1, <2>3, <3>2 DEF NamesInv, NoName, out_private, fs_vars, t
  <2>5. \A p : (Busy(p)' <=> Busy(p)) /\ (Agreed(p)' <=> Agreed(p))
    BY <2>1, <2>3 DEF Busy, Agreed, out_private, fs_vars
  <2>6. InStep => InStep'
    <3>1. \A j \in Beams : Moved(j)' = Moved(j)
      BY <2>1 DEF Moved, Working, Filname, Path, out_private
    <3>2. out_pc = "write" => \A j \in Beams : Written(j)' = Written(j)
      BY <2>1, <2>2 DEF Written, Working, WithBlock, Path, out_private, fs_vars
    <3>3. /\ out_pc' = out_pc /\ out_beam' = out_beam /\ filb_flag' = filb_flag
          /\ f_fil' = f_fil /\ file_mcnt' = file_mcnt /\ files' = files
      BY <2>1 DEF out_private, fs_vars
    <3>4. \A j \in Beams : Working(f_fil[j])' = Working(f_fil[j])
      BY <3>3 DEF Working, Path
    <3>5. HeaderOnly(file_mcnt)' = HeaderOnly(file_mcnt)
      BY <3>3 DEF HeaderOnly
    <3> QED BY ONLY <3>1, <3>2, <3>3, <3>4, <3>5 DEF InStep
  <2>7. StepInv'
    BY <2>1, <2>3, <2>5, <2>6 DEF StepInv, out_private, fs_vars
  <2> QED BY <2>4, <2>7
<1>4. CASE Restart
  <2>1. restarts' = restarts + 1 /\ cleans' = cleans
    BY <1>4 DEF Restart
  <2> QED BY <2>1 DEF AgreeInv
<1>5. CASE Data_clean
  <2>1. cleans' = cleans + 1 /\ restarts' = restarts
    BY <1>5 DEF Data_clean
  <2> QED BY <2>1 DEF AgreeInv
<1> QED BY <1>1, <1>2, <1>3, <1>4, <1>5 DEF BenchNext, LaterPacket

(* Until the first restart or removal the files of a moment agree in all   *)
(* beams whenever the thread is between two blocks: every path of          *)
(* TL_output_thread.c:229-265 treats the four streams alike.  Assumed: a   *)
(* disk with room, as a write may fail for one beam only, and packets of   *)
(* one group, as the names may be formatted while another group's packet   *)
(* rewrites beam_ID.                                                       *)
THEOREM BeamsInStep ==
  ASSUME MaxFailures = 0, \A g, h \in BeamGroups : g = h
  PROVE  BenchSpec => [](restarts = 0 => BeamsAgree)
<1>1. BenchInit => AgreeInv
  <2> SUFFICES ASSUME BenchInit PROVE AgreeInv
    OBVIOUS
  <2>1. /\ restarts = 0 /\ cleans = 0 /\ ~start_file /\ out_pc = "wait" /\ filb_flag = 1
        /\ DOMAIN files = {} /\ f_fil = [j \in Beams |-> NoName] /\ 0 \in Beams
    BY OutputConstants DEF BenchInit, GlobalsInit, OutputInit, Beams
  <2> QED BY <2>1 DEF AgreeInv, NamesInv, StepInv, InStep, HasNames
<1>2. BenchInv /\ AgreeInv /\ [BenchNext]_bench_vars => AgreeInv'
  BY AgreeNext
<1>3. AgreeInv => (restarts = 0 => BeamsAgree)
  <2> SUFFICES ASSUME AgreeInv, restarts = 0, cleans = 0, out_pc \in {"wait", "free"},
                      NEW p \in DOMAIN files, NEW q \in DOMAIN files,
                      p.stamp = q.stamp, p.ext = q.ext
               PROVE  files[p] = files[q]
    BY DEF BeamsAgree
  <2>1. NamesInv /\ StepInv
    BY DEF AgreeInv
  <2>2. Agreed(p)
    BY <2>1 DEF StepInv, Busy
  <2>3. PICK j \in Beams : q = At(j, p.stamp, p.ext)
    BY <2>1 DEF NamesInv
  <2> QED BY <2>2, <2>3 DEF Agreed
<1> QED BY <1>1, <1>2, <1>3, BenchInvariant, PTL DEF BenchSpec

-----------------------------------------------------------------------------
(***************************************************************************)
(* The net thread.                                                         *)
(***************************************************************************)
USE DEF Blank

(* The history variables only watch: every step is one of the net thread's *)
(* own specification, and the packets are the same.                        *)
LEMMA BenchStepsAreNets == [NetBenchNext]_net_bench_vars => [NetNext]_net_vars
BY DEF NetBenchNext, net_bench_vars, ReceiveCounted, NetNext, NetStep

LEMMA BenchIsNet == NetBenchSpec => NetSpec
<1>1. NetBenchInit => NetInit
  BY DEF NetBenchInit
<1> QED BY <1>1, BenchStepsAreNets, PTL DEF NetBenchSpec, NetSpec

LEMMA BenchNetInv == NetBenchSpec => []NetInv
BY BenchIsNet, NetInvariant, PTL

-----------------------------------------------------------------------------
(* The two ways a packet is received, with what history keeps of it.       *)
LEMMA ReceivedCounted ==
  ASSUME ReceiveCounted
  PROVE  \E m \in Arrivals, s \in SourceTypes, g \in BeamGroups :
           /\ ReceiveExpected(m, s, g) \/ ReceiveUnexpected(m, s, g)
           /\ ParsePacket(m, s, g)
BY DEF ReceiveCounted, Receive, ReceiveExpected, ReceiveUnexpected

(* The count of the thread is what is left of the number of packets; as    *)
(* long as it has not gone round, nothing is hidden.                       *)
WrapInv ==
  /\ received \in Nat /\ hidden \in Int /\ first_mcnt \in Int /\ moved_back \in BOOLEAN
  /\ total_packets_counted = received % CountMod
  /\ start_file <=> received > 0
  /\ received = 0 => /\ miss_pkt = 0 /\ hidden = 0 /\ ~moved_back /\ cur_mcnt = 0
                     /\ net_pc \in {"check0", "check1", "recv", "exited"}
  /\ hidden # 0 \/ moved_back => received > CountMod

(* How far the counters have got at each place.                            *)
DistanceInv ==
  /\ net_pc \in {"recv", "mark"} /\ received > 0 =>
       cur_mcnt - first_mcnt = received + miss_pkt + hidden
  /\ net_pc = "copy" =>
       cur_mcnt + 1 - first_mcnt = received + miss_pkt + hidden
  /\ net_pc \in {"roll_tail", "roll_head", "gap"} =>
       pkt_mcnt + 1 - first_mcnt = received + miss_pkt + hidden
  /\ net_pc \in {"check0", "check1"} => received = 0

(* A positive number of packets that leaves 0 is at least one round.       *)
LEMMA RoundIsLong ==
  ASSUME NEW n \in Nat, n > 0, n % CountMod = 0
  PROVE  n >= CountMod
<1>1. CASE n < CountMod
  <2>1. n \in 0 .. CountMod - 1
    BY <1>1, Constants
  <2>2. n % CountMod = n
    BY <2>1, ModId, Constants
  <2> QED BY <2>2
<1> QED BY <1>1, Constants

LEMMA WrapInit == NetBenchInit => WrapInv /\ DistanceInv
<1> SUFFICES ASSUME NetBenchInit PROVE WrapInv /\ DistanceInv
  OBVIOUS
<1>1. 0 % CountMod = 0
  <2>1. 0 \in 0 .. CountMod - 1
    BY Constants
  <2> QED BY <2>1, ModId, Constants
<1>2. /\ received = 0 /\ hidden = 0 /\ first_mcnt = 0 /\ moved_back = FALSE
      /\ total_packets_counted = 0 /\ ~start_file /\ miss_pkt = 0 /\ cur_mcnt = 0
      /\ net_pc = "check0"
  BY DEF NetBenchInit, NetInit, GlobalsInit
<1>3. WrapInv
  <2>1. received \in Nat /\ hidden \in Int /\ first_mcnt \in Int
    BY <1>2
  <2>2. total_packets_counted = received % CountMod
    BY <1>1, <1>2
  <2>3. ~(received > 0) /\ ~(hidden # 0)
    BY <1>2
  <2>4. moved_back \in BOOLEAN /\ ~moved_back
    BY <1>2, Zenon
  <2> QED BY <1>2, <2>1, <2>2, <2>3, <2>4 DEF WrapInv
<1>4. DistanceInv
  BY <1>2 DEF DistanceInv
<1> QED BY <1>3, <1>4

(* What is known after any packet.                                         *)
LEMMA ReceiveWraps ==
  ASSUME NetInv, WrapInv, ReceiveCounted, NEW m \in Arrivals, NEW s \in SourceTypes,
         NEW g \in BeamGroups, ParsePacket(m, s, g)
  PROVE  /\ m \in Mcnts /\ pkt_mcnt' = m /\ cur_mcnt' = CurMcntAt(m)
         /\ received' = received + 1 /\ received' \in Nat /\ received' > 0
         /\ start_file'
         /\ total_packets_counted' = received' % CountMod
         /\ received = 0 =>
              first_mcnt' = m /\ hidden' = hidden /\ moved_back' = moved_back /\ cur_mcnt' = m
         /\ received > 0 /\ total_packets_counted = 0 =>
              /\ first_mcnt' = first_mcnt
              /\ hidden' = hidden + (m - cur_mcnt)
              /\ moved_back' = (moved_back \/ m - cur_mcnt < 0)
              /\ cur_mcnt' = m
              /\ received >= CountMod
         /\ total_packets_counted # 0 =>
              /\ received > 0
              /\ first_mcnt' = first_mcnt
              /\ hidden' = hidden
              /\ moved_back' = moved_back
              /\ cur_mcnt' = cur_mcnt
<1>1. m \in Mcnts
  BY ParseInv
<1>2. received \in Nat /\ hidden \in Int /\ moved_back \in BOOLEAN
  BY DEF WrapInv
<1>3. received' = received + 1
  BY DEF ReceiveCounted
<1>4. total_packets_counted' = received' % CountMod
  <2>1. ((received % CountMod) + 1) % CountMod = (received + 1) % CountMod
    <3>1. received \in Int /\ CountMod \in Nat \ {0}
      BY <1>2, Constants
    <3> QED BY ONLY <3>1, ModNext
  <2>2. total_packets_counted' = (total_packets_counted + 1) % CountMod
    BY DEF ParsePacket
  <2>3. total_packets_counted = received % CountMod
    BY DEF WrapInv
  <2> QED BY <1>3, <2>1, <2>2, <2>3
<1>5. received = 0 => total_packets_counted = 0
  <2>1. 0 % CountMod = 0
    BY ModId, Constants
  <2> QED BY <2>1 DEF WrapInv
<1>6. received > 0 /\ total_packets_counted = 0 => received >= CountMod
  BY <1>2, RoundIsLong DEF WrapInv
<1>7. start_file'
  <2>1. start_file' = (start_file \/ total_packets_counted = 0)
    BY DEF ParsePacket
  <2>2. start_file <=> received > 0
    BY DEF WrapInv
  <2>3. received = 0 \/ received > 0
    BY <1>2
  <2> QED BY <1>5, <2>1, <2>2, <2>3
<1>8. pkt_mcnt' = m /\ cur_mcnt' = CurMcntAt(m)
  BY DEF ParsePacket
<1>9. total_packets_counted # 0 => received > 0 /\ cur_mcnt' = cur_mcnt
  BY <1>2, <1>5, <1>8 DEF CurMcntAt
<1>10. total_packets_counted = 0 => cur_mcnt' = m
  BY <1>8 DEF CurMcntAt
<1>11. received = 0 => first_mcnt' = m /\ hidden' = hidden /\ moved_back' = moved_back
  BY <1>8 DEF ReceiveCounted
<1>12. received # 0 =>
         /\ first_mcnt' = first_mcnt
         /\ total_packets_counted = 0 => /\ hidden' = hidden + (m - cur_mcnt)
                                         /\ moved_back' = (moved_back \/ m - cur_mcnt < 0)
         /\ total_packets_counted # 0 => /\ hidden' = hidden + 0
                                         /\ moved_back' = (moved_back \/ 0 < 0)
  BY <1>8 DEF ReceiveCounted
<1>13. hidden + 0 = hidden /\ ~(0 < 0)
  BY <1>2
<1>14. total_packets_counted # 0 => hidden' = hidden /\ (moved_back' = moved_back)
  BY <1>2, <1>9, <1>12, <1>13
<1> QED BY <1>1, <1>2, <1>3, <1>4, <1>5, <1>6, <1>7, <1>8, <1>9, <1>10, <1>11, <1>12, <1>14

(* A packet gets the thread to one of its four continuations, and its      *)
(* counter and what was missed before it are in the sum at once.           *)
LEMMA ReceiveKeepsDistance ==
  ASSUME NetInv, WrapInv, DistanceInv, ReceiveCounted
  PROVE  WrapInv' /\ DistanceInv'
<1>1. PICK m \in Arrivals, s \in SourceTypes, g \in BeamGroups :
        /\ ReceiveExpected(m, s, g) \/ ReceiveUnexpected(m, s, g)
        /\ ParsePacket(m, s, g)
  BY ReceivedCounted
<1>2. /\ m \in Mcnts /\ pkt_mcnt' = m /\ cur_mcnt' = CurMcntAt(m)
      /\ received' = received + 1 /\ received' \in Nat /\ received' > 0
      /\ start_file'
      /\ total_packets_counted' = received' % CountMod
  BY <1>1, ReceiveWraps
<1>3. received = 0 =>
        first_mcnt' = m /\ hidden' = hidden /\ moved_back' = moved_back /\ cur_mcnt' = m
  BY <1>1, ReceiveWraps
<1>4. received > 0 /\ total_packets_counted = 0 =>
        /\ first_mcnt' = first_mcnt
        /\ hidden' = hidden + (m - cur_mcnt)
        /\ moved_back' = (moved_back \/ m - cur_mcnt < 0)
        /\ cur_mcnt' = m
        /\ received >= CountMod
  BY <1>1, ReceiveWraps
<1>5. total_packets_counted # 0 =>
        /\ received > 0
        /\ first_mcnt' = first_mcnt
        /\ hidden' = hidden
        /\ moved_back' = moved_back
        /\ cur_mcnt' = cur_mcnt
  BY <1>1, ReceiveWraps
<1>6. /\ received \in Nat /\ hidden \in Int /\ first_mcnt \in Int /\ moved_back \in BOOLEAN
      /\ received = 0 => miss_pkt = 0 /\ hidden = 0 /\ ~moved_back
      /\ hidden # 0 \/ moved_back => received > CountMod
  BY DEF WrapInv
<1>7. /\ cur_mcnt \in Int /\ miss_pkt \in Int /\ m \in Int /\ cur_mcnt' \in Int
      /\ CountMod \in Nat
  BY <1>1, <1>2, ParseInv, Constants DEF NetInv, NetTypeOK, Mcnts
<1>8. received > 0 => cur_mcnt - first_mcnt = received + miss_pkt + hidden
  BY <1>1 DEF DistanceInv, ParsePacket
<1>9. hidden' \in Int /\ first_mcnt' \in Int
  BY <1>3, <1>4, <1>5, <1>6, <1>7
<1>10. moved_back' \in BOOLEAN
  <2>1. received = 0 \/ received > 0
    BY <1>6
  <2> QED BY <2>1, <1>3, <1>4, <1>5, <1>6, Zenon
<1>11. hidden' # 0 \/ moved_back' => received' > CountMod
  <2>1. CASE received = 0
    BY <2>1, <1>3, <1>6
  <2>2. CASE received > 0 /\ total_packets_counted = 0
    BY <2>2, <1>2, <1>4, <1>6, <1>7
  <2>3. CASE total_packets_counted # 0
    BY <2>3, <1>2, <1>5, <1>6, <1>7
  <2> QED BY <2>1, <2>2, <2>3, <1>6
<1>12. WrapInv'
  BY <1>2, <1>9, <1>10, <1>11 DEF WrapInv
<1>13. cur_mcnt' + 1 - first_mcnt' = received' + miss_pkt + hidden'
  <2>1. CASE received = 0
    BY <2>1, <1>2, <1>3, <1>6, <1>7
  <2>2. CASE received > 0 /\ total_packets_counted = 0
    BY <2>2, <1>2, <1>4, <1>6, <1>7, <1>8
  <2>3. CASE total_packets_counted # 0
    BY <2>3, <1>2, <1>5, <1>6, <1>7, <1>8
  <2> QED BY <2>1, <2>2, <2>3, <1>6
<1>14. CASE ReceiveExpected(m, s, g)
  <2>1. net_pc' = "copy" /\ miss_pkt' = miss_pkt
    BY <1>14 DEF ReceiveExpected
  <2> QED BY <1>12, <1>13, <2>1 DEF DistanceInv
<1>15. CASE ReceiveUnexpected(m, s, g)
  <2>1. /\ net_pc' \in {"roll_tail", "gap", "exited"}
        /\ miss_pkt' = miss_pkt + (m - cur_mcnt')
    BY <1>2, <1>15 DEF ReceiveUnexpected
  <2>2. m + 1 - first_mcnt' = received' + miss_pkt' + hidden'
    BY <1>2, <1>7, <1>9, <1>13, <2>1
  <2> QED BY <1>2, <1>12, <2>1, <2>2 DEF DistanceInv
<1> QED BY <1>1, <1>14, <1>15

(* The rest of the handler moves the expected counter to where the sum     *)
(* already is.                                                             *)
LEMMA WrapStep ==
  ASSUME NetInv, WrapInv, DistanceInv, [NetBenchNext]_net_bench_vars
  PROVE  WrapInv' /\ DistanceInv'
<1>1. CASE ReceiveCounted
  BY <1>1, ReceiveKeepsDistance
<1> SUFFICES ASSUME UNCHANGED history,
                    \/ NetInternal
                    \/ NetWaitError
                    \/ \E b \in InBlocks : FreeBlock(b)
                    \/ UNCHANGED net_vars
             PROVE  WrapInv' /\ DistanceInv'
  BY <1>1 DEF NetBenchNext, net_bench_vars
<1>2. /\ received' = received /\ first_mcnt' = first_mcnt
      /\ hidden' = hidden /\ moved_back' = moved_back
  BY DEF history
<1>3. /\ cur_mcnt \in Int /\ pkt_mcnt \in Int /\ miss_pkt \in Int
      /\ received \in Nat /\ hidden \in Int /\ first_mcnt \in Int
  BY DEF NetInv, NetTypeOK, Mcnts, WrapInv
<1>4. /\ start_file' = start_file /\ total_packets_counted' = total_packets_counted
      /\ miss_pkt' = miss_pkt
  BY DEF NetInternal, CheckFirstTwoBlocks, CopyPacket, MarkBlock, ZeroTail, ZeroHead,
     ZeroGap, NetWaitError, FreeBlock, net_vars, global_vars, net_private
<1>5. received = 0 => /\ cur_mcnt' = cur_mcnt
                      /\ net_pc' \in {"check0", "check1", "recv", "exited"}
  BY DEF WrapInv, NetInternal, CheckFirstTwoBlocks, CopyPacket, MarkBlock, ZeroTail,
     ZeroHead, ZeroGap, NetWaitError, FreeBlock, net_vars, net_private
<1>6. WrapInv'
  BY <1>2, <1>4, <1>5 DEF WrapInv
<1>7. DistanceInv'
  <2>1. CASE CheckFirstTwoBlocks
    BY <2>1, <1>2, <1>4 DEF CheckFirstTwoBlocks, DistanceInv
  <2>2. CASE CopyPacket
    BY <2>2, <1>2, <1>3, <1>4 DEF CopyPacket, DistanceInv
  <2>3. CASE MarkBlock
    BY <2>3, <1>2, <1>4 DEF MarkBlock, DistanceInv
  <2>4. CASE ZeroTail
    BY <2>4, <1>2, <1>4 DEF ZeroTail, DistanceInv
  <2>5. CASE ZeroHead \/ ZeroGap
    <3>1. cur_mcnt' = pkt_mcnt + 1 /\ net_pc' = "recv" /\ net_pc \in {"roll_head", "gap"}
      BY <2>5, <1>3, NextSpectrumIs DEF ZeroHead, ZeroGap
    <3>2. pkt_mcnt + 1 - first_mcnt = received + miss_pkt + hidden
      BY <3>1 DEF DistanceInv
    <3>3. cur_mcnt' - first_mcnt' = received' + miss_pkt' + hidden'
      BY <3>1, <3>2, <1>2, <1>3, <1>4
    <3> QED BY <3>1, <3>3 DEF DistanceInv
  <2>6. CASE NetWaitError
    BY <2>6 DEF NetWaitError, DistanceInv
  <2>7. CASE (\E b \in InBlocks : FreeBlock(b)) \/ UNCHANGED net_vars
    BY <2>7, <1>2 DEF FreeBlock, net_vars, net_private, DistanceInv
  <2> QED BY <2>1, <2>2, <2>3, <2>4, <2>5, <2>6, <2>7 DEF NetInternal
<1> QED BY <1>6, <1>7

(* Whatever is lost and however often the 32-bit count comes back to 0,    *)
(* packets received, packets missed and counters hidden at those moments   *)
(* are all the counters since the first packet; nothing is hidden before   *)
(* the count has gone round.                                               *)
THEOREM PacketsAccountedForAcrossWraps == NetBenchSpec => []AccountingAcrossWraps
<1>1. WrapInv /\ DistanceInv => AccountingAcrossWraps
  BY DEF WrapInv, DistanceInv, AccountingAcrossWraps
<1> QED BY <1>1, WrapInit, WrapStep, BenchNetInv, PTL DEF NetBenchSpec

-----------------------------------------------------------------------------
(* What is laid out in a block, cur, up to slot laid, against the block    *)
(* published before it and the counter expected next.                      *)
Blocks == [Slots -> Mcnts \cup {Blank}]

LaidOut(cur, before, laid, bound) ==
  /\ \A i, j \in Slots :
       i < j /\ j < laid /\ cur[i] # Blank /\ cur[j] # Blank => cur[i] < cur[j]
  /\ \A i, j \in Slots :
       j < laid /\ before[i] # Blank /\ cur[j] # Blank => before[i] < cur[j]
  /\ \A j \in Slots : j < laid /\ cur[j] # Blank => cur[j] < bound
  /\ \A i \in Slots : before[i] # Blank => before[i] < bound

(* Between the two halves of a roll nothing is laid out in the new block,  *)
(* although the offset says how much of it will be blank.                  *)
Laid == IF net_pc = "roll_head" THEN 0 ELSE offset

(* As long as the counter was never moved backwards.                       *)
OrderInv ==
  net_pc # "exited" /\ ~moved_back =>
    /\ LaidOut(in_data[net_idx], in_data[Preceding(net_idx)], Laid, cur_mcnt)
    /\ net_pc \in {"copy", "roll_tail", "roll_head", "gap"} => cur_mcnt <= pkt_mcnt
    /\ net_pc = "mark" => cur_mcnt = pkt_mcnt + 1

(* Nothing is out of order in blocks that are empty.                       *)
LEMMA LaidNothing ==
  ASSUME NEW cur, NEW before, NEW bound, \A i \in Slots : before[i] = Blank
  PROVE  LaidOut(cur, before, 0, bound)
BY Constants DEF LaidOut, Slots

(* The expected counter may move on.                                       *)
LEMMA LaidBelow ==
  ASSUME NEW cur \in Blocks, NEW before \in Blocks, NEW laid \in Int,
         NEW bound \in Int, LaidOut(cur, before, laid, bound),
         NEW more \in Int, bound <= more
  PROVE  LaidOut(cur, before, laid, more)
<1>1. \A i \in Slots : cur[i] \in Int /\ before[i] \in Int
  BY Constants DEF Blocks, Mcnts
<1>2. \A v \in Int : v < bound => v < more
  OBVIOUS
<1> QED BY <1>1, <1>2 DEF LaidOut

(* The expected packet at the next slot.                                   *)
LEMMA LaidPacket ==
  ASSUME NEW cur \in Blocks, NEW before \in Blocks, NEW laid \in Slots,
         NEW m \in Mcnts, LaidOut(cur, before, laid, m)
  PROVE  LaidOut([cur EXCEPT ![laid] = m], before, laid + 1, m + 1)
<1>1. PICK new \in Blocks : new = [cur EXCEPT ![laid] = m]
  BY DEF Blocks
<1>2. \A i \in Slots : /\ cur[i] \in Int /\ before[i] \in Int /\ i \in Int
                       /\ i # laid => new[i] = cur[i]
                       /\ i = laid => new[i] = m
  BY <1>1, Constants DEF Blocks, Mcnts, Slots
<1>3. \A j \in Slots : j < laid + 1 => j < laid \/ j = laid
  BY <1>2, Constants DEF Slots
<1>4. \A i, j \in Slots : i < j /\ j < laid => i # laid /\ j # laid
  BY Constants DEF Slots
<1>5. \A i, j \in Slots : i < j /\ j = laid => i < laid
  OBVIOUS
<1>6. \A v \in Int : v < m => v < m + 1
  BY Constants DEF Mcnts
<1>7. m < m + 1 /\ \A j \in Slots : ~(j < j)
  BY Constants DEF Mcnts, Slots
<1>8. \A i, j \in Slots : i < j /\ j < laid + 1 /\ new[i] # Blank /\ new[j] # Blank
        => new[i] < new[j]
  BY <1>2, <1>3, <1>4, <1>5, <1>7 DEF LaidOut
<1>9. \A i, j \in Slots : j < laid + 1 /\ before[i] # Blank /\ new[j] # Blank
        => before[i] < new[j]
  BY <1>2, <1>3, <1>7 DEF LaidOut
<1>10. \A j \in Slots : j < laid + 1 /\ new[j] # Blank => new[j] < m + 1
  BY <1>2, <1>3, <1>6, <1>7 DEF LaidOut
<1>11. \A i \in Slots : before[i] # Blank => before[i] < m + 1
  BY <1>2, <1>6 DEF LaidOut
<1> QED BY <1>1, <1>8, <1>9, <1>10, <1>11 DEF LaidOut

(* Blanking slots leaves the others as they are.                           *)
LEMMA LaidBlank ==
  ASSUME NEW cur \in Blocks, NEW before \in Blocks, NEW laid \in Int,
         NEW bound \in Int, LaidOut(cur, before, laid, bound),
         NEW lo \in Int, NEW hi \in Int
  PROVE  LaidOut(ZeroRange(cur, lo, hi), before, laid, bound)
<1>1. \A i \in Slots : \/ ZeroRange(cur, lo, hi)[i] = Blank
                       \/ ZeroRange(cur, lo, hi)[i] = cur[i]
  BY DEF ZeroRange
<1> QED BY <1>1 DEF LaidOut

(* Slots that are blanked count as laid out.                               *)
LEMMA LaidBlankOn ==
  ASSUME NEW cur \in Blocks, NEW before \in Blocks, NEW laid \in Int,
         NEW bound \in Int, LaidOut(cur, before, laid, bound), NEW hi \in Int
  PROVE  LaidOut(ZeroRange(cur, laid, hi), before, hi, bound)
<1>1. \A i \in Slots : \/ ~(i < hi)
                       \/ i < laid /\ ZeroRange(cur, laid, hi)[i] = cur[i]
                       \/ ZeroRange(cur, laid, hi)[i] = Blank
  BY Constants DEF ZeroRange, Slots
<1>2. \A i, j \in Slots : i < j /\ j < hi => i < hi
  BY Constants DEF Slots
<1> QED BY <1>1, <1>2 DEF LaidOut

(* A complete block is the one before the next.                            *)
LEMMA LaidTurn ==
  ASSUME NEW cur, NEW before, NEW bound, NEW next,
         LaidOut(cur, before, N_SPEC_BUFF, bound)
  PROVE  LaidOut(next, cur, 0, bound)
BY Constants DEF LaidOut, Slots

(* What a complete block is to its reader.                                 *)
LEMMA LaidComplete ==
  ASSUME NEW cur \in Blocks, NEW before \in Blocks, NEW bound \in Int,
         LaidOut(cur, before, N_SPEC_BUFF, bound), NEW last \in Mcnts, bound <= last + 1
  PROVE  Increasing(cur) /\ Precedes(before, cur) /\ \A s \in Slots : cur[s] <= last
<1>1. \A i \in Slots : i < N_SPEC_BUFF /\ cur[i] \in Int
  BY Constants DEF Slots, Blocks, Mcnts
<1>2. \A s \in Slots : cur[s] <= last
  BY <1>1, Constants DEF LaidOut, Mcnts
<1> QED BY <1>1, <1>2 DEF LaidOut, Increasing, Precedes

-----------------------------------------------------------------------------
(* The ring has one block before each.                                     *)
LEMMA FollowingIs ==
  ASSUME NEW b \in InBlocks
  PROVE  Following(b, N_INPUT_BLOCKS) = IF b + 1 = N_INPUT_BLOCKS THEN 0 ELSE b + 1
BY ModSucc, Constants DEF Following, InBlocks

LEMMA PrecedingIs ==
  ASSUME NEW b \in InBlocks
  PROVE  /\ Preceding(b) \in InBlocks
         /\ Following(Preceding(b), N_INPUT_BLOCKS) = b
         /\ Preceding(b) # b
<1>1. \E p \in InBlocks : Following(p, N_INPUT_BLOCKS) = b
  <2>1. CASE b = 0
    <3>1. N_INPUT_BLOCKS - 1 \in InBlocks
      BY Constants DEF InBlocks
    <3> QED BY <2>1, <3>1, FollowingIs, Constants
  <2>2. CASE b # 0
    <3>1. b - 1 \in InBlocks /\ b - 1 + 1 = b /\ b # N_INPUT_BLOCKS
      BY <2>2, Constants DEF InBlocks
    <3> QED BY <3>1, FollowingIs
  <2> QED BY <2>1, <2>2
<1>2. Preceding(b) \in InBlocks /\ Following(Preceding(b), N_INPUT_BLOCKS) = b
  BY <1>1 DEF Preceding
<1>3. Following(b, N_INPUT_BLOCKS) # b
  BY FollowingIs, Constants DEF InBlocks
<1> QED BY <1>2, <1>3

LEMMA PrecedingFollowing ==
  ASSUME NEW b \in InBlocks
  PROVE  Preceding(Following(b, N_INPUT_BLOCKS)) = b
<1>1. PICK p \in InBlocks : p = Preceding(Following(b, N_INPUT_BLOCKS))
  BY FollowingInRing, PrecedingIs
<1>2. Following(p, N_INPUT_BLOCKS) = Following(b, N_INPUT_BLOCKS)
  BY <1>1, FollowingInRing, PrecedingIs
<1>3. p = b
  BY <1>2, FollowingIs, Constants DEF InBlocks
<1> QED BY <1>1, <1>3

-----------------------------------------------------------------------------
(* The types the order needs, at once.                                     *)
LEMMA OrderTypes ==
  ASSUME NetInv
  PROVE  /\ in_data \in [InBlocks -> Blocks]
         /\ \A b \in InBlocks : in_data[b] \in Blocks
         /\ net_idx \in InBlocks
         /\ Preceding(net_idx) \in InBlocks
         /\ Preceding(net_idx) # net_idx
         /\ offset \in Int /\ offset \in 0 .. N_SPEC_BUFF
         /\ offset # N_SPEC_BUFF \/ net_pc \in {"mark", "exited"}
         /\ cur_mcnt \in Int /\ pkt_mcnt \in Mcnts /\ pkt_mcnt \in Int
         /\ Laid \in Int
<1>1. in_data \in [InBlocks -> Blocks] /\ net_idx \in InBlocks
  BY DEF NetInv, NetTypeOK, Blocks
<1>2. \A b \in InBlocks : in_data[b] \in Blocks
  BY <1>1
<1>3. Preceding(net_idx) \in InBlocks /\ Preceding(net_idx) # net_idx
  BY <1>1, PrecedingIs
<1>4. /\ offset \in Int /\ offset \in 0 .. N_SPEC_BUFF
      /\ cur_mcnt \in Int /\ pkt_mcnt \in Mcnts /\ pkt_mcnt \in Int
  BY Constants DEF NetInv, NetTypeOK, Mcnts
<1>5. offset # N_SPEC_BUFF \/ net_pc \in {"mark", "exited"}
  BY DEF NetInv, NetTypeOK
<1>6. Laid \in Int
  BY <1>4 DEF Laid
<1> QED BY <1>1, <1>2, <1>3, <1>4, <1>5, <1>6

LEMMA OrderInit == NetBenchInit => OrderInv
<1> SUFFICES ASSUME NetBenchInit PROVE OrderInv
  OBVIOUS
<1>1. /\ net_pc = "check0" /\ offset = 0 /\ net_idx = 0
      /\ \A b \in InBlocks, i \in Slots : in_data[b][i] = Blank
  BY DEF NetBenchInit, NetInit, TL_input_databuf_create
<1>2. 0 \in InBlocks
  BY Constants DEF InBlocks
<1>3. Preceding(0) \in InBlocks
  BY <1>2, PrecedingIs
<1>4. LaidOut(in_data[net_idx], in_data[Preceding(net_idx)], 0, cur_mcnt)
  BY <1>1, <1>3, LaidNothing
<1> QED BY <1>1, <1>4 DEF OrderInv, Laid

(* A packet that gets further than the socket without moving the counter   *)
(* backwards is not behind.                                                *)
LEMMA OrderReceive ==
  ASSUME NetInv, WrapInv, OrderInv, ReceiveCounted
  PROVE  OrderInv'
<1> SUFFICES ASSUME net_pc' # "exited", ~moved_back'
             PROVE  OrderInv'
  BY DEF OrderInv
<1>1. PICK m \in Arrivals, s \in SourceTypes, g \in BeamGroups :
        /\ ReceiveExpected(m, s, g) \/ ReceiveUnexpected(m, s, g)
        /\ ParsePacket(m, s, g)
  BY ReceivedCounted
<1>2. /\ m \in Mcnts /\ pkt_mcnt' = m /\ cur_mcnt' = CurMcntAt(m)
      /\ received = 0 => moved_back' = moved_back /\ cur_mcnt' = m
      /\ received > 0 /\ total_packets_counted = 0 =>
           moved_back' = (moved_back \/ m - cur_mcnt < 0) /\ cur_mcnt' = m
      /\ total_packets_counted # 0 => moved_back' = moved_back /\ cur_mcnt' = cur_mcnt
  BY <1>1, ReceiveWraps
<1>3. received \in Nat /\ (received = 0 => cur_mcnt = 0)
  BY DEF WrapInv
<1>4. m \in Int /\ m >= 0 /\ cur_mcnt \in Int
  BY <1>2, OrderTypes, Constants DEF Mcnts
<1>5. ~moved_back /\ cur_mcnt <= cur_mcnt'
  <2>1. CASE received = 0
    BY <2>1, <1>2, <1>3, <1>4
  <2>2. CASE received > 0 /\ total_packets_counted = 0
    <3>1. ~moved_back /\ ~(m - cur_mcnt < 0) /\ cur_mcnt' = m
      BY <2>2, <1>2, Zenon
    <3> QED BY <1>4, <3>1
  <2>3. CASE total_packets_counted # 0
    BY <2>3, <1>2, <1>4
  <2> QED BY <2>1, <2>2, <2>3, <1>3
<1>6. /\ net_pc = "recv" /\ in_data' = in_data /\ net_idx' = net_idx /\ offset' = offset
  BY <1>1 DEF ParsePacket, input_vars
<1>7. /\ net_pc' # "roll_head" /\ net_pc' # "mark"
      /\ cur_mcnt' <= pkt_mcnt'
  <2>1. CASE ReceiveExpected(m, s, g)
    BY <2>1, <1>2, <1>4 DEF ReceiveExpected
  <2>2. CASE ReceiveUnexpected(m, s, g)
    <3>1. m > CurMcntAt(m)
      BY <2>2, UnexpectedAhead
    <3>2. CurMcntAt(m) \in Int
      BY <1>4 DEF CurMcntAt
    <3> QED BY <2>2, <3>1, <3>2, <1>2, <1>4 DEF ReceiveUnexpected
  <2> QED BY <1>1, <2>1, <2>2
<1>8. LaidOut(in_data[net_idx], in_data[Preceding(net_idx)], offset, cur_mcnt)
  BY <1>5, <1>6 DEF OrderInv, Laid
<1>9. cur_mcnt' \in Int
  BY <1>2, <1>4 DEF CurMcntAt
<1>10. LaidOut(in_data[net_idx], in_data[Preceding(net_idx)], offset, cur_mcnt')
  BY <1>5, <1>8, <1>9, OrderTypes, LaidBelow
<1> QED BY <1>6, <1>7, <1>10 DEF OrderInv, Laid

(* When a block is published it is complete, and the next one is empty.    *)
LEMMA OrderMark ==
  ASSUME NetInv, OrderInv, MarkBlock, UNCHANGED history
  PROVE  /\ OrderInv'
         /\ ~moved_back =>
              /\ LaidOut(in_data'[net_idx], in_data[Preceding(net_idx)], N_SPEC_BUFF, cur_mcnt)
              /\ in_data'[net_idx] \in Blocks
              /\ cur_mcnt <= pkt_mcnt + 1
<1>1. /\ net_pc = "mark" /\ net_pc' = "recv" /\ offset' = 0 /\ cur_mcnt' = cur_mcnt
      /\ in_data' = in_data /\ net_idx' = Following(net_idx, N_INPUT_BLOCKS)
  BY DEF MarkBlock, PublishBlock
<1>2. offset = N_SPEC_BUFF /\ moved_back' = moved_back
  BY <1>1 DEF NetInv, NetControl, history
<1>3. ~moved_back => LaidOut(in_data[net_idx], in_data[Preceding(net_idx)], N_SPEC_BUFF, cur_mcnt)
  BY <1>1, <1>2 DEF OrderInv, Laid
<1>4. ~moved_back => cur_mcnt <= pkt_mcnt + 1
  <2>1. ~moved_back => cur_mcnt = pkt_mcnt + 1
    BY <1>1 DEF OrderInv
  <2> QED BY <2>1, OrderTypes
<1>5. Preceding(net_idx') = net_idx
  BY <1>1, OrderTypes, PrecedingFollowing
<1>6. ~moved_back => LaidOut(in_data'[net_idx'], in_data'[Preceding(net_idx')], 0, cur_mcnt')
  BY <1>1, <1>3, <1>5, LaidTurn
<1>7. OrderInv'
  BY <1>1, <1>2, <1>6 DEF OrderInv, Laid
<1> QED BY <1>1, <1>3, <1>4, <1>7, OrderTypes

LEMMA OrderTail ==
  ASSUME NetInv, OrderInv, ZeroTail, UNCHANGED history
  PROVE  /\ OrderInv'
         /\ ~moved_back =>
              /\ LaidOut(in_data'[net_idx], in_data[Preceding(net_idx)], N_SPEC_BUFF, cur_mcnt)
              /\ in_data'[net_idx] \in Blocks
              /\ cur_mcnt <= pkt_mcnt + 1
<1>1. /\ net_pc = "roll_tail" /\ net_pc' = "roll_head" /\ cur_mcnt' = cur_mcnt
      /\ in_data' = [in_data EXCEPT ![net_idx] = ZeroRange(@, offset, N_SPEC_BUFF)]
      /\ net_idx' = Following(net_idx, N_INPUT_BLOCKS) /\ pkt_mcnt' = pkt_mcnt
  BY DEF ZeroTail, PublishBlock
<1>2. moved_back' = moved_back
  BY DEF history
<1>3. /\ in_data'[net_idx] = ZeroRange(in_data[net_idx], offset, N_SPEC_BUFF)
      /\ in_data'[net_idx] \in Blocks
  BY <1>1, OrderTypes, ZeroRangeType DEF Blocks
<1>4. ~moved_back => LaidOut(in_data'[net_idx], in_data[Preceding(net_idx)], N_SPEC_BUFF, cur_mcnt)
  <2>1. ~moved_back => LaidOut(in_data[net_idx], in_data[Preceding(net_idx)], offset, cur_mcnt)
    BY <1>1 DEF OrderInv, Laid
  <2>2. N_SPEC_BUFF \in Int
    BY Constants
  <2> QED BY <1>3, <2>1, <2>2, OrderTypes, LaidBlankOn
<1>5. ~moved_back => cur_mcnt <= pkt_mcnt /\ cur_mcnt <= pkt_mcnt + 1
  <2>1. ~moved_back => cur_mcnt <= pkt_mcnt
    BY <1>1 DEF OrderInv
  <2> QED BY <2>1, OrderTypes
<1>6. Preceding(net_idx') = net_idx
  BY <1>1, OrderTypes, PrecedingFollowing
<1>7. ~moved_back => LaidOut(in_data'[net_idx'], in_data'[Preceding(net_idx')], 0, cur_mcnt')
  BY <1>1, <1>4, <1>6, LaidTurn
<1>8. OrderInv'
  BY <1>1, <1>2, <1>5, <1>7 DEF OrderInv, Laid
<1> QED BY <1>3, <1>4, <1>5, <1>8

LEMMA OrderCopy ==
  ASSUME NetInv, OrderInv, CopyPacket, UNCHANGED history
  PROVE  OrderInv'
<1> SUFFICES ASSUME ~moved_back PROVE OrderInv'
  BY DEF OrderInv, history
<1>1. /\ net_pc = "copy" /\ net_pc' \in {"mark", "recv"} /\ net_idx' = net_idx
      /\ in_data' = [in_data EXCEPT ![net_idx][offset] = pkt_mcnt]
      /\ offset' = offset + 1 /\ cur_mcnt' = cur_mcnt + 1 /\ pkt_mcnt' = pkt_mcnt
  BY DEF CopyPacket
<1>2. cur_mcnt = pkt_mcnt /\ offset \in Slots
  BY <1>1, OrderTypes, Constants DEF NetInv, NetControl, Slots
<1>3. /\ in_data'[net_idx] = [in_data[net_idx] EXCEPT ![offset] = pkt_mcnt]
      /\ in_data'[Preceding(net_idx)] = in_data[Preceding(net_idx)]
  BY <1>1, OrderTypes
<1>4. LaidOut(in_data[net_idx], in_data[Preceding(net_idx)], offset, pkt_mcnt)
  BY <1>1, <1>2 DEF OrderInv, Laid
<1>5. LaidOut(in_data'[net_idx], in_data'[Preceding(net_idx)], offset + 1, pkt_mcnt + 1)
  BY <1>2, <1>3, <1>4, OrderTypes, LaidPacket
<1> QED BY <1>1, <1>2, <1>5 DEF OrderInv, Laid

(* Blanking a start of the block: of the new one after a roll, or of the   *)
(* one being laid out.                                                     *)
LEMMA OrderBlank ==
  ASSUME NetInv, OrderInv, ZeroHead \/ ZeroGap, UNCHANGED history
  PROVE  OrderInv'
<1> SUFFICES ASSUME ~moved_back PROVE OrderInv'
  BY DEF OrderInv, history
<1>1. /\ net_pc' = "recv" /\ net_idx' = net_idx /\ offset' = offset
      /\ cur_mcnt' = pkt_mcnt + 1
  BY NextSpectrumIs, OrderTypes DEF ZeroHead, ZeroGap
<1>2. cur_mcnt <= cur_mcnt' /\ cur_mcnt' \in Int
  <2>1. cur_mcnt <= pkt_mcnt
    BY DEF OrderInv, ZeroHead, ZeroGap
  <2> QED BY <1>1, <2>1, OrderTypes
<1>3. /\ in_data'[net_idx] \in Blocks
      /\ in_data'[Preceding(net_idx)] = in_data[Preceding(net_idx)]
      /\ LaidOut(in_data'[net_idx], in_data[Preceding(net_idx)], offset, cur_mcnt)
  <2>1. CASE ZeroHead
    <3>1. /\ in_data' = [in_data EXCEPT ![net_idx] = ZeroRange(@, 0, offset)]
          /\ net_pc = "roll_head"
      BY <2>1 DEF ZeroHead
    <3>2. in_data'[net_idx] = ZeroRange(in_data[net_idx], 0, offset)
      BY <3>1, OrderTypes
    <3>3. LaidOut(in_data[net_idx], in_data[Preceding(net_idx)], 0, cur_mcnt)
      BY <3>1 DEF OrderInv, Laid
    <3>4. LaidOut(in_data'[net_idx], in_data[Preceding(net_idx)], offset, cur_mcnt)
      BY <3>2, <3>3, OrderTypes, LaidBlankOn
    <3> QED BY <3>1, <3>2, <3>4, OrderTypes, ZeroRangeType DEF Blocks
  <2>2. CASE ZeroGap
    <3>1. /\ in_data' = [in_data EXCEPT ![net_idx] = ZeroRange(@, 0, miss_size)]
          /\ net_pc = "gap"
      BY <2>2 DEF ZeroGap
    <3>2. in_data'[net_idx] = ZeroRange(in_data[net_idx], 0, miss_size)
      BY <3>1, OrderTypes
    <3>3. LaidOut(in_data[net_idx], in_data[Preceding(net_idx)], offset, cur_mcnt)
      BY <3>1 DEF OrderInv, Laid
    <3>4. miss_size \in Int
      BY OrderTypes, ModRange, Constants DEF miss_size
    <3>5. LaidOut(in_data'[net_idx], in_data[Preceding(net_idx)], offset, cur_mcnt)
      BY <3>2, <3>3, <3>4, OrderTypes, LaidBlank
    <3> QED BY <3>1, <3>2, <3>5, OrderTypes, ZeroRangeType DEF Blocks
  <2> QED BY <2>1, <2>2
<1>4. LaidOut(in_data'[net_idx], in_data'[Preceding(net_idx)], offset, cur_mcnt')
  BY <1>2, <1>3, OrderTypes, LaidBelow
<1> QED BY <1>1, <1>4 DEF OrderInv, Laid

LEMMA OrderStep ==
  ASSUME NetInv, WrapInv, OrderInv, [NetBenchNext]_net_bench_vars
  PROVE  OrderInv'
<1>1. CASE ReceiveCounted
  BY <1>1, OrderReceive
<1> SUFFICES ASSUME UNCHANGED history,
                    \/ NetInternal
                    \/ NetWaitError
                    \/ \E b \in InBlocks : FreeBlock(b)
                    \/ UNCHANGED net_vars
             PROVE  OrderInv'
  BY <1>1 DEF NetBenchNext, net_bench_vars
<1>2. CASE CheckFirstTwoBlocks
  BY <1>2 DEF CheckFirstTwoBlocks, OrderInv, Laid, history, input_vars
<1>3. CASE NetWaitError
  BY <1>3 DEF NetWaitError, OrderInv
<1>4. CASE (\E b \in InBlocks : FreeBlock(b)) \/ UNCHANGED net_vars
  BY <1>4 DEF FreeBlock, net_vars, net_private, input_vars, OrderInv, Laid, history
<1> QED BY <1>2, <1>3, <1>4, OrderCopy, OrderMark, OrderTail, OrderBlank DEF NetInternal

(* Blocks get to the reader of the ring in the order of their counters,    *)
(* each in order and none with a packet later than its header says,        *)
(* whatever is lost and repaired and for however long the thread runs;     *)
(* only a late packet at the very moment the count has gone round can      *)
(* upset it.                                                               *)
THEOREM BlocksInOrder == NetBenchSpec => PublishedInOrder
<1> DEFINE InOrder ==
      \A b \in InBlocks : in_sem[b] = FREE /\ in_sem'[b] = FILLED /\ ~moved_back =>
        /\ Increasing(in_data'[b])
        /\ Precedes(in_data[Preceding(b)], in_data'[b])
        /\ \A s \in Slots : in_data'[b][s] <= in_netmcnt'[b]
<1>1. NetInv /\ OrderInv /\ [NetBenchNext]_net_bench_vars => [InOrder]_net_bench_vars
  <2> SUFFICES ASSUME NetInv, OrderInv, NetBenchNext, NEW b \in InBlocks,
                      in_sem[b] = FREE, in_sem'[b] = FILLED, ~moved_back
               PROVE  /\ Increasing(in_data'[b])
                      /\ Precedes(in_data[Preceding(b)], in_data'[b])
                      /\ \A s \in Slots : in_data'[b][s] <= in_netmcnt'[b]
    OBVIOUS
  <2>1. (MarkBlock \/ ZeroTail) /\ UNCHANGED history
    <3>1. in_sem' # in_sem
      OBVIOUS
    <3>2. ~(\E p \in InBlocks : FreeBlock(p))
      BY DEF FreeBlock, set_free, NetInv, NetTypeOK
    <3>3. ~Receive
      BY <3>1 DEF Receive, ReceiveExpected, ReceiveUnexpected, ParsePacket, input_vars
    <3>4. ~CheckFirstTwoBlocks /\ ~NetWaitError /\ ~CopyPacket /\ ~ZeroHead /\ ~ZeroGap
      BY <3>1 DEF CheckFirstTwoBlocks, NetWaitError, CopyPacket, ZeroHead, ZeroGap,
         input_vars
    <3> QED BY <3>2, <3>3, <3>4 DEF NetBenchNext, ReceiveCounted, NetInternal
  <2>2. b = net_idx /\ in_netmcnt'[b] = pkt_mcnt
    BY <2>1, OrderTypes DEF MarkBlock, ZeroTail, PublishBlock, set_filled, NetInv, NetTypeOK
  <2>3. /\ LaidOut(in_data'[net_idx], in_data[Preceding(net_idx)], N_SPEC_BUFF, cur_mcnt)
        /\ in_data'[net_idx] \in Blocks
        /\ cur_mcnt <= pkt_mcnt + 1
    BY <2>1, OrderMark, OrderTail
  <2>4. /\ Increasing(in_data'[net_idx])
        /\ Precedes(in_data[Preceding(net_idx)], in_data'[net_idx])
        /\ \A s \in Slots : in_data'[net_idx][s] <= pkt_mcnt
    BY <2>3, OrderTypes, LaidComplete
  <2> QED BY <2>2, <2>4
<1>2. NetBenchSpec => [](NetInv /\ WrapInv /\ DistanceInv /\ OrderInv)
  BY BenchNetInv, WrapInit, WrapStep, OrderInit, OrderStep, PTL DEF NetBenchSpec
<1> QED BY <1>1, <1>2, PTL DEF NetBenchSpec, PublishedInOrder
=============================================================================
