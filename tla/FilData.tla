------------------------------ MODULE FilData ------------------------------
(***************************************************************************)
(* The data side of the class FilterBankData: an object whose header has   *)
(* been read (FilHeader) and the calls a program may make on it, in any    *)
(* order: reading samples by fraction or by number, adding up samples and  *)
(* polarisations, subtracting means, dedispersing, forming subbands.       *)
(*                                                                         *)
(* Numbers are abstracted to where they come from.  A file is an array of  *)
(* bits behind its header, and an element of pData is the set of the       *)
(* positions in the file whose values were added up in it, the set of      *)
(* those whose mean was subtracted from it, and how often 256 is missing   *)
(* from it, because readdata takes a byte for a signed char.               *)
(*                                                                         *)
(* Arrays are functions from 0, as in the code; NULL is the empty array.   *)
(***************************************************************************)
EXTENDS Integers, FiniteSetsExt

CONSTANTS Files,              \* records: samples, nifs, nbits, tsamp, order of
                              \* a sample's values, positions of bytes over 127
          Nchans,             \* channels of every file
          Shifts,             \* bins a channel may be shifted by
          Unset,              \* a member nobody has initialized
          MaxCalls            \* bound on the calls

VARIABLES file,               \* what fp was opened on
          open,               \* fp has not been closed
          position,           \* of fp, in bits behind the header
          Nifs, Nbits, Nsamples, Tsamp, StartSample,
          pData,
          Nsubband,
          pSubband,           \* pSubband is not NULL
          result,             \* what the last call returned besides pData
          given,              \* history: what pData was asked and made to be
          outcome,            \* "ok", or the call whose behaviour is undefined
          calls

header_vars == <<Nifs, Nbits, Tsamp>>
file_vars == <<file, open, position>>
sub_vars == <<Nsubband, pSubband>>
data_vars == <<file_vars, header_vars, Nsamples, StartSample, pData, sub_vars,
               result, given, outcome, calls>>

ASSUME FilDataAssumption ==
  /\ Nchans \in Nat \ {0} /\ MaxCalls \in Nat
  /\ Shifts \subseteq Int /\ Unset \notin Int
  /\ \A f \in Files :
       /\ f.samples \in Nat /\ f.nifs \in Nat \ {0} /\ f.tsamp \in Nat \ {0}
       /\ f.nbits \in {1, 8, 16, 32}
       /\ f.order \in {"chan_if", "if_chan"}
       /\ (f.samples * Nchans * f.nifs * f.nbits) % 8 = 0
       /\ f.nbits # 8 => f.high = {}

FileBits(f) == f.samples * Nchans * f.nifs * f.nbits

NoResult == [kind |-> "none"]

(* An element of pData, and the sum of some.                               *)
Zero == [src |-> {}, base |-> {}, loss |-> 0]
Sum(S) == [src |-> UNION {pData[l].src : l \in S},
           base |-> UNION {pData[l].base : l \in S},
           loss |-> MapThenSumSet(LAMBDA l : pData[l].loss, S)]

(* Where the code expects sample i, channel j, polarisation k.             *)
Index(i, j, k) == i * Nchans * Nifs + j * Nifs + k
Channels == 0 .. Nchans - 1
Length == Cardinality(DOMAIN pData)
Size == Nsamples * Nchans * Nifs

(* A call, and a call that reads outside its arrays, throws or crashes:    *)
(* nothing is said of the program after it.                                *)
Call ==
  /\ outcome = "ok" /\ calls < MaxCalls
  /\ calls' = calls + 1
Fine == outcome' = "ok"
Undefined(call) ==
  /\ outcome' = call
  /\ UNCHANGED <<file_vars, header_vars, Nsamples, pData, sub_vars, given>>
  /\ result' = NoResult

-----------------------------------------------------------------------------
(* Reading.                                                                *)

(* The end of a ReadInHeader that found all it expects.                    *)
ReadInHeader ==
  /\ Call /\ Fine
  /\ file' \in Files /\ open' = TRUE /\ position' = 0
  /\ Nifs' = file'.nifs /\ Nbits' = file'.nbits /\ Tsamp' = file'.tsamp
  /\ Nsamples' = file'.samples
  /\ given' = [given EXCEPT !.fresh = FALSE]
  /\ result' = NoResult
  /\ UNCHANGED <<StartSample, pData, sub_vars>>

(* A ReadInHeader that met a keyword it does not know: what stood in front *)
(* of it has been stored, in the order in which tsamp, nbits and nifs are  *)
(* written, and fp is still the old file.                                  *)
ReadInHeaderFails ==
  /\ Call /\ Fine
  /\ \E f \in Files, n \in 0 .. 3 :
       /\ Tsamp' = IF n > 0 THEN f.tsamp ELSE Tsamp
       /\ Nbits' = IF n > 1 THEN f.nbits ELSE Nbits
       /\ Nifs' = IF n > 2 THEN f.nifs ELSE Nifs
  /\ given' = [given EXCEPT !.fresh = FALSE]
  /\ result' = NoResult
  /\ UNCHANGED <<file_vars, Nsamples, StartSample, pData, sub_vars>>

(* Integer division of C.                                                  *)
Truncated(n, d) == IF n < 0 THEN -((-n) \div d) ELSE n \div d

(* Mutated forms: the size of a value is taken for 8 bits; a sample may    *)
(* begin inside a byte.                                                    *)
OffsetOfBytes(start) == 8 * start * Nchans * Nifs
OffsetInBits(start) == start * Nchans * Nifs * Nbits

(* Bits to seek: whole bytes.                                              *)
Offset(start) == 8 * ((start * Nchans * Nifs * Nbits) \div 8)

(* Mutated form: the polarisations are forgotten.                          *)
SamplesOnePol(values) == values \div Nchans

Samples(values) == (values \div Nifs) \div Nchans

(* readdata(ns) with fp at bit p; the caller wants the samples from        *)
(* asked[1] to asked[2], and gets them if it counts from where the file    *)
(* begins and in the samples the file has.                                 *)
readdata(call, p, ns, asked, counts) ==
  LET unit == IF Nbits = 1 THEN 8 ELSE Nbits
      nchr == IF Nbits = 1 THEN Truncated(ns * Nifs * Nchans, 8)
              ELSE ns * Nifs * Nchans
      left == (FileBits(file) - p) \div unit
      icnt == Max({0, Min({nchr, left})})
      cells == CASE Nbits = 1 -> 8 * icnt [] Nbits = 8 -> icnt [] Nbits = 32 -> nchr
      cell(l) == LET q == p + l * Nbits
                 IN  IF l * Nbits < icnt * unit
                     THEN [Zero EXCEPT !.src = {q},
                                       !.loss = IF Nbits = 8 /\ q \in file.high
                                                THEN 1 ELSE 0]
                     ELSE Zero
  IN  IF ~open \/ (Nbits # 16 /\ nchr < 0)
      THEN Undefined(call)
      ELSE /\ Fine
           /\ pSubband' = FALSE
           /\ IF Nbits = 16
              THEN /\ pData' = <<>> /\ position' = p
                   /\ UNCHANGED Nsamples
              ELSE /\ pData' = [l \in 0 .. cells - 1 |-> cell(l)]
                   /\ position' = IF icnt < nchr THEN Max({p, FileBits(file)})
                                  ELSE p + icnt * unit
                   /\ Nsamples' = Samples(icnt * (unit \div Nbits))
           /\ given' = [fresh |-> TRUE, asked |-> asked,
                        counts |-> counts,
                        layout |-> Nifs = file.nifs /\ Nbits = file.nbits /\ Nbits # 16
                                     /\ p % (Nchans * Nifs * Nbits) = 0,
                        first |-> p \div (Nchans * Nifs * Nbits), count |-> Nsamples',
                        factor |-> 1, tsamp |-> Tsamp,
                        pols |-> [k \in 0 .. Nifs - 1 |-> {k}], onepol |-> TRUE]
           /\ result' = NoResult
           /\ UNCHANGED <<file, open, header_vars, Nsubband>>

(* By fractions, here in halves, of the number of samples.                 *)
ReadInData(startp, endp) ==
  LET start == (startp * Nsamples) \div 2
      end == (endp * Nsamples) \div 2
  IN  /\ Call /\ startp <= endp
      /\ StartSample' = start
      /\ readdata("ReadInData", Offset(start), end - start,
                  <<(startp * file.samples) \div 2, (endp * file.samples) \div 2>>,
                  Nsamples = file.samples)

(* By numbers, counted from where fp is.                                   *)
ReadInDatabySample(startsample, endsample) ==
  LET end == IF endsample < 0 THEN Nsamples ELSE endsample
  IN  /\ Call
      /\ startsample <= file.samples /\ (endsample < 0 \/ startsample <= endsample)
      /\ StartSample' = startsample
      /\ readdata("ReadInDatabySample", position + Offset(startsample), end - startsample,
                  <<startsample, IF endsample < 0 THEN file.samples ELSE endsample>>,
                  position = 0 /\ (endsample < 0 => Nsamples = file.samples))

(* Gives all memory back, but leaves Nsamples and Nsubband as they are.    *)
Free ==
  /\ Call /\ Fine
  /\ pData' = <<>> /\ pSubband' = FALSE
  /\ given' = [given EXCEPT !.fresh = FALSE]
  /\ result' = NoResult
  /\ UNCHANGED <<file_vars, header_vars, Nsamples, StartSample, Nsubband>>

CloseFile ==
  /\ Call
  /\ IF open
     THEN /\ Fine /\ open' = FALSE /\ result' = NoResult
          /\ UNCHANGED <<file, position, header_vars, Nsamples, pData, sub_vars, given>>
     ELSE Undefined("CloseFile")
  /\ UNCHANGED StartSample

-----------------------------------------------------------------------------
(* Calls on the samples read.                                              *)

(* A call that reads the first n elements of pData and changes no file.    *)
OnData(call, n) ==
  /\ Call
  /\ UNCHANGED StartSample
  /\ IF n > Length THEN Undefined(call)
     ELSE Fine /\ UNCHANGED <<file_vars, Nbits, sub_vars>>

(* Mutated form: the sums run over neighbouring values.                    *)
SummedNeighbours(l, nd) ==
  LET nchk == Nchans * Nifs
  IN  {(l \div nchk) * nd * nchk + (l % nchk) + t : t \in 0 .. nd - 1}

(* What becomes element l: nd samples of the same channel.                 *)
Summed(l, nd) ==
  LET nchk == Nchans * Nifs
  IN  {(l \div nchk) * nd * nchk + t * nchk + (l % nchk) : t \in 0 .. nd - 1}

DownSample(nd) ==
  LET nnew == Nsamples \div nd
  IN  /\ OnData("DownSample", nnew * nd * Nchans * Nifs)
      /\ outcome' = "ok" =>
           /\ pData' = [l \in 0 .. nnew * Nchans * Nifs - 1 |-> Sum(Summed(l, nd))]
           /\ Nsamples' = nnew
           /\ Tsamp' = Tsamp * nd
           /\ given' = [given EXCEPT !.factor = @ * nd]
           /\ result' = NoResult
           /\ UNCHANGED Nifs

(* The two functions differ in the order of the values they expect.        *)
Stripped(l, poli, order) ==
  LET i == l \div Nchans
      j == l % Nchans
  IN  IF order = "chan_if"
      THEN {i * Nchans * Nifs + j * Nifs + k : k \in poli}
      ELSE {i * Nchans * Nifs + k * Nchans + j : k \in poli}

Strip(call, poli, order) ==
  /\ poli \subseteq 0 .. Nifs - 1
  /\ OnData(call, Size)
  /\ outcome' = "ok" =>
       /\ pData' = [l \in 0 .. Nsamples * Nchans - 1 |-> Sum(Stripped(l, poli, order))]
       /\ Nifs' = 1
       /\ given' = [given EXCEPT !.pols = [k \in {0} |->
                                            UNION {@[p] : p \in poli \cap DOMAIN @}]]
       /\ result' = NoResult
       /\ UNCHANGED <<Nsamples, Tsamp>>

(* As the comments on them say, each is for files of its order.            *)
Strip2OnePol(poli) == file.order = "chan_if" /\ Strip("Strip2OnePol", poli, "chan_if")
Strip2OnePol_STD(poli) == file.order = "if_chan" /\ Strip("Strip2OnePol_STD", poli, "if_chan")

UNCHANGED_SHAPE == UNCHANGED <<Nifs, Nsamples, Tsamp>>

(* Mutated form: the first polarisation is summed for all.                 *)
pZeroDMFirst == [l \in 0 .. Nsamples * Nifs - 1 |->
                   {Index(l \div Nifs, j, 0) : j \in Channels}]

(* The series of ZeroDM and FormZeroDMSeriesandStatistics: over channels.  *)
pZeroDM == [l \in 0 .. Nsamples * Nifs - 1 |->
              {Index(l \div Nifs, j, l % Nifs) : j \in Channels}]

(* Mutated form: the means of the polarisations are added up.              *)
SubtractedAll(l, method) == 0 .. Size - 1

(* The values whose mean is subtracted from value l: those of its sample   *)
(* or, in the linear fit to the series, of all samples.                    *)
Subtracted(l, method) ==
  IF method = "dot"
  THEN UNION {pZeroDM[z] : z \in {y \in DOMAIN pZeroDM : y % Nifs = l % Nifs}}
  ELSE pZeroDM[(l \div (Nchans * Nifs)) * Nifs + (l % Nifs)]

ZeroDM(method) ==
  /\ OnData("ZeroDM", Size)
  /\ outcome' = "ok" =>
       /\ pData' = [l \in DOMAIN pData |->
            IF l < Size
            THEN [pData[l] EXCEPT !.base = @ \cup Sum(Subtracted(l, method)).src]
            ELSE pData[l]]
       /\ given' = [given EXCEPT !.onepol = @ /\ (Nifs = 1 \/ file.order = "chan_if")]
       /\ result' = [kind |-> "zero", series |-> pZeroDM]
       /\ UNCHANGED_SHAPE

FormZeroDMSeriesandStatistics ==
  /\ OnData("FormZeroDMSeriesandStatistics", Size)
  /\ outcome' = "ok" =>
       /\ result' = [kind |-> "zero", series |-> pZeroDM]
       /\ UNCHANGED <<pData, given>>
       /\ UNCHANGED_SHAPE

(* RemoveBaseline and Equalize count Nsamples * Nchans values and take     *)
(* every Nchans-th for the same channel; Equalize also divides by their    *)
(* variance.                                                               *)
Column(l) == {m \in 0 .. Nsamples * Nchans - 1 : m % Nchans = l % Nchans}

SubtractMeans(call) ==
  /\ OnData(call, Nsamples * Nchans)
  /\ outcome' = "ok" =>
       /\ pData' = [l \in DOMAIN pData |->
            IF l < Nsamples * Nchans
            THEN [pData[l] EXCEPT !.base = @ \cup Sum(Column(l)).src]
            ELSE pData[l]]
       /\ given' = [given EXCEPT !.onepol = @ /\ Nifs = 1]
       /\ result' = NoResult
       /\ UNCHANGED_SHAPE

-----------------------------------------------------------------------------
(* Dedispersion.  The call that fills sfti is commented out: the channels  *)
(* are shifted by what the memory held.                                    *)

(* Mutated form: the first sample is used.                                 *)
ShiftedFrom0(i, j, k, sfti) ==
  LET isft == i + sfti[j]
  IN  IF isft < Nsamples /\ isft >= 0 THEN {Index(isft, j, k)} ELSE {}

Shifted(i, j, k, sfti) ==
  LET isft == i + sfti[j]
  IN  IF isft < Nsamples /\ isft > 0 THEN {Index(isft, j, k)} ELSE {}

(* The whole sum of a sample, and that of the last polarisation.           *)
Pols == 0 .. Nifs - 1
Sample(i, pols, sfti) == UNION {Shifted(i, j, k, sfti) : j \in Channels, k \in pols}

DedisperseInto(call, sfti, pols, channels) ==
  LET read == UNION {Sample(i, Pols, sfti) : i \in 0 .. Nsamples - 1}
  IN  /\ OnData(call, Max({0} \cup {l + 1 : l \in read}))
      /\ outcome' = "ok" =>
           /\ result' = [kind |-> call, sfti |-> sfti, samples |-> Nsamples, nifs |-> Nifs,
                         Obj1D |-> [i \in 0 .. Nsamples - 1 |-> Sample(i, pols, sfti)],
                         Obj |-> [l \in channels |->
                                    Shifted(l \div (Nchans * Nifs), (l \div Nifs) % Nchans,
                                            l % Nifs, sfti)]]
           /\ UNCHANGED <<pData, given>>
           /\ UNCHANGED_SHAPE

Dedisperse ==
  \E sfti \in [Channels -> Shifts] : DedisperseInto("Dedisperse", sfti, Pols, {})

FormDedisperseChannelData ==
  \E sfti \in [Channels -> Shifts] :
    DedisperseInto("FormDedisperseChannelData", sfti, {Nifs - 1}, 0 .. Size - 1)

(* The running sum of ApplyBoxFilter: how often it holds each value, and   *)
(* how often the mean was subtracted from it.                              *)
Plus(s, j, mean) == [coef |-> [s.coef EXCEPT ![j] = @ + 1], means |-> s.means + mean]
Less(s, j, mean) == [coef |-> [s.coef EXCEPT ![j] = @ - 1], means |-> s.means - mean]

(* Mutated form: at the end of the data the sum is not taken less.         *)
PassedLong(s, j, n, sfti) ==
  IF j < sfti THEN Plus(s, j, 1) ELSE IF j < n THEN Less(Plus(s, j, 0), j - sfti, 0) ELSE s

(* The sum after its three loops have come to j.                           *)
Passed(s, j, n, sfti) ==
  IF j < sfti THEN Plus(s, j, 1)
  ELSE IF j < n THEN Less(Plus(s, j, 0), j - sfti, 0)
  ELSE Less(s, j - sfti, 1)

RunningSum(n, sfti) ==
  LET tmp[j \in -1 .. n + (sfti \div 2) - 1] ==
        IF j = -1 THEN [coef |-> [i \in 0 .. n - 1 |-> 0], means |-> 0]
        ELSE Passed(tmp[j - 1], j, n, sfti)
  IN  tmp

(* The second result is written before k is compared with n.               *)
ApplyBoxFilter(wi) ==
  LET n == Nsamples
      sfti == Min({wi, n})
      h == sfti \div 2
  IN  /\ Call
      /\ IF n < 2 THEN Undefined("ApplyBoxFilter")
         ELSE /\ Fine
              /\ result' = [kind |-> "box", sfti |-> sfti,
                            obj |-> [k \in 0 .. n - 1 |-> RunningSum(n, sfti)[k + h - 1]]]
              /\ UNCHANGED <<file_vars, header_vars, Nsamples, pData, sub_vars, given>>
      /\ UNCHANGED StartSample

-----------------------------------------------------------------------------
(* Subbands.                                                               *)

Ceil(n, d) == (n + d - 1) \div d
SquareRoot(n) == CHOOSE r \in 0 .. n : r * r <= n /\ n < (r + 1) * (r + 1)

(* How many subbands there are for Ndm trials, from startdm to enddm, that *)
(* are span apart.  The trials themselves are not told: dmsub2tim adds the *)
(* RefDM of the subband, which nobody sets, to each of them.               *)
NMainDM(ddm, span) ==
  LET Ndm == Ceil(span, ddm) + 1
  IN  Ceil(Ndm, SquareRoot(Nchans))

(* The call that fills the subbands is commented out: they have no         *)
(* channels and no samples, and dmsub2tim, which makes a series of no      *)
(* samples for every trial, loads the first frequency through NULL, unless *)
(* the compiler, which sees that nobody uses it, leaves the load away.     *)
dmsub2tim == Fine \/ Undefined("SubbandDeDispersion")

SubbandDeDispersion(ddm, span) ==
  /\ Call /\ dmsub2tim
  /\ outcome' = "ok" =>
       /\ result' = NoResult
       /\ Nsubband' = NMainDM(ddm, span) /\ pSubband' = TRUE
       /\ UNCHANGED <<file_vars, header_vars, Nsamples, pData, given>>
  /\ UNCHANGED StartSample

(* A loop over Nsubband subbands; fails is the set of what may happen to   *)
(* one that is there.                                                      *)
OverSubbands(call, fails) ==
  /\ Call
  /\ \E n \in IF Nsubband = Unset THEN {0, 1} ELSE {Nsubband}, bad \in fails :
       IF n > 0 /\ (~pSubband \/ bad)
       THEN Undefined(call)
       ELSE /\ Fine /\ result' = NoResult
            /\ UNCHANGED <<file_vars, header_vars, Nsamples, pData, sub_vars, given>>
  /\ UNCHANGED StartSample

(* The filter writes a result for series that have no samples; the name of *)
(* a file of WriteTimData begins with uninitialized memory.                *)
BoxCarFilter == OverSubbands("BoxCarFilter", {TRUE})
WriteSubbandData == OverSubbands("WriteSubbandData", {FALSE})
WriteTimData == OverSubbands("WriteTimData", BOOLEAN)

-----------------------------------------------------------------------------
DataInit ==
  /\ file \in Files /\ open = TRUE /\ position = 0
  /\ Nifs = file.nifs /\ Nbits = file.nbits /\ Tsamp = file.tsamp
  /\ Nsamples = file.samples /\ StartSample = Unset
  /\ pData = <<>>
  /\ Nsubband = Unset /\ pSubband = FALSE
  /\ result = NoResult
  /\ given = [fresh |-> FALSE, asked |-> <<0, 0>>, counts |-> FALSE, layout |-> FALSE,
              first |-> 0, count |-> 0, factor |-> 1, tsamp |-> Tsamp,
              pols |-> [k \in 0 .. Nifs - 1 |-> {k}], onepol |-> TRUE]
  /\ outcome = "ok" /\ calls = 0

DataNext ==
  \/ ReadInHeader \/ ReadInHeaderFails \/ Free \/ CloseFile
  \/ \E startp \in 0 .. 1, endp \in 1 .. 2 : ReadInData(startp, endp)
  \/ \E start \in 0 .. 2, end \in {-1, 1, 2} : ReadInDatabySample(start, end)
  \/ \E nd \in 2 .. 3 : DownSample(nd)
  \/ \E poli \in {{0}, {1}, {0, 1}} : Strip2OnePol(poli) \/ Strip2OnePol_STD(poli)
  \/ \E method \in {"dot", "mean"} : ZeroDM(method)
  \/ FormZeroDMSeriesandStatistics
  \/ \E call \in {"RemoveBaseline", "Equalize"} : SubtractMeans(call)
  \/ Dedisperse \/ FormDedisperseChannelData
  \/ \E wi \in 1 .. 5 : ApplyBoxFilter(wi)
  \/ \E ddm \in 1 .. 2, span \in 0 .. 5 : SubbandDeDispersion(ddm, span)
  \/ BoxCarFilter \/ WriteSubbandData \/ WriteTimData

DataSpec == DataInit /\ [][DataNext]_data_vars

-----------------------------------------------------------------------------
FilDataTypeOK ==
  /\ file \in Files /\ open \in BOOLEAN /\ position \in Nat
  /\ position % 8 = 0
  /\ Nifs \in Nat \ {0} /\ Nbits \in {1, 8, 16, 32}
  /\ Nsamples \in Nat /\ Tsamp \in Nat \ {0}
  /\ StartSample = Unset \/ StartSample \in Nat
  /\ DOMAIN pData = 0 .. Length - 1
  /\ Nsubband = Unset \/ Nsubband \in Nat
  /\ pSubband \in BOOLEAN /\ (pSubband => Nsubband # Unset)
  /\ calls \in 0 .. MaxCalls

(* What the file says: where sample i, channel j, polarisation p is, and   *)
(* what element l of the data should be after the calls made on them.      *)
PositionOf(i, j, p) ==
  file.nbits * (i * Nchans * file.nifs
                  + (IF file.order = "chan_if" THEN j * file.nifs + p ELSE p * Nchans + j))

Row(l) == l \div (Nchans * Nifs)
Channel(l) == IF file.order = "chan_if" THEN (l \div Nifs) % Nchans ELSE l % Nchans
Pol(l) == IF file.order = "chan_if" THEN l % Nifs ELSE (l \div Nchans) % Nifs

Values(i, channels, k) ==
  {PositionOf(given.first + given.factor * i + t, j, p) :
     t \in 0 .. given.factor - 1, j \in channels, p \in given.pols[k]}

(* The data have been read after the header, with the polarisations and    *)
(* the size of values that the file has.                                   *)
Known == outcome = "ok" /\ given.fresh /\ given.layout

(* Whatever calls follow a reading, the data are those of the file: every  *)
(* element is the sum of its samples and polarisations, of bytes less 256  *)
(* for each over 127, and the number and the length of the samples go with *)
(* them, unless the header was not read again between adding up samples    *)
(* and reading more, which leaves the longer Tsamp (filterbank.cpp:484-546, *)
(* 898-931, 1451-1512).                                                    *)
DataRight ==
  Known =>
    /\ Nsamples = given.count \div given.factor
    /\ given.tsamp = file.tsamp => Tsamp = file.tsamp * given.factor
    /\ Size <= Length
    /\ \A l \in 0 .. Size - 1 :
         /\ pData[l].src = Values(Row(l), {Channel(l)}, Pol(l))
         /\ pData[l].loss = Cardinality(pData[l].src \cap file.high)

(* The samples read are the samples asked for, and StartSample tells the   *)
(* first of them, if Nsamples is still that of the file and, when they are *)
(* asked for by number, nothing was read before; in files of bits, if they *)
(* begin and end with a byte (filterbank.cpp:461-483, 491).                *)
InBytes(samples) == (samples * Nchans * file.nifs * file.nbits) % 8 = 0
AskedIsRead ==
  Known /\ given.counts /\ (\A n \in 1 .. 2 : InBytes(given.asked[n])) =>
    /\ given.first = given.asked[1] /\ StartSample = given.first
    /\ given.first + given.count = Min({given.asked[2], file.samples})

(* A mean that is subtracted from a value is a mean of the polarisations   *)
(* it has itself, unless ZeroDM was called on two in the order of the      *)
(* sigproc programs, or RemoveBaseline or Equalize, which forget Nifs, on  *)
(* two at all (filterbank.cpp:587-716, 1514-1583).                         *)
PolOf(q) ==
  LET r == (q \div file.nbits) % (Nchans * file.nifs)
  IN  IF file.order = "chan_if" THEN r % file.nifs ELSE r \div Nchans
MeansOfOwnPol ==
  Known /\ given.onepol =>
    \A l \in 0 .. Size - 1 : {PolOf(q) : q \in pData[l].base} \subseteq given.pols[Pol(l)]

(* The zero DM series is, sample by sample, the sum of all channels of one *)
(* polarisation (filterbank.cpp:591-621, 1316-1358).                       *)
ZeroDMRight ==
  Known /\ result.kind = "zero" /\ (Nifs = 1 \/ file.order = "chan_if") =>
    \A z \in DOMAIN result.series :
      Sum(result.series[z]).src = Values(z \div Nifs, Channels, z % Nifs)

(* Whatever the shifts are, dedispersion uses no value twice and leaves    *)
(* out only what is shifted off the ends, and the first sample, always.    *)
(* The two functions do not agree on Obj1D: all polarisations in the one,  *)
(* the last in the other (filterbank.cpp:1376-1389, 1418-1437).            *)
DedispersionConserves ==
  result.kind \in {"Dedisperse", "FormDedisperseChannelData"} =>
    LET ns == result.samples
        n == Nchans * result.nifs
        pols == IF result.kind = "Dedisperse" THEN 0 .. result.nifs - 1
                ELSE {result.nifs - 1}
        used(ks) == {i * n + j * result.nifs + k : i \in 1 .. ns - 1, j \in Channels, k \in ks}
        kept(ks) == {l \in used(ks) :
                       (l \div n) - result.sfti[(l \div result.nifs) % Nchans] \in 0 .. ns - 1}
    IN  /\ UNION {result.Obj1D[i] : i \in DOMAIN result.Obj1D} = kept(pols)
        /\ \A i, m \in DOMAIN result.Obj1D :
             i # m => result.Obj1D[i] \cap result.Obj1D[m] = {}
        /\ result.kind = "FormDedisperseChannelData" =>
             UNION {result.Obj[l] : l \in DOMAIN result.Obj} = kept(0 .. result.nifs - 1)

(* The running sum is, at every place, the sum of the sfti values around   *)
(* it, less one mean for each: no value is lost or counted twice at either *)
(* end (filterbank.cpp:1280-1315).                                         *)
BoxRight ==
  result.kind = "box" =>
    LET h == result.sfti \div 2
    IN  \A k \in DOMAIN result.obj :
          LET window == (k + h - result.sfti) .. (k + h - 1)
              held == window \cap DOMAIN result.obj
          IN  /\ \A j \in DOMAIN result.obj :
                   result.obj[k].coef[j] = IF j \in held THEN 1 ELSE 0
              /\ result.obj[k].means = Cardinality(held)

(* What is undefined, and when: a call that uses the data reads outside    *)
(* them only if nothing was read since the header, or the memory was given *)
(* back, or readdata knows no values of this size and says nothing; a      *)
(* reading throws only when its default end is the Nsamples of an earlier  *)
(* one; the filter needs two samples, and a subband to be written must not *)
(* have been given back by a reading (filterbank.cpp:477, 487, 1294, 964). *)
UndefinedOnlyIf ==
  [][outcome' # "ok" =>
       CASE outcome' \in {"ReadInData", "CloseFile"} -> ~open
         [] outcome' = "ReadInDatabySample" -> ~open \/ Nsamples # file.samples
         [] outcome' = "ApplyBoxFilter" -> Nsamples < 2
         [] outcome' \in {"SubbandDeDispersion", "BoxCarFilter", "WriteTimData"} -> TRUE
         [] outcome' = "WriteSubbandData" -> ~pSubband
         [] OTHER -> ~given.fresh \/ Nbits = 16]_data_vars
=============================================================================
