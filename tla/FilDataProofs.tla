--------------------------- MODULE FilDataProofs ---------------------------
(***************************************************************************)
(* Theorems about the samples of a FilterBankData object, for files of any *)
(* number of samples, channels and polarisations and for any sequence of   *)
(* calls.                                                                  *)
(***************************************************************************)
EXTENDS FilData, ModLemmas

-----------------------------------------------------------------------------
(* A set of numbers that is bounded has a largest one.                     *)
LEMMA Largest ==
  ASSUME NEW n \in Nat, NEW S \in SUBSET (0 .. n), S # {}
  PROVE  /\ Max(S) \in S
         /\ \A x \in S : Max(S) >= x
<1> DEFINE T == {m \in 0 .. n : \E x \in S : x >= m}
<1> HIDE DEF T
<1>1. \E m \in S : \A x \in S : m >= x
  <2>1. \A x \in S : x \in 0 .. n
    OBVIOUS
  <2>2. SUFFICES ASSUME \A m \in S : \E x \in S : x > m PROVE FALSE
    BY <2>1
  <2>3. 0 \in T
    <3>1. PICK x \in S : TRUE
      OBVIOUS
    <3> QED BY <2>1, <3>1 DEF T
  <2>4. \A m \in 0 .. n - 1 : m \in T => m + 1 \in T
    <3> SUFFICES ASSUME NEW m \in 0 .. n - 1, m \in T PROVE m + 1 \in T
      OBVIOUS
    <3>1. PICK x \in S : x >= m
      BY DEF T
    <3>2. PICK y \in S : y > x
      BY <2>2
    <3> QED BY <2>1, <3>1, <3>2 DEF T
  <2>5. n \in T
    BY ONLY <2>3, <2>4, UpTo, n \in Nat
  <2>6. PICK x \in S : x >= n
    BY <2>5 DEF T
  <2> QED BY <2>1, <2>2, <2>6
<1> QED BY <1>1 DEF Max

LEMMA LargerOf == \A a, b \in Int : Max({a, b}) = IF a >= b THEN a ELSE b
BY DEF Max

LEMMA SmallerOf == \A a, b \in Int : Min({a, b}) = IF a <= b THEN a ELSE b
BY DEF Min

-----------------------------------------------------------------------------
(* Types.                                                                  *)

LEMMA FileTypes ==
  ASSUME NEW f \in Files
  PROVE  /\ f.samples \in Nat /\ f.nifs \in Nat \ {0} /\ f.tsamp \in Nat \ {0}
         /\ f.nbits \in {1, 8, 16, 32} /\ f.order \in {"chan_if", "if_chan"}
         /\ Nchans \in Nat \ {0}
         /\ FileBits(f) \in Nat /\ FileBits(f) % 8 = 0
         /\ f.nbits # 8 => f.high = {}
<1>1. /\ f.samples \in Nat /\ f.nifs \in Nat /\ f.nbits \in Nat /\ Nchans \in Nat
      /\ FileBits(f) % 8 = 0
  BY FilDataAssumption DEF FileBits
<1>2. FileBits(f) \in Nat
  BY <1>1, ProductNat DEF FileBits
<1> QED BY <1>1, <1>2, FilDataAssumption

IsElem(e) == e = [src |-> e.src, base |-> e.base, loss |-> e.loss]

(* Sets of polarisations, one for each that is left.                       *)
PolSets == UNION {[0 .. n - 1 -> SUBSET Nat] : n \in Nat}

Givens == [fresh : BOOLEAN, asked : Int \X Int, counts : BOOLEAN, layout : BOOLEAN,
           first : Nat, count : Nat, factor : Nat \ {0}, tsamp : Nat \ {0},
           pols : PolSets, onepol : BOOLEAN]

ShapeOK ==
  /\ file \in Files /\ open \in BOOLEAN
  /\ position \in Nat /\ position % 8 = 0
  /\ Nifs \in Nat \ {0} /\ Nbits \in {1, 8, 16, 32}
  /\ Nsamples \in Nat /\ Tsamp \in Nat \ {0}

ArrayOK == \E n \in Nat : DOMAIN pData = 0 .. n - 1 /\ \A l \in 0 .. n - 1 : IsElem(pData[l])

RestOK ==
  /\ StartSample = Unset \/ StartSample \in Nat
  /\ Nsubband = Unset \/ Nsubband \in Nat
  /\ pSubband \in BOOLEAN /\ (pSubband => Nsubband # Unset)
  /\ calls \in 0 .. MaxCalls
  /\ given \in Givens

TypeInv == ShapeOK /\ ArrayOK /\ RestOK

LEMMA ArrayLength ==
  ASSUME NEW n \in Nat, DOMAIN pData = 0 .. n - 1
  PROVE  Length = n
BY FS_Interval DEF Length

LEMMA Shape ==
  ASSUME ShapeOK
  PROVE  /\ Nchans * Nifs \in Nat \ {0} /\ Nchans * Nifs * Nbits \in Nat \ {0}
         /\ Size \in Nat /\ Size = Nsamples * (Nchans * Nifs)
<1>1. /\ Nchans \in Nat \ {0} /\ Nifs \in Nat \ {0} /\ Nbits \in Nat \ {0} /\ Nsamples \in Nat
  BY FilDataAssumption DEF ShapeOK
<1>2. Nchans * Nifs \in Nat \ {0}
  BY <1>1, ProductPositive
<1>3. Nchans * Nifs * Nbits \in Nat \ {0}
  BY <1>1, <1>2, ProductPositive
<1>4. Size = Nsamples * (Nchans * Nifs)
  BY <1>1 DEF Size
<1>5. Nsamples * (Nchans * Nifs) \in Nat
  BY <1>1, <1>2, ProductNat
<1> QED BY <1>2, <1>3, <1>4, <1>5

-----------------------------------------------------------------------------
(* What readdata does.                                                     *)

Unit == IF Nbits = 1 THEN 8 ELSE Nbits
Wanted(ns) == IF Nbits = 1 THEN Truncated(ns * Nifs * Nchans, 8) ELSE ns * Nifs * Nchans
Left(p) == (FileBits(file) - p) \div Unit
Got(p, ns) == Max({0, Min({Wanted(ns), Left(p)})})
Cells(p, ns) == CASE Nbits = 1 -> 8 * Got(p, ns) [] Nbits = 8 -> Got(p, ns) [] Nbits = 32 -> Wanted(ns)
Cell(p, ns, l) ==
  IF l * Nbits < Got(p, ns) * Unit
  THEN [Zero EXCEPT !.src = {p + l * Nbits},
                    !.loss = IF Nbits = 8 /\ p + l * Nbits \in file.high THEN 1 ELSE 0]
  ELSE Zero

LEMMA ReadSamples ==
  ASSUME NEW call \in {"ReadInData", "ReadInDatabySample"}, NEW p, NEW ns, NEW asked, NEW counts,
         readdata(call, p, ns, asked, counts), outcome' = "ok"
  PROVE  /\ open /\ (Nbits # 16 => ~(Wanted(ns) < 0))
         /\ Nbits = 16 => pData' = <<>> /\ position' = p /\ Nsamples' = Nsamples
         /\ Nbits # 16 =>
              /\ pData' = [l \in 0 .. Cells(p, ns) - 1 |-> Cell(p, ns, l)]
              /\ position' = IF Got(p, ns) < Wanted(ns) THEN Max({p, FileBits(file)})
                             ELSE p + Got(p, ns) * Unit
              /\ Nsamples' = Samples(Got(p, ns) * (Unit \div Nbits))
<1>1. ~Undefined(call)
  BY DEF Undefined
<1> QED BY <1>1 DEF readdata, Unit, Wanted, Left, Got, Cells, Cell

LEMMA ReadRest ==
  ASSUME NEW call \in {"ReadInData", "ReadInDatabySample"}, NEW p, NEW ns, NEW asked, NEW counts,
         readdata(call, p, ns, asked, counts), outcome' = "ok"
  PROVE  /\ given' = [fresh |-> TRUE, asked |-> asked, counts |-> counts,
                      layout |-> Nifs = file.nifs /\ Nbits = file.nbits /\ Nbits # 16
                                   /\ p % (Nchans * Nifs * Nbits) = 0,
                      first |-> p \div (Nchans * Nifs * Nbits), count |-> Nsamples',
                      factor |-> 1, tsamp |-> Tsamp,
                      pols |-> [k \in 0 .. Nifs - 1 |-> {k}], onepol |-> TRUE]
         /\ UNCHANGED <<file, open, header_vars, Nsubband>>
         /\ pSubband' = FALSE
         /\ result' = NoResult
<1>1. ~Undefined(call)
  BY DEF Undefined
<1> QED BY <1>1 DEF readdata

LEMMA CellRead ==
  ASSUME NEW p, NEW ns, NEW l
  PROVE  Cell(p, ns, l) =
           [src |-> IF l * Nbits < Got(p, ns) * Unit THEN {p + l * Nbits} ELSE {},
            base |-> {},
            loss |-> IF l * Nbits < Got(p, ns) * Unit /\ Nbits = 8 /\ p + l * Nbits \in file.high
                     THEN 1 ELSE 0]
<1>1. CASE l * Nbits < Got(p, ns) * Unit
  BY <1>1 DEF Cell, Zero
<1>2. CASE ~(l * Nbits < Got(p, ns) * Unit)
  BY <1>2 DEF Cell, Zero
<1> QED BY <1>1, <1>2

LEMMA Quotient ==
  ASSUME NEW a \in Int, NEW n \in Nat \ {0}
  PROVE  a \div n \in Int /\ (a \div n) * n <= a /\ (a >= 0 => a \div n \in Nat)
BY DivMod, DivNat

LEMMA SamplesFit ==
  ASSUME ShapeOK, NEW v \in Nat
  PROVE  Samples(v) \in Nat /\ Samples(v) * (Nchans * Nifs) <= v
<1> DEFINE w == v \div Nifs
           x == w \div Nchans
<1>1. Nifs \in Nat \ {0} /\ Nchans \in Nat \ {0}
  BY FilDataAssumption DEF ShapeOK
<1>2. w \in Nat /\ w * Nifs <= v
  BY <1>1, Quotient
<1>3. x \in Nat /\ x * Nchans <= w
  BY <1>1, <1>2, Quotient
<1>4. Samples(v) = x
  BY DEF Samples
<1> HIDE DEF w, x
<1>5. (x * Nchans) * Nifs <= w * Nifs
  <2>1. x * Nchans \in Nat
    BY <1>1, <1>3, ProductNat
  <2> QED BY <1>1, <1>2, <1>3, <2>1, ProductOrder
<1>6. (x * Nchans) * Nifs = x * (Nchans * Nifs) /\ w * Nifs \in Int
  BY <1>1, <1>2, <1>3
<1> QED BY <1>1, <1>2, <1>3, <1>4, <1>5, <1>6

LEMMA Seeked ==
  ASSUME ShapeOK, NEW p \in Nat, p % 8 = 0, NEW ns \in Int
  PROVE  /\ Wanted(ns) \in Int /\ (ns >= 0 => Wanted(ns) >= 0)
         /\ Left(p) \in Int
         /\ Got(p, ns) \in Nat
         /\ Got(p, ns) = IF Left(p) < 0 \/ Wanted(ns) < 0 THEN 0
                         ELSE IF Left(p) < Wanted(ns) THEN Left(p) ELSE Wanted(ns)
<1>1. Nifs \in Nat \ {0} /\ Nchans \in Nat \ {0} /\ Nbits \in {1, 8, 16, 32}
  BY FilDataAssumption DEF ShapeOK
<1>2. Unit \in {8, 16, 32}
  BY <1>1 DEF Unit
<1>3. FileBits(file) \in Nat
  BY FileTypes DEF ShapeOK
<1>4. Left(p) \in Int
  <2>1. FileBits(file) - p \in Int /\ Unit \in Nat \ {0}
    BY <1>2, <1>3
  <2> QED BY <2>1, Quotient DEF Left
<1> DEFINE v == ns * Nifs * Nchans
<1>5. v \in Int /\ (ns >= 0 => v >= 0)
  <2>1. v = ns * (Nifs * Nchans) /\ v \in Int
    BY <1>1
  <2>2. Nifs * Nchans \in Nat
    BY <1>1, ProductNat
  <2> QED BY <2>1, <2>2, ProductNat
<1>6. Wanted(ns) = IF Nbits = 1 THEN Truncated(v, 8) ELSE v
  BY DEF Wanted
<1> HIDE DEF v
<1>7. Truncated(v, 8) \in Int /\ (v >= 0 => Truncated(v, 8) >= 0)
  BY <1>5 DEF Truncated
<1>8. Wanted(ns) \in Int /\ (ns >= 0 => Wanted(ns) >= 0)
  BY <1>5, <1>6, <1>7
<1> QED BY <1>4, <1>8, LargerOf, SmallerOf DEF Got

(* Behind the samples that were read, at the end of the file or where it   *)
(* was, fp is at the beginning of a byte; the samples read fill no more    *)
(* than pData.                                                             *)
LEMMA ReadShape ==
  ASSUME ShapeOK, NEW p \in Nat, p % 8 = 0, NEW ns \in Int, Nbits # 16, ~(Wanted(ns) < 0)
  PROVE  /\ Got(p, ns) <= Wanted(ns)
         /\ Cells(p, ns) \in Nat
         /\ p + Got(p, ns) * Unit \in Nat /\ (p + Got(p, ns) * Unit) % 8 = 0
         /\ Max({p, FileBits(file)}) \in Nat /\ Max({p, FileBits(file)}) % 8 = 0
         /\ Got(p, ns) * (Unit \div Nbits) \in Nat
         /\ Got(p, ns) * (Unit \div Nbits) <= Cells(p, ns)
<1>1. Nbits \in {1, 8, 32}
  BY DEF ShapeOK
<1>2. /\ FileBits(file) \in Nat /\ FileBits(file) % 8 = 0
  BY FileTypes DEF ShapeOK
<1>3. /\ Wanted(ns) \in Int /\ Left(p) \in Int /\ Got(p, ns) \in Nat /\ Got(p, ns) <= Wanted(ns)
  <2>1. /\ Wanted(ns) \in Int /\ Left(p) \in Int /\ Got(p, ns) \in Nat
        /\ Got(p, ns) = IF Left(p) < 0 \/ Wanted(ns) < 0 THEN 0
                         ELSE IF Left(p) < Wanted(ns) THEN Left(p) ELSE Wanted(ns)
    BY Seeked
  <2> QED BY ONLY <2>1, ~(Wanted(ns) < 0)
<1>4. Max({p, FileBits(file)}) \in {p, FileBits(file)}
  BY <1>2, LargerOf
<1>5. CASE Nbits = 1
  BY <1>1, <1>2, <1>3, <1>4, <1>5 DEF Unit, Cells
<1>6. CASE Nbits = 8
  BY <1>1, <1>2, <1>3, <1>4, <1>6 DEF Unit, Cells
<1>7. CASE Nbits = 32
  BY <1>1, <1>2, <1>3, <1>4, <1>7 DEF Unit, Cells
<1> QED BY <1>1, <1>5, <1>6, <1>7

LEMMA ReadType ==
  ASSUME ShapeOK, NEW call \in {"ReadInData", "ReadInDatabySample"},
         NEW p \in Nat, p % 8 = 0, NEW ns \in Int, NEW asked \in Int \X Int, NEW counts \in BOOLEAN,
         readdata(call, p, ns, asked, counts), outcome' = "ok"
  PROVE  ShapeOK' /\ ArrayOK' /\ given' \in Givens
<1>1. /\ Nchans * Nifs * Nbits \in Nat \ {0} /\ Nifs \in Nat \ {0} /\ Tsamp \in Nat \ {0}
  BY Shape DEF ShapeOK
<1>2. /\ Nbits # 16 => ~(Wanted(ns) < 0)
      /\ Nbits = 16 => pData' = <<>> /\ position' = p /\ Nsamples' = Nsamples
      /\ Nbits # 16 =>
           /\ pData' = [l \in 0 .. Cells(p, ns) - 1 |-> Cell(p, ns, l)]
           /\ position' = IF Got(p, ns) < Wanted(ns) THEN Max({p, FileBits(file)})
                          ELSE p + Got(p, ns) * Unit
           /\ Nsamples' = Samples(Got(p, ns) * (Unit \div Nbits))
  BY ReadSamples
<1>3. /\ given' = [fresh |-> TRUE, asked |-> asked, counts |-> counts,
                  layout |-> Nifs = file.nifs /\ Nbits = file.nbits /\ Nbits # 16
                               /\ p % (Nchans * Nifs * Nbits) = 0,
                  first |-> p \div (Nchans * Nifs * Nbits), count |-> Nsamples',
                  factor |-> 1, tsamp |-> Tsamp,
                  pols |-> [k \in 0 .. Nifs - 1 |-> {k}], onepol |-> TRUE]
      /\ UNCHANGED <<file, open, header_vars, Nsubband>>
  BY ReadRest
<1>4. Nbits # 16 =>
        /\ Cells(p, ns) \in Nat
        /\ p + Got(p, ns) * Unit \in Nat /\ (p + Got(p, ns) * Unit) % 8 = 0
        /\ Max({p, FileBits(file)}) \in Nat /\ Max({p, FileBits(file)}) % 8 = 0
        /\ Samples(Got(p, ns) * (Unit \div Nbits)) \in Nat
  BY <1>2, ReadShape, SamplesFit
<1>5. Nsamples' \in Nat /\ position' \in Nat /\ position' % 8 = 0
  BY <1>2, <1>4 DEF ShapeOK
<1>6. ShapeOK'
  BY <1>3, <1>5 DEF ShapeOK, header_vars
<1>7. ArrayOK'
  <2>1. CASE Nbits = 16
    <3>1. DOMAIN pData' = 0 .. 0 - 1
      BY <1>2, <2>1
    <3> QED BY <3>1 DEF ArrayOK
  <2>2. CASE Nbits # 16
    <3>1. DOMAIN pData' = 0 .. Cells(p, ns) - 1
      BY <1>2, <2>2
    <3>2. \A l \in 0 .. Cells(p, ns) - 1 : IsElem(pData'[l])
      BY <1>2, <2>2, CellRead DEF IsElem
    <3> QED BY <1>4, <2>2, <3>1, <3>2 DEF ArrayOK
  <2> QED BY <2>1, <2>2
<1>8. given' \in Givens
  <2>1. p \div (Nchans * Nifs * Nbits) \in Nat
    BY <1>1, DivNat
  <2>2. [k \in 0 .. Nifs - 1 |-> {k}] \in [0 .. Nifs - 1 -> SUBSET Nat]
    BY <1>1
  <2>3. [k \in 0 .. Nifs - 1 |-> {k}] \in PolSets
    BY <1>1, <2>2 DEF PolSets
  <2> QED BY <1>1, <1>3, <1>5, <2>1, <2>3 DEF Givens
<1> QED BY <1>6, <1>7, <1>8

(* A call that changes none of the samples.                                *)
LEMMA TypeKept ==
  ASSUME TypeInv, calls' = calls + 1, calls < MaxCalls,
         UNCHANGED <<file_vars, header_vars, Nsamples, pData, sub_vars, given>>,
         StartSample' = Unset \/ StartSample' \in Nat
  PROVE  TypeInv'
<1>1. UNCHANGED <<file, open, position, Nifs, Nbits, Tsamp, Nsamples, pData, Nsubband, pSubband, given>>
  BY DEF file_vars, header_vars, sub_vars
<1>2. calls' \in 0 .. MaxCalls
  BY FilDataAssumption DEF TypeInv, RestOK
<1> QED BY <1>1, <1>2 DEF TypeInv, ShapeOK, ArrayOK, RestOK

(* A call that makes an array of n sums and leaves the rest.               *)
LEMMA GivenKept ==
  ASSUME given \in Givens
  PROVE  /\ \A f \in BOOLEAN : [given EXCEPT !.fresh = f] \in Givens
         /\ \A x \in Nat \ {0} : [given EXCEPT !.factor = x] \in Givens
         /\ \A g \in BOOLEAN : [given EXCEPT !.onepol = g] \in Givens
BY DEF Givens

LEMMA PolsMerged ==
  ASSUME given \in Givens, NEW poli
  PROVE  [given EXCEPT !.pols = [k \in {0} |-> UNION {@[p] : p \in poli \cap DOMAIN @}]] \in Givens
<1> DEFINE s == UNION {given.pols[p] : p \in poli \cap DOMAIN given.pols}
<1>1. PICK n \in Nat : given.pols \in [0 .. n - 1 -> SUBSET Nat]
  BY DEF Givens, PolSets
<1>2. s \in SUBSET Nat
  <2>1. \A p \in DOMAIN given.pols : given.pols[p] \subseteq Nat
    BY <1>1
  <2> QED BY <2>1
<1> HIDE DEF s
<1>3. [k \in {0} |-> s] \in [0 .. 1 - 1 -> SUBSET Nat]
  <2>1. {0} = 0 .. 1 - 1
    OBVIOUS
  <2> QED BY <1>2, <2>1
<1>4. [k \in {0} |-> s] \in PolSets
  BY <1>3 DEF PolSets
<1>5. [given EXCEPT !.pols = [k \in {0} |-> s]] \in Givens
  BY <1>4 DEF Givens
<1> QED BY <1>5 DEF s

LEMMA EmptyArray == 0 \in Nat /\ DOMAIN <<>> = 0 .. 0 - 1
OBVIOUS

(* Where fp is put is the beginning of a byte.                             *)
LEMMA OffsetType ==
  ASSUME ShapeOK, NEW start \in Nat
  PROVE  Offset(start) \in Nat /\ Offset(start) % 8 = 0
<1> DEFINE v == start * Nchans * Nifs * Nbits
           w == v \div 8
<1>1. v \in Nat
  <2>1. start \in Nat /\ Nchans \in Nat /\ Nifs \in Nat /\ Nbits \in Nat
    BY FilDataAssumption DEF ShapeOK
  <2> QED BY <2>1, ProductNat
<1>2. w \in Nat
  BY <1>1, DivNat
<1>3. Offset(start) = 8 * w
  BY DEF Offset
<1> HIDE DEF v, w
<1>4. 8 * w \in Nat /\ (8 * w) % 8 = 0
  BY <1>2
<1> QED BY <1>3, <1>4

LEMMA ReadingStep ==
  ASSUME TypeInv, calls' = calls + 1, calls < MaxCalls, StartSample' \in Nat,
         NEW call \in {"ReadInData", "ReadInDatabySample"},
         NEW p \in Nat, p % 8 = 0, NEW ns \in Int, NEW asked \in Int \X Int, NEW counts \in BOOLEAN,
         readdata(call, p, ns, asked, counts)
  PROVE  TypeInv'
<1>1. CASE outcome' = "ok"
  <2>1. ShapeOK' /\ ArrayOK' /\ given' \in Givens
    BY <1>1, ReadType DEF TypeInv
  <2>2. UNCHANGED Nsubband /\ pSubband' = FALSE
    BY <1>1, ReadRest
  <2>3. calls' \in 0 .. MaxCalls
    BY FilDataAssumption DEF TypeInv, RestOK
  <2> QED BY <2>1, <2>2, <2>3 DEF TypeInv, RestOK
<1>2. CASE outcome' # "ok"
  <2>1. Undefined(call)
    BY <1>2 DEF readdata, Fine
  <2> QED BY <2>1, TypeKept DEF Undefined
<1> QED BY <1>1, <1>2

LEMMA ReadInDataType ==
  ASSUME TypeInv, NEW startp \in 0 .. 1, NEW endp \in 1 .. 2, ReadInData(startp, endp)
  PROVE  TypeInv'
<1> DEFINE start == (startp * Nsamples) \div 2
           end == (endp * Nsamples) \div 2
           asked == <<(startp * file.samples) \div 2, (endp * file.samples) \div 2>>
           counts == Nsamples = file.samples
<1>1. /\ readdata("ReadInData", Offset(start), end - start, asked, counts)
      /\ calls' = calls + 1 /\ calls < MaxCalls /\ StartSample' = start
  BY DEF ReadInData, Call
<1>2. ShapeOK /\ Nsamples \in Nat /\ file.samples \in Nat
  BY FileTypes DEF TypeInv, ShapeOK
<1>3. start \in Nat /\ end \in Nat /\ asked \in Int \X Int
  BY <1>2
<1>4. Offset(start) \in Nat /\ Offset(start) % 8 = 0
  BY <1>2, <1>3, OffsetType
<1> HIDE DEF start, end, asked
<1>5. end - start \in Int
  BY <1>3
<1>6. counts \in BOOLEAN
  OBVIOUS
<1> HIDE DEF counts
<1> QED BY <1>1, <1>3, <1>4, <1>5, <1>6, ReadingStep

LEMMA ReadInDatabySampleType ==
  ASSUME TypeInv, NEW start \in 0 .. 2, NEW e \in {-1, 1, 2}, ReadInDatabySample(start, e)
  PROVE  TypeInv'
<1> DEFINE end == IF e < 0 THEN Nsamples ELSE e
           p == position + Offset(start)
           asked == <<start, IF e < 0 THEN file.samples ELSE e>>
           counts == position = 0 /\ (e < 0 => Nsamples = file.samples)
<1>1. /\ readdata("ReadInDatabySample", p, end - start, asked, counts)
      /\ calls' = calls + 1 /\ calls < MaxCalls /\ StartSample' = start
  BY DEF ReadInDatabySample, Call
<1>2. ShapeOK /\ Nsamples \in Nat /\ file.samples \in Nat /\ position \in Nat /\ position % 8 = 0
  BY FileTypes DEF TypeInv, ShapeOK
<1>3. start \in Nat /\ asked \in Int \X Int /\ end - start \in Int
  BY <1>2
<1>4. Offset(start) \in Nat /\ Offset(start) % 8 = 0
  BY <1>2, <1>3, OffsetType
<1>5. p \in Nat /\ p % 8 = 0
  BY <1>2, <1>4
<1> HIDE DEF end, asked, p
<1>6. counts \in BOOLEAN
  OBVIOUS
<1> HIDE DEF counts
<1> QED BY <1>1, <1>3, <1>5, <1>6, ReadingStep

(* A call on the samples that is fine.                                     *)
LEMMA OnDataType ==
  ASSUME TypeInv, NEW call, call # "ok", NEW n \in Int, OnData(call, n),
         outcome' = "ok" =>
           /\ ArrayOK' /\ Nifs' \in Nat \ {0} /\ Nsamples' \in Nat /\ Tsamp' \in Nat \ {0}
           /\ given' \in Givens
  PROVE  TypeInv'
<1>1. calls' = calls + 1 /\ calls < MaxCalls /\ UNCHANGED StartSample
  BY DEF OnData, Call
<1>2. CASE outcome' = "ok"
  <2>1. UNCHANGED <<file, open, position, Nbits, Nsubband, pSubband>>
    BY <1>2 DEF OnData, Undefined, file_vars, sub_vars
  <2>2. calls' \in 0 .. MaxCalls
    BY <1>1, FilDataAssumption DEF TypeInv, RestOK
  <2> QED BY <1>1, <1>2, <2>1, <2>2 DEF TypeInv, ShapeOK, RestOK
<1>3. CASE outcome' # "ok"
  <2>1. Undefined(call)
    BY <1>3 DEF OnData, Fine
  <2> QED BY <1>1, <2>1, TypeKept DEF Undefined, TypeInv, RestOK
<1> QED BY <1>2, <1>3

LEMMA DownSampleType ==
  ASSUME TypeInv, NEW nd \in 2 .. 3, DownSample(nd)
  PROVE  TypeInv'
<1> DEFINE nnew == Nsamples \div nd
<1>1. Nsamples \in Nat /\ nd \in Nat \ {0} /\ Nchans \in Nat /\ Nifs \in Nat \ {0} /\ Tsamp \in Nat \ {0}
      /\ given \in Givens
  BY FilDataAssumption DEF TypeInv, ShapeOK, RestOK
<1>2. nnew \in Nat
  BY <1>1, DivNat
<1> HIDE DEF nnew
<1>3. nnew * Nchans * Nifs \in Nat /\ nnew * nd * Nchans * Nifs \in Nat
  BY <1>1, <1>2, ProductNat
<1>4. OnData("DownSample", nnew * nd * Nchans * Nifs)
  BY DEF DownSample, nnew
<1>5. outcome' = "ok" =>
           /\ pData' = [l \in 0 .. nnew * Nchans * Nifs - 1 |-> Sum(Summed(l, nd))]
           /\ Nsamples' = nnew /\ Tsamp' = Tsamp * nd /\ UNCHANGED Nifs
           /\ given' = [given EXCEPT !.factor = @ * nd]
  BY DEF DownSample, nnew
<1>6. outcome' = "ok" => ArrayOK'
  <2> DEFINE m == nnew * Nchans * Nifs
  <2> SUFFICES ASSUME pData' = [l \in 0 .. m - 1 |-> Sum(Summed(l, nd))] PROVE ArrayOK'
    BY <1>5
  <2>1. m \in Nat
    BY <1>3
  <2> HIDE DEF m
  <2> QED BY <2>1 DEF ArrayOK, IsElem, Sum
<1>7. outcome' = "ok" => given' \in Givens
  <2>1. given.factor * nd \in Nat \ {0}
    BY <1>1, ProductPositive DEF Givens
  <2> QED BY <1>1, <1>5, <2>1, GivenKept
<1>8. Tsamp * nd \in Nat \ {0}
  BY <1>1, ProductPositive
<1> QED BY <1>1, <1>2, <1>3, <1>4, <1>5, <1>6, <1>7, <1>8, OnDataType

LEMMA StripType ==
  ASSUME TypeInv, NEW call, call # "ok", NEW poli, NEW order, Strip(call, poli, order)
  PROVE  TypeInv'
<1>1. Nsamples \in Nat /\ Nchans \in Nat /\ Size \in Nat /\ Tsamp \in Nat \ {0} /\ given \in Givens
  BY FilDataAssumption, Shape DEF TypeInv, ShapeOK, RestOK
<1>2. Nsamples * Nchans \in Nat
  BY <1>1, ProductNat
<1>3. OnData(call, Size)
  BY DEF Strip
<1>4. outcome' = "ok" =>
       /\ pData' = [l \in 0 .. Nsamples * Nchans - 1 |-> Sum(Stripped(l, poli, order))]
       /\ Nifs' = 1
       /\ given' = [given EXCEPT !.pols = [k \in {0} |-> UNION {@[p] : p \in poli \cap DOMAIN @}]]
       /\ UNCHANGED <<Nsamples, Tsamp>>
  BY DEF Strip
<1>5. outcome' = "ok" => ArrayOK'
  BY <1>2, <1>4 DEF ArrayOK, IsElem, Sum
<1>6. outcome' = "ok" => given' \in Givens
  BY <1>1, <1>4, PolsMerged
<1> QED BY <1>1, <1>3, <1>4, <1>5, <1>6, OnDataType

(* A call that subtracts means from some of the samples.                   *)
LEMMA BaseOf ==
  ASSUME NEW s, NEW b, NEW x, NEW c
  PROVE  [[src |-> s, base |-> b, loss |-> x] EXCEPT !.base = @ \cup c]
           = [src |-> s, base |-> b \cup c, loss |-> x]
OBVIOUS

LEMMA BaseAdded ==
  ASSUME NEW e, IsElem(e), NEW c
  PROVE  [e EXCEPT !.base = @ \cup c] = [src |-> e.src, base |-> e.base \cup c, loss |-> e.loss]
<1>1. PICK s, b, x : e = [src |-> s, base |-> b, loss |-> x]
  BY DEF IsElem
<1>2. [e EXCEPT !.base = @ \cup c] = [[src |-> s, base |-> b, loss |-> x] EXCEPT !.base = @ \cup c]
  BY <1>1
<1>3. [[src |-> s, base |-> b, loss |-> x] EXCEPT !.base = @ \cup c]
        = [src |-> s, base |-> b \cup c, loss |-> x]
  BY BaseOf
<1> QED BY <1>1, <1>2, <1>3

LEMMA BaseType ==
  ASSUME TypeInv, NEW n \in Int, NEW call, call # "ok", OnData(call, n),
         NEW B, NEW m \in Int, NEW g \in BOOLEAN,
         outcome' = "ok" =>
           /\ pData' = [l \in DOMAIN pData |->
                IF l < m THEN [pData[l] EXCEPT !.base = @ \cup B[l]] ELSE pData[l]]
           /\ given' = [given EXCEPT !.onepol = g]
           /\ UNCHANGED_SHAPE
  PROVE  TypeInv'
<1>1. PICK k \in Nat : DOMAIN pData = 0 .. k - 1 /\ \A l \in 0 .. k - 1 : IsElem(pData[l])
  BY DEF TypeInv, ArrayOK
<1>2. outcome' = "ok" => ArrayOK'
  <2> SUFFICES ASSUME pData' = [l \in DOMAIN pData |->
                        IF l < m THEN [pData[l] EXCEPT !.base = @ \cup B[l]] ELSE pData[l]]
               PROVE  ArrayOK'
    OBVIOUS
  <2>1. DOMAIN pData' = 0 .. k - 1
    BY <1>1
  <2>2. \A l \in 0 .. k - 1 : IsElem(pData'[l])
    <3> SUFFICES ASSUME NEW l \in 0 .. k - 1 PROVE IsElem(pData'[l])
      OBVIOUS
    <3>1. IsElem(pData[l]) /\ l \in DOMAIN pData
      BY <1>1
    <3>2. [pData[l] EXCEPT !.base = @ \cup B[l]]
            = [src |-> pData[l].src, base |-> pData[l].base \cup B[l], loss |-> pData[l].loss]
      BY <3>1, BaseAdded
    <3>3. IsElem([src |-> pData[l].src, base |-> pData[l].base \cup B[l], loss |-> pData[l].loss])
      BY DEF IsElem
    <3>4. CASE l < m
      <4>1. pData'[l] = [pData[l] EXCEPT !.base = @ \cup B[l]]
        BY <3>1, <3>4
      <4> QED BY <3>2, <3>3, <4>1
    <3>5. CASE ~(l < m)
      BY <3>1, <3>5
    <3> QED BY <3>4, <3>5
  <2> QED BY <2>1, <2>2 DEF ArrayOK
<1>3. outcome' = "ok" => given' \in Givens
  BY GivenKept DEF TypeInv, RestOK
<1>4. /\ Nifs \in Nat \ {0} /\ Nsamples \in Nat /\ Tsamp \in Nat \ {0}
  BY DEF TypeInv, ShapeOK
<1> QED BY <1>2, <1>3, <1>4, OnDataType DEF UNCHANGED_SHAPE

LEMMA ZeroDMType ==
  ASSUME TypeInv, NEW method, ZeroDM(method)
  PROVE  TypeInv'
<1> DEFINE B == [l \in DOMAIN pData |-> Sum(Subtracted(l, method)).src]
           g == given.onepol /\ (Nifs = 1 \/ file.order = "chan_if")
<1>1. Size \in Int /\ OnData("ZeroDM", Size)
  BY Shape DEF TypeInv, ZeroDM
<1>2. outcome' = "ok" =>
       pData' = [l \in DOMAIN pData |->
         IF l < Size THEN [pData[l] EXCEPT !.base = @ \cup B[l]] ELSE pData[l]]
  BY DEF ZeroDM
<1>3. outcome' = "ok" =>
        /\ given' = [given EXCEPT !.onepol = g]
        /\ UNCHANGED_SHAPE
  BY DEF ZeroDM
<1>4. g \in BOOLEAN
  BY DEF TypeInv, RestOK, Givens
<1> HIDE DEF B, g
<1> QED BY <1>1, <1>2, <1>3, <1>4, BaseType

LEMMA SubtractMeansType ==
  ASSUME TypeInv, NEW call \in {"RemoveBaseline", "Equalize"}, SubtractMeans(call)
  PROVE  TypeInv'
<1> DEFINE B == [l \in DOMAIN pData |-> Sum(Column(l)).src]
           m == Nsamples * Nchans
           g == given.onepol /\ Nifs = 1
<1>1. m \in Int /\ OnData(call, m)
  <2>1. Nsamples \in Nat /\ Nchans \in Nat
    BY FilDataAssumption DEF TypeInv, ShapeOK
  <2> QED BY <2>1 DEF SubtractMeans
<1>2. outcome' = "ok" =>
       pData' = [l \in DOMAIN pData |->
         IF l < m THEN [pData[l] EXCEPT !.base = @ \cup B[l]] ELSE pData[l]]
  BY DEF SubtractMeans
<1>3. outcome' = "ok" =>
        /\ given' = [given EXCEPT !.onepol = g]
        /\ UNCHANGED_SHAPE
  BY DEF SubtractMeans
<1>4. g \in BOOLEAN
  BY DEF TypeInv, RestOK, Givens
<1> HIDE DEF B, m, g
<1> QED BY <1>1, <1>2, <1>3, <1>4, BaseType

(* Calls that change nothing but what they return.                         *)
LEMMA OnlyResult ==
  ASSUME TypeInv, NEW call, call # "ok", NEW n \in Int, OnData(call, n),
         outcome' = "ok" => UNCHANGED <<pData, given>> /\ UNCHANGED_SHAPE
  PROVE  TypeInv'
<1>1. /\ ArrayOK /\ Nifs \in Nat \ {0} /\ Nsamples \in Nat /\ Tsamp \in Nat \ {0} /\ given \in Givens
  BY DEF TypeInv, ShapeOK, RestOK
<1>2. outcome' = "ok" => ArrayOK'
  BY <1>1 DEF ArrayOK
<1> QED BY <1>1, <1>2, OnDataType DEF UNCHANGED_SHAPE

-----------------------------------------------------------------------------
(* Samples, channels and polarisations as the digits of a number.          *)

LEMMA LowDigits ==
  ASSUME NEW C \in Nat \ {0}, NEW P \in Nat \ {0}, NEW j \in 0 .. C - 1, NEW k \in 0 .. P - 1
  PROVE  j * P + k \in 0 .. C * P - 1
<1>1. j * P \in Nat /\ C * P \in Nat /\ (C - 1) * P \in Nat
  BY ProductNat
<1>2. j * P <= (C - 1) * P
  BY ProductOrder
<1>3. (C - 1) * P = C * P - P
  OBVIOUS
<1> QED BY <1>1, <1>2, <1>3

Number(C, P, i, j, k) == i * C * P + j * P + k

LEMMA ThreeDigits ==
  ASSUME NEW C \in Nat \ {0}, NEW P \in Nat \ {0},
         NEW i \in Nat, NEW j \in 0 .. C - 1, NEW k \in 0 .. P - 1
  PROVE  LET l == Number(C, P, i, j, k)
         IN  /\ l \in Nat /\ l = i * (C * P) + (j * P + k)
             /\ l \div (C * P) = i /\ l % (C * P) = j * P + k
             /\ l % P = k /\ (l \div P) % C = j
<1> DEFINE l == Number(C, P, i, j, k)
           r == j * P + k
<1>1. r \in 0 .. C * P - 1 /\ C * P \in Nat \ {0}
  BY LowDigits, ProductPositive
<1>2. l = i * (C * P) + r
  BY DEF Number
<1>3. l = (i * C + j) * P + k /\ i * C + j \in Nat
  <2>1. i * C \in Nat
    BY ProductNat
  <2> QED BY <2>1 DEF Number
<1>4. i * (C * P) \in Nat
  BY <1>1, ProductNat
<1> HIDE DEF l
<1>5. l \div (C * P) = i /\ l % (C * P) = r
  BY <1>1, <1>2, ModOfMultiple
<1>6. l % P = k /\ l \div P = i * C + j
  BY <1>3, ModOfMultiple
<1>7. (i * C + j) % C = j
  BY ModOfMultiple
<1> QED BY <1>1, <1>2, <1>4, <1>5, <1>6, <1>7 DEF l

LEMMA DigitsThree ==
  ASSUME NEW C \in Nat \ {0}, NEW P \in Nat \ {0}, NEW l \in Nat
  PROVE  \E i \in Nat, j \in 0 .. C - 1, k \in 0 .. P - 1 : l = Number(C, P, i, j, k)
<1>1. PICK q \in Nat, k \in 0 .. P - 1 : l = q * P + k
  BY DigitsOf
<1>2. PICK i \in Nat, j \in 0 .. C - 1 : q = i * C + j
  BY DigitsOf
<1>3. l = Number(C, P, i, j, k)
  BY <1>1, <1>2 DEF Number
<1> QED BY <1>3

(* The first digit of a number below n times C * P.                        *)
LEMMA FirstDigit ==
  ASSUME NEW m \in Nat \ {0}, NEW i \in Nat, NEW r \in 0 .. m - 1, NEW n \in Nat
  PROVE  i * m + r < n * m <=> i < n
<1>1. i * m \in Nat /\ n * m \in Nat
  BY ProductNat
<1>2. CASE i < n
  <2>1. (i + 1) * m <= n * m
    BY <1>2, ProductOrder
  <2>2. (i + 1) * m = i * m + m
    OBVIOUS
  <2> QED BY <1>1, <1>2, <2>1, <2>2
<1>3. CASE i >= n
  <2>1. n * m <= i * m
    BY <1>3, ProductOrder
  <2> QED BY <1>1, <1>3, <2>1
<1> QED BY <1>2, <1>3

LEMMA IndexIs ==
  ASSUME ShapeOK, NEW i \in Nat, NEW j \in Channels, NEW k \in Pols
  PROVE  /\ Index(i, j, k) \in Nat
         /\ Index(i, j, k) \div (Nchans * Nifs) = i
         /\ Index(i, j, k) % Nifs = k
         /\ (Index(i, j, k) \div Nifs) % Nchans = j
         /\ Index(i, j, k) < Size <=> i < Nsamples
<1>1. Nchans \in Nat \ {0} /\ Nifs \in Nat \ {0} /\ Nsamples \in Nat
  BY FilDataAssumption DEF ShapeOK
<1>2. j \in 0 .. Nchans - 1 /\ k \in 0 .. Nifs - 1
  BY DEF Channels, Pols
<1> DEFINE l == Number(Nchans, Nifs, i, j, k)
<1>3. Index(i, j, k) = l
  BY DEF Index, Number
<1>4. /\ l \in Nat /\ l = i * (Nchans * Nifs) + (j * Nifs + k)
      /\ l \div (Nchans * Nifs) = i
      /\ l % Nifs = k /\ (l \div Nifs) % Nchans = j
  BY <1>1, <1>2, ThreeDigits
<1> HIDE DEF l
<1>5. j * Nifs + k \in 0 .. Nchans * Nifs - 1 /\ Nchans * Nifs \in Nat \ {0}
  BY <1>1, <1>2, LowDigits, ProductPositive
<1>6. Size = Nsamples * (Nchans * Nifs)
  BY Shape
<1>7. l < Size <=> i < Nsamples
  BY <1>1, <1>4, <1>5, <1>6, FirstDigit
<1> QED BY <1>3, <1>4, <1>7

LEMMA IndexFor ==
  ASSUME ShapeOK, NEW l \in Nat
  PROVE  \E i \in Nat, j \in Channels, k \in Pols : l = Index(i, j, k)
<1>1. Nchans \in Nat \ {0} /\ Nifs \in Nat \ {0}
  BY FilDataAssumption DEF ShapeOK
<1> QED BY <1>1, DigitsThree DEF Number, Index, Channels, Pols

-----------------------------------------------------------------------------
(* The rest of the calls keep the types.                                   *)

LEMMA ShiftedIn ==
  ASSUME ShapeOK, NEW sfti \in [Channels -> Shifts],
         NEW i \in Int, NEW j \in Channels, NEW k \in Pols
  PROVE  /\ sfti[j] \in Int
         /\ Shifted(i, j, k, sfti) \subseteq 0 .. Size - 1
<1>1. sfti[j] \in Int
  BY FilDataAssumption
<1> DEFINE m == i + sfti[j]
<1>2. CASE m < Nsamples /\ m > 0
  <2>1. m \in Nat
    BY <1>1, <1>2
  <2>2. Index(m, j, k) \in Nat /\ Index(m, j, k) < Size
    BY <1>2, <2>1, IndexIs
  <2>3. Size \in Nat
    BY Shape
  <2> QED BY <1>1, <1>2, <2>2, <2>3 DEF Shifted
<1>3. CASE ~(m < Nsamples /\ m > 0)
  BY <1>1, <1>3 DEF Shifted
<1> QED BY <1>1, <1>2, <1>3

LEMMA ReadIn ==
  ASSUME ShapeOK, NEW sfti \in [Channels -> Shifts]
  PROVE  LET read == UNION {Sample(i, Pols, sfti) : i \in 0 .. Nsamples - 1}
             n == Max({0} \cup {l + 1 : l \in read})
         IN  n \in Int /\ n <= Size
<1> DEFINE read == UNION {Sample(i, Pols, sfti) : i \in 0 .. Nsamples - 1}
           T == {0} \cup {l + 1 : l \in read}
<1>1. read \subseteq 0 .. Size - 1
  BY ShiftedIn DEF Sample
<1>2. Size \in Nat
  BY Shape
<1> HIDE DEF read
<1>3. T \in SUBSET (0 .. Size) /\ T # {}
  BY <1>1, <1>2
<1>4. Max(T) \in T
  BY <1>2, <1>3, Largest
<1> QED BY <1>2, <1>3, <1>4 DEF read

LEMMA DedisperseType ==
  ASSUME TypeInv, NEW call \in {"Dedisperse", "FormDedisperseChannelData"},
         NEW sfti \in [Channels -> Shifts], NEW pols, NEW channels,
         DedisperseInto(call, sfti, pols, channels)
  PROVE  TypeInv'
<1> DEFINE n == Max({0} \cup {l + 1 : l \in UNION {Sample(i, Pols, sfti) : i \in 0 .. Nsamples - 1}})
<1>1. n \in Int
  BY ReadIn DEF TypeInv
<1>2. OnData(call, n)
  BY DEF DedisperseInto
<1>3. outcome' = "ok" => UNCHANGED <<pData, given>> /\ UNCHANGED_SHAPE
  BY DEF DedisperseInto
<1> HIDE DEF n
<1> QED BY <1>1, <1>2, <1>3, OnlyResult

LEMMA FormZeroType ==
  ASSUME TypeInv, FormZeroDMSeriesandStatistics
  PROVE  TypeInv'
<1>1. Size \in Int
  BY Shape DEF TypeInv
<1> QED BY <1>1, OnlyResult DEF FormZeroDMSeriesandStatistics

LEMMA ReadHeaderType ==
  ASSUME TypeInv, ReadInHeader
  PROVE  TypeInv'
<1>1. /\ file' \in Files /\ open' = TRUE /\ position' = 0
      /\ Nifs' = file'.nifs /\ Nbits' = file'.nbits /\ Tsamp' = file'.tsamp
      /\ Nsamples' = file'.samples /\ calls' = calls + 1 /\ calls < MaxCalls
      /\ given' = [given EXCEPT !.fresh = FALSE]
      /\ UNCHANGED <<StartSample, pData, Nsubband, pSubband>>
  BY DEF ReadInHeader, Call, sub_vars
<1>2. ShapeOK'
  BY <1>1, FileTypes DEF ShapeOK
<1>3. ArrayOK'
  BY <1>1 DEF TypeInv, ArrayOK
<1>4. given' \in Givens
  BY <1>1, GivenKept DEF TypeInv, RestOK
<1> QED BY <1>1, <1>2, <1>3, <1>4, FilDataAssumption DEF TypeInv, RestOK

LEMMA ReadHeaderFailsType ==
  ASSUME TypeInv, ReadInHeaderFails
  PROVE  TypeInv'
<1>1. /\ calls' = calls + 1 /\ calls < MaxCalls
      /\ given' = [given EXCEPT !.fresh = FALSE]
      /\ UNCHANGED <<file, open, position, Nsamples, StartSample, pData, Nsubband, pSubband>>
  BY DEF ReadInHeaderFails, Call, sub_vars, file_vars
<1>2. Nifs' \in Nat \ {0} /\ Nbits' \in {1, 8, 16, 32} /\ Tsamp' \in Nat \ {0}
  BY FileTypes DEF ReadInHeaderFails, TypeInv, ShapeOK
<1>3. ShapeOK' /\ ArrayOK'
  BY <1>1, <1>2 DEF TypeInv, ShapeOK, ArrayOK
<1>4. given' \in Givens
  BY <1>1, GivenKept DEF TypeInv, RestOK
<1> QED BY <1>1, <1>3, <1>4, FilDataAssumption DEF TypeInv, RestOK

LEMMA FreeType ==
  ASSUME TypeInv, Free
  PROVE  TypeInv'
<1>1. /\ calls' = calls + 1 /\ calls < MaxCalls
      /\ pData' = <<>> /\ pSubband' = FALSE
      /\ given' = [given EXCEPT !.fresh = FALSE]
      /\ UNCHANGED <<file, open, position, Nifs, Nbits, Tsamp, Nsamples, StartSample, Nsubband>>
  BY DEF Free, Call, header_vars, file_vars
<1>2. ArrayOK'
  BY <1>1, EmptyArray DEF ArrayOK
<1>3. given' \in Givens
  BY <1>1, GivenKept DEF TypeInv, RestOK
<1>4. calls' \in 0 .. MaxCalls
  BY <1>1, FilDataAssumption DEF TypeInv, RestOK
<1>5. ShapeOK'
  BY <1>1 DEF TypeInv, ShapeOK
<1> QED BY <1>1, <1>2, <1>3, <1>4, <1>5 DEF TypeInv, RestOK

LEMMA CloseType ==
  ASSUME TypeInv, CloseFile
  PROVE  TypeInv'
<1>1. /\ calls' = calls + 1 /\ calls < MaxCalls /\ UNCHANGED StartSample
  BY DEF CloseFile, Call
<1>2. open' \in BOOLEAN
      /\ UNCHANGED <<file, position, header_vars, Nsamples, pData, sub_vars, given>>
  BY DEF CloseFile, Undefined, file_vars, TypeInv, ShapeOK
<1>3. UNCHANGED <<file, position, Nifs, Nbits, Tsamp, Nsamples, pData, Nsubband, pSubband, given>>
  BY <1>2 DEF header_vars, sub_vars
<1>4. calls' \in 0 .. MaxCalls
  BY <1>1, FilDataAssumption DEF TypeInv, RestOK
<1>5. ShapeOK' /\ ArrayOK'
  BY <1>2, <1>3 DEF TypeInv, ShapeOK, ArrayOK
<1> QED BY <1>1, <1>3, <1>4, <1>5 DEF TypeInv, RestOK

LEMMA BoxType ==
  ASSUME TypeInv, NEW wi, ApplyBoxFilter(wi)
  PROVE  TypeInv'
<1>1. /\ calls' = calls + 1 /\ calls < MaxCalls /\ UNCHANGED StartSample
  BY DEF ApplyBoxFilter, Call
<1>2. UNCHANGED <<file_vars, header_vars, Nsamples, pData, sub_vars, given>>
  BY DEF ApplyBoxFilter, Undefined
<1> QED BY <1>1, <1>2, TypeKept DEF TypeInv, RestOK

LEMMA OverType ==
  ASSUME TypeInv, NEW call, NEW fails, OverSubbands(call, fails)
  PROVE  TypeInv'
<1>1. /\ calls' = calls + 1 /\ calls < MaxCalls /\ UNCHANGED StartSample
  BY DEF OverSubbands, Call
<1>2. UNCHANGED <<file_vars, header_vars, Nsamples, pData, sub_vars, given>>
  BY DEF OverSubbands, Undefined
<1> QED BY <1>1, <1>2, TypeKept DEF TypeInv, RestOK

-----------------------------------------------------------------------------
(* The number of subbands.                                                 *)

LEMMA CeilIs ==
  ASSUME NEW n \in Nat, NEW d \in Nat \ {0}
  PROVE  Ceil(n, d) \in Nat
<1> DEFINE x == n + d - 1
           q == x \div d
<1>1. x \in Nat
  OBVIOUS
<1> HIDE DEF x
<1>2. q \in Nat
  BY <1>1, DivNat
<1>3. Ceil(n, d) = q
  BY DEF Ceil, x
<1> QED BY <1>2, <1>3

LEMMA SquareRootIs ==
  ASSUME NEW n \in Nat \ {0}
  PROVE  SquareRoot(n) \in 1 .. n
<1> DEFINE P(r) == r * r <= n /\ n < (r + 1) * (r + 1)
           S == {r \in 0 .. n : r * r <= n}
           m == Max(S)
<1>1. \E r \in 0 .. n : P(r)
  <2>1. 0 \in S
    OBVIOUS
  <2>2. m \in S /\ \A x \in S : m >= x
    BY <2>1, Largest
  <2>3. m + 1 \notin S
    BY <2>2
  <2> HIDE DEF m
  <2>4. CASE m = n
    <3>1. (n + 1) * (n + 1) = n * n + n + n + 1 /\ n * n \in Nat
      BY ProductNat
    <3> QED BY <2>2, <2>4, <3>1
  <2>5. CASE m # n
    <3>1. m + 1 \in 0 .. n /\ m + 1 \in Int /\ (m + 1) * (m + 1) \in Int
      BY <2>2, <2>5
    <3> QED BY <2>2, <2>3, <3>1
  <2> QED BY <2>4, <2>5
<1>2. SquareRoot(n) \in 0 .. n /\ P(SquareRoot(n))
  BY <1>1 DEF SquareRoot
<1>3. ~P(0)
  OBVIOUS
<1> QED BY <1>2, <1>3

LEMMA SubbandCount ==
  ASSUME NEW ddm \in Nat \ {0}, NEW span \in Nat
  PROVE  NMainDM(ddm, span) \in Nat
<1>1. Ceil(span, ddm) + 1 \in Nat
  <2>1. Ceil(span, ddm) \in Nat
    BY CeilIs
  <2> QED BY <2>1
<1>2. SquareRoot(Nchans) \in Nat \ {0}
  BY SquareRootIs, FilDataAssumption
<1> QED BY <1>1, <1>2, CeilIs DEF NMainDM

LEMMA SubbandType ==
  ASSUME TypeInv, NEW ddm \in Nat \ {0}, NEW span \in Nat, SubbandDeDispersion(ddm, span)
  PROVE  TypeInv'
<1>1. /\ calls' = calls + 1 /\ calls < MaxCalls /\ UNCHANGED StartSample
  BY DEF SubbandDeDispersion, Call
<1>2. CASE outcome' = "ok"
  <2>1. /\ Nsubband' = NMainDM(ddm, span) /\ pSubband' = TRUE
        /\ UNCHANGED <<file, open, position, Nifs, Nbits, Tsamp, Nsamples, pData, given>>
    BY <1>2 DEF SubbandDeDispersion, file_vars, header_vars
  <2>2. Nsubband' \in Nat
    BY <2>1, SubbandCount
  <2>3. Nsubband' # Unset
    BY <2>2, FilDataAssumption
  <2>4. calls' \in 0 .. MaxCalls
    BY <1>1, FilDataAssumption DEF TypeInv, RestOK
  <2>5. ShapeOK' /\ ArrayOK'
    BY <2>1 DEF TypeInv, ShapeOK, ArrayOK
  <2> QED BY <1>1, <2>1, <2>2, <2>3, <2>4, <2>5 DEF TypeInv, RestOK
<1>3. CASE outcome' # "ok"
  <2>1. Undefined("SubbandDeDispersion")
    BY <1>3 DEF SubbandDeDispersion, dmsub2tim, Fine
  <2> QED BY <1>1, <2>1, TypeKept DEF Undefined, TypeInv, RestOK
<1> QED BY <1>2, <1>3

LEMMA TypeInit ==
  ASSUME DataInit
  PROVE  TypeInv
<1>1. ShapeOK
  BY FileTypes DEF DataInit, ShapeOK
<1>2. ArrayOK
  BY EmptyArray DEF DataInit, ArrayOK
<1>3. given \in Givens
  <2>1. Nifs \in Nat /\ Tsamp \in Nat \ {0}
    BY <1>1 DEF ShapeOK
  <2>2. [k \in 0 .. Nifs - 1 |-> {k}] \in [0 .. Nifs - 1 -> SUBSET Nat]
    BY <2>1
  <2>3. [k \in 0 .. Nifs - 1 |-> {k}] \in PolSets
    BY <2>1, <2>2 DEF PolSets
  <2> QED BY <2>1, <2>3 DEF DataInit, Givens
<1>4. calls \in 0 .. MaxCalls /\ StartSample = Unset /\ Nsubband = Unset /\ pSubband = FALSE
  BY FilDataAssumption DEF DataInit
<1> QED BY <1>1, <1>2, <1>3, <1>4 DEF TypeInv, RestOK

(* Where each call of DataNext is told apart.                              *)
LEMMA TypeStep ==
  ASSUME TypeInv, [DataNext]_data_vars
  PROVE  TypeInv'
<1>1. ASSUME ReadInHeader \/ ReadInHeaderFails \/ Free \/ CloseFile PROVE TypeInv'
  BY <1>1, ReadHeaderType, ReadHeaderFailsType, FreeType, CloseType
<1>2. ASSUME NEW startp \in 0 .. 1, NEW endp \in 1 .. 2, ReadInData(startp, endp) PROVE TypeInv'
  BY <1>2, ReadInDataType
<1>3. ASSUME NEW start \in 0 .. 2, NEW end \in {-1, 1, 2}, ReadInDatabySample(start, end)
      PROVE  TypeInv'
  BY <1>3, ReadInDatabySampleType
<1>4. ASSUME NEW nd \in 2 .. 3, DownSample(nd) PROVE TypeInv'
  BY <1>4, DownSampleType
<1>5. ASSUME NEW poli, Strip2OnePol(poli) \/ Strip2OnePol_STD(poli) PROVE TypeInv'
  BY <1>5, StripType DEF Strip2OnePol, Strip2OnePol_STD
<1>6. ASSUME NEW method, ZeroDM(method) PROVE TypeInv'
  BY <1>6, ZeroDMType
<1>7. ASSUME FormZeroDMSeriesandStatistics PROVE TypeInv'
  BY <1>7, FormZeroType
<1>8. ASSUME NEW call \in {"RemoveBaseline", "Equalize"}, SubtractMeans(call) PROVE TypeInv'
  BY <1>8, SubtractMeansType
<1>9. ASSUME Dedisperse \/ FormDedisperseChannelData PROVE TypeInv'
  BY <1>9, DedisperseType DEF Dedisperse, FormDedisperseChannelData
<1>10. ASSUME NEW wi, ApplyBoxFilter(wi) PROVE TypeInv'
  BY <1>10, BoxType
<1>11. ASSUME NEW ddm \in 1 .. 2, NEW span \in 0 .. 5, SubbandDeDispersion(ddm, span) PROVE TypeInv'
  BY <1>11, SubbandType
<1>12. ASSUME BoxCarFilter \/ WriteSubbandData \/ WriteTimData PROVE TypeInv'
  BY <1>12, OverType DEF BoxCarFilter, WriteSubbandData, WriteTimData
<1>13. ASSUME UNCHANGED data_vars PROVE TypeInv'
  BY <1>13 DEF data_vars, file_vars, header_vars, sub_vars, TypeInv, ShapeOK, ArrayOK, RestOK
<1> QED
  BY <1>1, <1>2, <1>3, <1>4, <1>5, <1>6, <1>7, <1>8, <1>9, <1>10, <1>11, <1>12, <1>13 DEF DataNext

LEMMA TypeInvAlways == DataSpec => []TypeInv
BY TypeInit, TypeStep, PTL DEF DataSpec

(* Whatever calls are made, fp stands at the beginning of a byte, the      *)
(* members are of their types and pData is an array from 0                 *)
(* (filterbank.cpp:461-546).                                               *)
THEOREM DataTypeCorrect == DataSpec => []FilDataTypeOK
<1>1. TypeInv => FilDataTypeOK
  BY ArrayLength DEF TypeInv, ShapeOK, ArrayOK, RestOK, FilDataTypeOK
<1> QED BY <1>1, TypeInvAlways, PTL

-----------------------------------------------------------------------------
(* Which calls are undefined, and when.                                    *)

(* What is read after the header fills the array.                          *)
FreshFits == given.fresh /\ Nbits # 16 => Size <= Length

LEMMA FitsAfterRead ==
  ASSUME TypeInv, NEW call \in {"ReadInData", "ReadInDatabySample"},
         NEW p \in Nat, p % 8 = 0, NEW ns \in Int, NEW asked, NEW counts,
         readdata(call, p, ns, asked, counts), outcome' = "ok", Nbits # 16
  PROVE  /\ Nsamples' \in Nat /\ UNCHANGED <<Nifs, Nbits>>
         /\ Size' = Nsamples' * (Nchans * Nifs)
         /\ Size' <= Length' /\ Length' = Cells(p, ns)
<1> DEFINE v == Got(p, ns) * (Unit \div Nbits)
           n == Cells(p, ns)
<1>1. /\ ~(Wanted(ns) < 0)
      /\ pData' = [l \in 0 .. n - 1 |-> Cell(p, ns, l)]
      /\ Nsamples' = Samples(v)
  BY ReadSamples
<1>2. UNCHANGED <<Nifs, Nbits>>
  BY ReadRest DEF header_vars
<1>3. n \in Nat /\ v \in Nat /\ v <= n
  BY <1>1, ReadShape DEF TypeInv
<1>4. Samples(v) \in Nat /\ Samples(v) * (Nchans * Nifs) <= v
  BY <1>3, SamplesFit DEF TypeInv
<1> HIDE DEF v, n
<1>5. DOMAIN pData' = 0 .. n - 1
  BY <1>1
<1>6. Length' = n
  BY <1>3, <1>5, FS_Interval DEF Length
<1>7. Size' = Nsamples' * (Nchans * Nifs)
  <2>1. Nsamples' \in Nat /\ Nifs \in Nat /\ Nchans \in Nat
    BY <1>1, <1>4, FilDataAssumption DEF TypeInv, ShapeOK
  <2> QED BY <1>2, <2>1 DEF Size
<1>8. Nchans * Nifs \in Nat
  BY Shape DEF TypeInv
<1>9. Size' <= Length'
  <2>1. Samples(v) * (Nchans * Nifs) \in Nat
    BY <1>4, <1>8, ProductNat
  <2> QED BY <1>1, <1>3, <1>4, <1>6, <1>7, <2>1
<1> QED BY <1>1, <1>2, <1>4, <1>6, <1>7, <1>9 DEF n

(* The arguments of the two readings are of their types.                   *)
LEMMA DataSeek ==
  ASSUME TypeInv, NEW startp \in 0 .. 1, NEW endp \in 1 .. 2
  PROVE  LET start == (startp * Nsamples) \div 2
             end == (endp * Nsamples) \div 2
         IN  /\ start \in Nat /\ end \in Nat /\ (startp <= endp => start <= end)
             /\ Offset(start) \in Nat /\ Offset(start) % 8 = 0
<1> DEFINE start == (startp * Nsamples) \div 2
           end == (endp * Nsamples) \div 2
<1>1. ShapeOK /\ Nsamples \in Nat
  BY DEF TypeInv, ShapeOK
<1>2. start \in Nat /\ end \in Nat /\ (startp <= endp => start <= end)
  BY <1>1
<1> HIDE DEF start, end
<1>3. Offset(start) \in Nat /\ Offset(start) % 8 = 0
  BY <1>1, <1>2, OffsetType
<1> QED BY <1>2, <1>3 DEF start, end

LEMMA SampleSeek ==
  ASSUME TypeInv, NEW start \in 0 .. 2, NEW e \in {-1, 1, 2}
  PROVE  LET end == IF e < 0 THEN Nsamples ELSE e
             p == position + Offset(start)
         IN  /\ p \in Nat /\ p % 8 = 0 /\ end \in Nat
             /\ file.samples \in Nat /\ start \in Nat
<1>1. ShapeOK /\ Nsamples \in Nat /\ file.samples \in Nat /\ position \in Nat /\ position % 8 = 0
  BY FileTypes DEF TypeInv, ShapeOK
<1>2. Offset(start) \in Nat /\ Offset(start) % 8 = 0
  BY <1>1, OffsetType
<1> QED BY <1>1, <1>2

LEMMA FitsRead ==
  ASSUME TypeInv, NEW call \in {"ReadInData", "ReadInDatabySample"},
         NEW p \in Nat, p % 8 = 0, NEW ns \in Int, NEW asked, NEW counts,
         FreshFits, readdata(call, p, ns, asked, counts)
  PROVE  FreshFits'
<1>1. CASE outcome' # "ok"
  <2>1. Undefined(call)
    BY <1>1 DEF readdata, Fine
  <2> QED BY <2>1 DEF Undefined, header_vars, FreshFits, Size, Length
<1>2. CASE outcome' = "ok" /\ Nbits = 16
  <2>1. UNCHANGED Nbits
    BY <1>2, ReadRest DEF header_vars
  <2> QED BY <1>2, <2>1 DEF FreshFits
<1>3. CASE outcome' = "ok" /\ Nbits # 16
  BY <1>3, FitsAfterRead DEF FreshFits
<1> QED BY <1>1, <1>2, <1>3

(* What a call on the samples leaves when it is undefined.                 *)
LEMMA FitsOnData ==
  ASSUME NEW call, call # "ok", NEW n, OnData(call, n), FreshFits,
         outcome' = "ok" => FreshFits'
  PROVE  FreshFits'
<1>1. CASE outcome' # "ok"
  <2>1. Undefined(call)
    BY <1>1 DEF OnData, Fine
  <2> QED BY <2>1 DEF Undefined, header_vars, FreshFits, Size, Length
<1> QED BY <1>1

LEMMA SameFits ==
  ASSUME FreshFits, UNCHANGED <<Nifs, Nbits, Nsamples>>, given'.fresh = given.fresh,
         DOMAIN pData' = DOMAIN pData
  PROVE  FreshFits'
BY DEF FreshFits, Size, Length

LEMMA FitsDownSample ==
  ASSUME TypeInv, FreshFits, NEW nd \in 2 .. 3, DownSample(nd)
  PROVE  FreshFits'
<1> DEFINE nnew == Nsamples \div nd
<1>1. Nsamples \in Nat /\ nd \in Nat \ {0} /\ Nchans \in Nat /\ Nifs \in Nat
  BY FilDataAssumption DEF TypeInv, ShapeOK
<1>2. nnew \in Nat
  BY <1>1, DivNat
<1>3. OnData("DownSample", nnew * nd * Nchans * Nifs)
  BY DEF DownSample
<1>4. outcome' = "ok" => FreshFits'
  <2> SUFFICES ASSUME outcome' = "ok" PROVE Size' = Length' /\ Size' \in Nat
    BY DEF FreshFits
  <2> DEFINE m == nnew * Nchans * Nifs
  <2>1. /\ pData' = [l \in 0 .. m - 1 |-> Sum(Summed(l, nd))]
        /\ Nsamples' = nnew /\ UNCHANGED Nifs
    BY DEF DownSample
  <2>2. m \in Nat
    BY <1>1, <1>2, ProductNat
  <2>3. Size' = m
    BY <2>1 DEF Size
  <2> HIDE DEF m
  <2>4. DOMAIN pData' = 0 .. m - 1
    BY <2>1
  <2>5. Length' = m
    BY <2>2, <2>4, FS_Interval DEF Length
  <2> QED BY <2>2, <2>3, <2>5
<1> HIDE DEF nnew
<1> QED BY <1>3, <1>4, FitsOnData

LEMMA FitsStrip ==
  ASSUME TypeInv, FreshFits, NEW call, call # "ok", NEW poli, NEW order, Strip(call, poli, order)
  PROVE  FreshFits'
<1>1. OnData(call, Size)
  BY DEF Strip
<1>2. outcome' = "ok" => FreshFits'
  <2> SUFFICES ASSUME outcome' = "ok" PROVE Size' = Length' /\ Size' \in Nat
    BY DEF FreshFits
  <2> DEFINE m == Nsamples * Nchans
  <2>1. /\ pData' = [l \in 0 .. m - 1 |-> Sum(Stripped(l, poli, order))]
        /\ UNCHANGED Nsamples /\ Nifs' = 1
    BY DEF Strip
  <2>2. m \in Nat
    BY FilDataAssumption, ProductNat DEF TypeInv, ShapeOK
  <2>3. Size' = m
    BY <2>1, <2>2 DEF Size
  <2> HIDE DEF m
  <2>4. DOMAIN pData' = 0 .. m - 1
    BY <2>1
  <2>5. Length' = m
    BY <2>2, <2>4, FS_Interval DEF Length
  <2> QED BY <2>2, <2>3, <2>5
<1> QED BY <1>1, <1>2, FitsOnData

LEMMA FitsSame ==
  ASSUME TypeInv, FreshFits, NEW call, call # "ok", NEW n, OnData(call, n),
         outcome' = "ok" =>
           /\ DOMAIN pData' = DOMAIN pData
           /\ given'.fresh = given.fresh /\ UNCHANGED_SHAPE
  PROVE  FreshFits'
<1>1. outcome' = "ok" => UNCHANGED Nbits
  BY DEF OnData, Undefined
<1> QED BY <1>1, FitsOnData, SameFits DEF UNCHANGED_SHAPE

LEMMA GivenFresh ==
  ASSUME given \in Givens
  PROVE  \A g : [given EXCEPT !.onepol = g].fresh = given.fresh
BY DEF Givens

LEMMA FitsStep ==
  ASSUME TypeInv, FreshFits, [DataNext]_data_vars
  PROVE  FreshFits'
<1> USE DEF FreshFits, Size, Length, header_vars
<1>0. given \in Givens
  BY DEF TypeInv, RestOK
<1>1. ASSUME ReadInHeader \/ ReadInHeaderFails \/ Free PROVE FreshFits'
  <2>1. given' = [given EXCEPT !.fresh = FALSE]
    BY <1>1 DEF ReadInHeader, ReadInHeaderFails, Free
  <2> QED BY <1>0, <2>1 DEF Givens
<1>2. ASSUME CloseFile PROVE FreshFits'
  BY <1>2 DEF CloseFile, Undefined
<1>3. ASSUME NEW startp \in 0 .. 1, NEW endp \in 1 .. 2, ReadInData(startp, endp) PROVE FreshFits'
  <2> DEFINE start == (startp * Nsamples) \div 2
             end == (endp * Nsamples) \div 2
  <2>1. PICK asked, counts : readdata("ReadInData", Offset(start), end - start, asked, counts)
    BY <1>3 DEF ReadInData
  <2>2. start \in Nat /\ end \in Nat /\ Offset(start) \in Nat /\ Offset(start) % 8 = 0
    BY DataSeek
  <2> HIDE DEF start, end
  <2>3. end - start \in Int
    BY <2>2
  <2> QED BY <2>1, <2>2, <2>3, FitsRead
<1>4. ASSUME NEW start \in 0 .. 2, NEW e \in {-1, 1, 2}, ReadInDatabySample(start, e)
      PROVE  FreshFits'
  <2> DEFINE end == IF e < 0 THEN Nsamples ELSE e
             p == position + Offset(start)
  <2>1. PICK asked, counts : readdata("ReadInDatabySample", p, end - start, asked, counts)
    BY <1>4 DEF ReadInDatabySample
  <2>2. p \in Nat /\ p % 8 = 0 /\ end \in Nat
    BY SampleSeek
  <2> HIDE DEF end, p
  <2>3. end - start \in Int
    BY <2>2
  <2> QED BY <2>1, <2>2, <2>3, FitsRead
<1>5. ASSUME NEW nd \in 2 .. 3, DownSample(nd) PROVE FreshFits'
  BY <1>5, FitsDownSample
<1>6. ASSUME NEW poli, Strip2OnePol(poli) \/ Strip2OnePol_STD(poli) PROVE FreshFits'
  BY <1>6, FitsStrip DEF Strip2OnePol, Strip2OnePol_STD
<1>7. ASSUME NEW method, ZeroDM(method) PROVE FreshFits'
  BY <1>0, <1>7, GivenFresh, FitsSame DEF ZeroDM
<1>8. ASSUME FormZeroDMSeriesandStatistics PROVE FreshFits'
  BY <1>8, FitsSame DEF FormZeroDMSeriesandStatistics
<1>9. ASSUME NEW call \in {"RemoveBaseline", "Equalize"}, SubtractMeans(call) PROVE FreshFits'
  BY <1>0, <1>9, GivenFresh, FitsSame DEF SubtractMeans
<1>10. ASSUME NEW call \in {"Dedisperse", "FormDedisperseChannelData"}, NEW sfti, NEW pols, NEW channels,
              DedisperseInto(call, sfti, pols, channels)
       PROVE  FreshFits'
  <2>1. PICK n : OnData(call, n)
    BY <1>10 DEF DedisperseInto
  <2>2. outcome' = "ok" => UNCHANGED <<pData, given>> /\ UNCHANGED_SHAPE
    BY <1>10 DEF DedisperseInto
  <2> QED BY <2>1, <2>2, FitsSame
<1>11. ASSUME NEW wi, ApplyBoxFilter(wi) PROVE FreshFits'
  <2>1. UNCHANGED <<header_vars, Nsamples, pData, given>>
    BY <1>11 DEF ApplyBoxFilter, Undefined
  <2> QED BY <2>1
<1>12. ASSUME NEW ddm, NEW span, SubbandDeDispersion(ddm, span) PROVE FreshFits'
  <2>1. UNCHANGED <<header_vars, Nsamples, pData, given>>
    BY <1>12 DEF SubbandDeDispersion, dmsub2tim, Fine, Undefined
  <2> QED BY <2>1
<1>13. ASSUME NEW call, NEW fails, OverSubbands(call, fails) PROVE FreshFits'
  <2>1. UNCHANGED <<header_vars, Nsamples, pData, given>>
    BY <1>13 DEF OverSubbands, Undefined
  <2> QED BY <2>1
<1>14. ASSUME UNCHANGED data_vars PROVE FreshFits'
  BY <1>14 DEF data_vars
<1> USE DEF Dedisperse, FormDedisperseChannelData, BoxCarFilter, WriteSubbandData, WriteTimData
<1> QED
  BY <1>1, <1>2, <1>3, <1>4, <1>5, <1>6, <1>7, <1>8, <1>9, <1>10, <1>11, <1>12, <1>13, <1>14
  DEF DataNext

Excused ==
  outcome' # "ok" =>
    CASE outcome' \in {"ReadInData", "CloseFile"} -> ~open
      [] outcome' = "ReadInDatabySample" -> ~open \/ Nsamples # file.samples
      [] outcome' = "ApplyBoxFilter" -> Nsamples < 2
      [] outcome' \in {"SubbandDeDispersion", "BoxCarFilter", "WriteTimData"} -> TRUE
      [] outcome' = "WriteSubbandData" -> ~pSubband
      [] OTHER -> ~given.fresh \/ Nbits = 16

(* A call that reads no further than the samples go.                       *)
LEMMA OnDataExcused ==
  ASSUME TypeInv, FreshFits,
         NEW call \in {"DownSample", "Strip2OnePol", "Strip2OnePol_STD", "ZeroDM",
                       "FormZeroDMSeriesandStatistics", "RemoveBaseline", "Equalize",
                       "Dedisperse", "FormDedisperseChannelData"},
         NEW n \in Int, n <= Size, OnData(call, n)
  PROVE  Excused
<1>1. outcome' # "ok" => n > Length /\ outcome' = call
  BY DEF OnData, Fine, Undefined
<1>2. PICK k \in Nat : DOMAIN pData = 0 .. k - 1
  BY DEF TypeInv, ArrayOK
<1>3. Length \in Nat
  BY <1>2, ArrayLength
<1>4. Size \in Nat
  BY Shape DEF TypeInv
<1>5. outcome' # "ok" => ~given.fresh \/ Nbits = 16
  BY <1>1, <1>3, <1>4 DEF FreshFits
<1> QED BY <1>1, <1>5 DEF Excused

LEMMA DownSampleReads ==
  ASSUME TypeInv, NEW nd \in 2 .. 3
  PROVE  LET n == (Nsamples \div nd) * nd * Nchans * Nifs
         IN  n \in Int /\ n <= Size
<1> DEFINE nnew == Nsamples \div nd
<1>1. Nsamples \in Nat /\ nd \in Nat \ {0} /\ Nchans \in Nat /\ Nifs \in Nat
  BY FilDataAssumption DEF TypeInv, ShapeOK
<1>2. nnew \in Nat /\ nnew * nd <= Nsamples
  BY <1>1, Quotient
<1> HIDE DEF nnew
<1>3. nnew * nd \in Nat /\ Nchans * Nifs \in Nat
  BY <1>1, <1>2, ProductNat
<1>4. (nnew * nd) * (Nchans * Nifs) <= Nsamples * (Nchans * Nifs)
  BY <1>1, <1>2, <1>3, ProductOrder
<1>5. (nnew * nd) * (Nchans * Nifs) = nnew * nd * Nchans * Nifs
  BY <1>1, <1>2
<1>6. Size = Nsamples * (Nchans * Nifs) /\ Size \in Nat
  BY Shape DEF TypeInv
<1> QED BY <1>3, <1>4, <1>5, <1>6 DEF nnew

LEMMA ReadExcused ==
  ASSUME NEW call, NEW p, NEW ns, NEW asked, NEW counts,
         readdata(call, p, ns, asked, counts), outcome' # "ok"
  PROVE  outcome' = call /\ (~open \/ Wanted(ns) < 0)
<1>1. Undefined(call) /\ (~open \/ Wanted(ns) < 0)
  BY DEF readdata, Fine, Wanted
<1> QED BY <1>1 DEF Undefined

LEMMA ExcusedStep ==
  ASSUME TypeInv, FreshFits, DataNext
  PROVE  Excused
<1> USE DEF Excused
<1>1. ASSUME ReadInHeader \/ ReadInHeaderFails \/ Free PROVE Excused
  BY <1>1 DEF ReadInHeader, ReadInHeaderFails, Free, Fine
<1>2. ASSUME CloseFile PROVE Excused
  BY <1>2 DEF CloseFile, Fine, Undefined
<1>3. ASSUME NEW startp \in 0 .. 1, NEW endp \in 1 .. 2, ReadInData(startp, endp) PROVE Excused
  <2> DEFINE start == (startp * Nsamples) \div 2
             end == (endp * Nsamples) \div 2
  <2>1. PICK asked, counts : readdata("ReadInData", Offset(start), end - start, asked, counts)
    BY <1>3 DEF ReadInData
  <2>2. start \in Nat /\ end \in Nat /\ start <= end
    BY <1>3, DataSeek DEF ReadInData
  <2> HIDE DEF start, end
  <2>3. end - start \in Int /\ end - start >= 0
    BY <2>2
  <2>4. Wanted(end - start) \in Int /\ Wanted(end - start) >= 0
    <3>1. ShapeOK /\ position \in Nat /\ position % 8 = 0
      BY DEF TypeInv, ShapeOK
    <3> QED BY <2>3, <3>1, Seeked
  <2> QED BY <2>1, <2>4, ReadExcused
<1>4. ASSUME NEW start \in 0 .. 2, NEW e \in {-1, 1, 2}, ReadInDatabySample(start, e)
      PROVE  Excused
  <2> DEFINE end == IF e < 0 THEN Nsamples ELSE e
             p == position + Offset(start)
  <2>1. PICK asked, counts : readdata("ReadInDatabySample", p, end - start, asked, counts)
    BY <1>4 DEF ReadInDatabySample
  <2>2. p \in Nat /\ p % 8 = 0 /\ end \in Nat /\ start \in Nat /\ file.samples \in Nat
    BY SampleSeek
  <2>3. start <= file.samples /\ (e < 0 \/ start <= e)
    BY <1>4 DEF ReadInDatabySample
  <2>4. end - start \in Int /\ (end - start >= 0 => Wanted(end - start) >= 0)
        /\ Wanted(end - start) \in Int
    <3>1. end - start \in Int
      BY <2>2
    <3> HIDE DEF end, p
    <3> QED BY <2>2, <3>1, Seeked DEF TypeInv
  <2>5. Wanted(end - start) < 0 => Nsamples # file.samples
    BY <2>2, <2>3, <2>4
  <2> HIDE DEF end, p
  <2> QED BY <2>1, <2>5, ReadExcused
<1>5. Size \in Int
  BY Shape DEF TypeInv
<1>6. ASSUME NEW nd \in 2 .. 3, DownSample(nd) PROVE Excused
  <2>1. OnData("DownSample", (Nsamples \div nd) * nd * Nchans * Nifs)
    BY <1>6 DEF DownSample
  <2> QED BY <2>1, DownSampleReads, OnDataExcused
<1>7. ASSUME NEW poli, Strip2OnePol(poli) \/ Strip2OnePol_STD(poli) PROVE Excused
  <2>1. OnData("Strip2OnePol", Size) \/ OnData("Strip2OnePol_STD", Size)
    BY <1>7 DEF Strip2OnePol, Strip2OnePol_STD, Strip
  <2> QED BY <1>5, <2>1, OnDataExcused
<1>8. ASSUME NEW method, ZeroDM(method) PROVE Excused
  BY <1>5, <1>8, OnDataExcused DEF ZeroDM
<1>9. ASSUME FormZeroDMSeriesandStatistics PROVE Excused
  BY <1>5, <1>9, OnDataExcused DEF FormZeroDMSeriesandStatistics
<1>10. ASSUME NEW call \in {"RemoveBaseline", "Equalize"}, SubtractMeans(call) PROVE Excused
  <2> DEFINE n == Nsamples * Nchans
  <2>1. OnData(call, n)
    BY <1>10 DEF SubtractMeans
  <2>2. n \in Nat /\ Nifs \in Nat \ {0} /\ Size = n * Nifs
    BY FilDataAssumption, ProductNat DEF TypeInv, ShapeOK, Size
  <2>3. n <= Size
    <3>1. Nifs * n >= n
      <4>1. 1 * n <= Nifs * n
        BY <2>2, ProductOrder
      <4> QED BY <2>2, <4>1
    <3> QED BY <2>2, <3>1
  <2> HIDE DEF n
  <2> QED BY <2>1, <2>2, <2>3, OnDataExcused
<1>11. ASSUME NEW call \in {"Dedisperse", "FormDedisperseChannelData"},
              NEW sfti \in [Channels -> Shifts], NEW pols, NEW channels,
              DedisperseInto(call, sfti, pols, channels)
       PROVE  Excused
  <2> DEFINE n == Max({0} \cup {l + 1 : l \in UNION {Sample(i, Pols, sfti) : i \in 0 .. Nsamples - 1}})
  <2>1. n \in Int /\ n <= Size
    BY ReadIn DEF TypeInv
  <2>2. OnData(call, n)
    BY <1>11 DEF DedisperseInto
  <2> HIDE DEF n
  <2> QED BY <2>1, <2>2, OnDataExcused
<1>12. ASSUME NEW wi, ApplyBoxFilter(wi) PROVE Excused
  BY <1>12 DEF ApplyBoxFilter, Fine, Undefined
<1>13. ASSUME NEW ddm, NEW span, SubbandDeDispersion(ddm, span) PROVE Excused
  BY <1>13 DEF SubbandDeDispersion, dmsub2tim, Fine, Undefined
<1>14. ASSUME BoxCarFilter \/ WriteTimData PROVE Excused
  BY <1>14 DEF BoxCarFilter, WriteTimData, OverSubbands, Fine, Undefined
<1>15. ASSUME WriteSubbandData PROVE Excused
  BY <1>15 DEF WriteSubbandData, OverSubbands, Fine, Undefined
<1> USE DEF Dedisperse, FormDedisperseChannelData
<1> QED
  BY <1>1, <1>2, <1>3, <1>4, <1>6, <1>7, <1>8, <1>9, <1>10, <1>11, <1>12, <1>13, <1>14, <1>15
  DEF DataNext

LEMMA FitsAlways == DataSpec => []FreshFits
<1>1. DataInit => FreshFits
  BY DEF DataInit, FreshFits
<1> QED BY <1>1, TypeInvAlways, FitsStep, PTL DEF DataSpec

(* What is undefined, and when: a call on the samples reads outside them   *)
(* only if none were read since the header, or the memory was given back,  *)
(* or readdata does not know the size of the values; a reading throws only *)
(* when its default end is the Nsamples of an earlier one                  *)
(* (filterbank.cpp:477, 487, 1294, 964).                                   *)
THEOREM UndefinedCalls == DataSpec => UndefinedOnlyIf
<1>1. TypeInv /\ FreshFits /\ [DataNext]_data_vars => [Excused]_data_vars
  BY ExcusedStep
<1> QED BY <1>1, TypeInvAlways, FitsAlways, PTL DEF DataSpec, UndefinedOnlyIf, Excused

-----------------------------------------------------------------------------
(* The samples that are asked for.                                         *)

LEMMA SamplesOf ==
  ASSUME ShapeOK, NEW m \in Nat
  PROVE  Samples(m * (Nchans * Nifs)) = m
<1>1. Nifs \in Nat \ {0} /\ Nchans \in Nat \ {0}
  BY FilDataAssumption DEF ShapeOK
<1>2. m * (Nchans * Nifs) = (m * Nchans) * Nifs + 0 /\ m * Nchans = m * Nchans + 0
  BY <1>1
<1>3. m * Nchans \in Nat
  BY <1>1, ProductNat
<1>4. (m * (Nchans * Nifs)) \div Nifs = m * Nchans
  BY <1>1, <1>2, <1>3, ModOfMultiple
<1>5. (m * Nchans) \div Nchans = m
  BY <1>1, <1>2, ModOfMultiple
<1> QED BY <1>4, <1>5 DEF Samples

(* Samples that begin with a byte.                                         *)
LEMMA ByteOffset ==
  ASSUME ShapeOK, Nifs = file.nifs, Nbits = file.nbits, NEW s \in Nat, InBytes(s)
  PROVE  /\ Offset(s) = s * (Nchans * Nifs * Nbits)
         /\ s * (Nchans * Nifs) \in Nat
         /\ Nbits = 1 => (s * (Nchans * Nifs)) % 8 = 0
<1>1. Nifs \in Nat \ {0} /\ Nchans \in Nat \ {0} /\ Nbits \in Nat \ {0}
  BY FilDataAssumption DEF ShapeOK
<1> DEFINE v == s * Nchans * Nifs * Nbits
<1>2. v \in Nat /\ v % 8 = 0 /\ Offset(s) = 8 * (v \div 8)
  <2>1. v \in Nat
    BY <1>1, ProductNat
  <2> QED BY <2>1 DEF InBytes, Offset
<1>3. v = s * (Nchans * Nifs * Nbits) /\ (Nbits = 1 => v = s * (Nchans * Nifs))
  BY <1>1
<1>4. s * (Nchans * Nifs) \in Nat
  BY <1>1, ProductNat
<1> HIDE DEF v
<1>5. 8 * (v \div 8) = v
  BY <1>2
<1> QED BY <1>2, <1>3, <1>4, <1>5

LEMMA Distribute == \A a, b, c \in Int : (a - b) * c = a * c - b * c
OBVIOUS

LEMMA ReadCount ==
  ASSUME ShapeOK, Nbits # 16, Nifs = file.nifs, Nbits = file.nbits,
         NEW start \in Nat, NEW end \in Nat, start <= end, start <= file.samples,
         InBytes(start), InBytes(end)
  PROVE  /\ Offset(start) \div (Nchans * Nifs * Nbits) = start
         /\ start + Samples(Got(Offset(start), end - start) * (Unit \div Nbits))
              = Min({end, file.samples})
<1> DEFINE N == Nchans * Nifs
           B == Nchans * Nifs * Nbits
           U == Unit \div Nbits
           p == Offset(start)
           ns == end - start
           have == file.samples - start
           m == IF ns <= have THEN ns ELSE have
<1>1. /\ N \in Nat \ {0} /\ B \in Nat \ {0} /\ B = N * Nbits
      /\ Nbits \in {1, 8, 32} /\ file.samples \in Nat
      /\ Nchans \in Nat \ {0} /\ Nifs \in Nat \ {0}
  BY FileTypes, Shape DEF ShapeOK
<1>2. U \in {1, 8} /\ Unit = U * Nbits /\ (U = 8 <=> Nbits = 1)
  BY <1>1 DEF Unit
<1>3. ns \in Nat /\ have \in Nat /\ m \in Nat
  BY <1>1
<1>4. /\ p = start * B /\ start * N \in Nat /\ end * N \in Nat
      /\ Nbits = 1 => (start * N) % 8 = 0 /\ (end * N) % 8 = 0
  BY ByteOffset
<1>5. p \div B = start
  <2>1. p = start * B + 0 /\ 0 \in 0 .. B - 1
    <3>1. start * B \in Nat
      BY <1>1, ProductNat
    <3> QED BY <1>1, <1>4, <3>1
  <2> HIDE DEF p, B
  <2> QED BY <1>1, <2>1, ModOfMultiple
<1>6. /\ FileBits(file) = (file.samples * N) * Nbits
      /\ file.samples * N \in Nat
      /\ Nbits = 1 => (file.samples * N) % 8 = 0
  <2>1. FileBits(file) % 8 = 0
    BY FileTypes DEF ShapeOK
  <2>2. FileBits(file) = (file.samples * N) * Nbits
    BY <1>1 DEF FileBits
  <2>3. file.samples * N \in Nat
    BY <1>1, ProductNat
  <2> HIDE DEF N
  <2>4. Nbits = 1 => FileBits(file) = file.samples * N
    BY <2>2, <2>3
  <2> QED BY <2>1, <2>2, <2>3, <2>4
<1>7. Wanted(ns) \in Nat /\ Wanted(ns) * U = ns * N
  <2> DEFINE w == ns * Nifs * Nchans
  <2>1. w = ns * N /\ w = end * N - start * N /\ w \in Nat
    <3>1. w = ns * N
      <4> HIDE DEF ns
      <4> QED BY <1>1, <1>3
    <3>2. ns * N \in Nat
      BY <1>1, <1>3, ProductNat
    <3>3. ns * N = end * N - start * N
      <4> HIDE DEF N
      <4> QED BY <1>1, Distribute
    <3> QED BY <3>1, <3>2, <3>3
  <2>2. Wanted(ns) = IF Nbits = 1 THEN Truncated(w, 8) ELSE w
    BY DEF Wanted
  <2> HIDE DEF w, U, N, ns
  <2>3. CASE Nbits = 1
    <3>1. w % 8 = 0
      BY <1>4, <2>1, <2>3
    <3>2. Truncated(w, 8) = w \div 8
      BY <2>1 DEF Truncated
    <3>3. (w \div 8) * 8 = w /\ w \div 8 \in Nat
      BY <2>1, <3>1
    <3> QED BY <1>2, <2>1, <2>2, <2>3, <3>2, <3>3
  <2>4. CASE Nbits # 1
    <3>1. U = 1 /\ Wanted(ns) = w
      BY <1>2, <2>2, <2>4
    <3> QED BY <2>1, <3>1
  <2> QED BY <2>3, <2>4
<1>8. Left(p) \in Nat /\ Left(p) * U = have * N
  <2> DEFINE v == have * N
  <2>1. v = file.samples * N - start * N
    <3> HIDE DEF N
    <3> QED BY <1>1, Distribute
  <2>2. v \in Nat
    BY <1>1, <1>3, ProductNat
  <2>3. FileBits(file) - p = v * Nbits
    <3>1. p = (start * N) * Nbits
      BY <1>1, <1>4
    <3> HIDE DEF N, p, v, have
    <3> QED BY <1>1, <1>4, <1>6, <2>1, <3>1, Distribute
  <2> HIDE DEF v, N, p, have, U
  <2>4. CASE Nbits = 1
    <3>1. v % 8 = 0
      BY <1>4, <1>6, <2>1, <2>4
    <3>2. Left(p) = v \div 8
      BY <2>2, <2>3, <2>4 DEF Left, Unit
    <3>3. (v \div 8) * 8 = v /\ v \div 8 \in Nat
      BY <2>2, <3>1
    <3> QED BY <1>2, <2>4, <3>2, <3>3 DEF v
  <2>5. CASE Nbits # 1
    <3>1. U = 1 /\ Left(p) = (v * Nbits) \div Nbits
      BY <1>2, <2>3, <2>5 DEF Left, Unit
    <3>2. (v * Nbits) \div Nbits = v
      BY <1>1, <2>2, <2>5
    <3> QED BY <2>2, <3>1, <3>2 DEF v
  <2> QED BY <2>4, <2>5
<1>9. Got(p, ns) \in Nat /\ Got(p, ns) * U = m * N
  <2>1. Got(p, ns) = IF Left(p) < Wanted(ns) THEN Left(p) ELSE Wanted(ns)
    <3>1. p \in Nat /\ p % 8 = 0
      BY OffsetType
    <3> HIDE DEF p, ns
    <3>2. Got(p, ns) = IF Left(p) < 0 \/ Wanted(ns) < 0 THEN 0
                       ELSE IF Left(p) < Wanted(ns) THEN Left(p) ELSE Wanted(ns)
      <4>1. ns \in Int
        BY <1>3
      <4> QED BY ONLY ShapeOK, <3>1, <4>1, Seeked
    <3> QED BY ONLY <1>7, <1>8, <3>2
  <2> HIDE DEF p, ns, have, N, U
  <2>2. CASE ns <= have
    <3>1. ns * N <= have * N
      BY <1>1, <1>3, <2>2, ProductOrder
    <3>2. Wanted(ns) * U <= Left(p) * U
      BY <1>7, <1>8, <3>1
    <3>3. Wanted(ns) <= Left(p)
      BY <1>2, <1>7, <1>8, <3>2
    <3> QED BY <1>7, <1>8, <2>1, <2>2, <3>3
  <2>3. CASE have < ns
    <3>1. have * N <= ns * N
      BY <1>1, <1>3, <2>3, ProductOrder
    <3>2. Left(p) * U <= Wanted(ns) * U
      BY <1>7, <1>8, <3>1
    <3>3. Left(p) <= Wanted(ns)
      BY <1>2, <1>7, <1>8, <3>2
    <3> QED BY <1>3, <1>7, <1>8, <2>1, <2>3, <3>3
  <2> QED BY <1>3, <2>2, <2>3
<1>10. Samples(Got(p, ns) * U) = m
  BY <1>3, <1>9, SamplesOf
<1>11. start + m = Min({end, file.samples})
  BY <1>1, SmallerOf
<1> QED BY <1>5, <1>10, <1>11

(* The steps after which the data are those of a reading.                  *)
Reads ==
  \/ \E startp \in 0 .. 1, endp \in 1 .. 2 : ReadInData(startp, endp)
  \/ \E start \in 0 .. 2, end \in {-1, 1, 2} : ReadInDatabySample(start, end)
Merges == \E poli : Strip2OnePol(poli) \/ Strip2OnePol_STD(poli)
Subtracts ==
  \/ \E method \in {"dot", "mean"} : ZeroDM(method)
  \/ \E call \in {"RemoveBaseline", "Equalize"} : SubtractMeans(call)
Looks == UNCHANGED <<header_vars, Nsamples, StartSample, pData, given>>

LEMMA FreshStep ==
  ASSUME TypeInv, [DataNext]_data_vars, outcome' = "ok", given'.fresh
  PROVE  /\ outcome = "ok" /\ UNCHANGED file
         /\ Reads \/ (\E nd \in 2 .. 3 : DownSample(nd)) \/ Merges \/ Subtracts \/ Looks
<1> DEFINE Claim == /\ outcome = "ok" /\ UNCHANGED file
                    /\ Reads \/ (\E nd \in 2 .. 3 : DownSample(nd)) \/ Merges \/ Subtracts \/ Looks
<1> USE DEF Looks, Call, file_vars
<1>0. given \in Givens
  BY DEF TypeInv, RestOK
<1>1. ASSUME ReadInHeader \/ ReadInHeaderFails \/ Free PROVE Claim
  <2>1. given' = [given EXCEPT !.fresh = FALSE]
    BY <1>1 DEF ReadInHeader, ReadInHeaderFails, Free
  <2>2. given'.fresh = FALSE
    BY <1>0, <2>1 DEF Givens
  <2> QED BY <2>2
<1>2. ASSUME CloseFile PROVE Claim
  BY <1>2 DEF CloseFile, Undefined
<1>3. ASSUME NEW startp \in 0 .. 1, NEW endp \in 1 .. 2, ReadInData(startp, endp) PROVE Claim
  <2>1. outcome = "ok" /\ UNCHANGED file
    BY <1>3, ReadRest DEF ReadInData
  <2> QED BY <1>3, <2>1 DEF Reads
<1>4. ASSUME NEW start \in 0 .. 2, NEW e \in {-1, 1, 2}, ReadInDatabySample(start, e) PROVE Claim
  <2>1. outcome = "ok" /\ UNCHANGED file
    BY <1>4, ReadRest DEF ReadInDatabySample
  <2> QED BY <1>4, <2>1 DEF Reads
<1>5. ASSUME NEW call, NEW n, OnData(call, n) PROVE outcome = "ok" /\ UNCHANGED file /\ UNCHANGED StartSample
  BY <1>5 DEF OnData, Undefined
<1>6. ASSUME NEW nd \in 2 .. 3, DownSample(nd) PROVE Claim
  BY <1>5, <1>6 DEF DownSample
<1>7. ASSUME NEW poli, Strip2OnePol(poli) \/ Strip2OnePol_STD(poli) PROVE Claim
  <2>1. outcome = "ok" /\ UNCHANGED file
    BY <1>5, <1>7 DEF Strip2OnePol, Strip2OnePol_STD, Strip
  <2> QED BY <1>7, <2>1 DEF Merges
<1>8. ASSUME NEW method \in {"dot", "mean"}, ZeroDM(method) PROVE Claim
  <2>1. outcome = "ok" /\ UNCHANGED file
    BY <1>5, <1>8 DEF ZeroDM
  <2> QED BY <1>8, <2>1 DEF Subtracts
<1>9. ASSUME NEW call \in {"RemoveBaseline", "Equalize"}, SubtractMeans(call) PROVE Claim
  <2>1. outcome = "ok" /\ UNCHANGED file
    BY <1>5, <1>9 DEF SubtractMeans
  <2> QED BY <1>9, <2>1 DEF Subtracts
<1>10. ASSUME NEW call, NEW n, OnData(call, n) PROVE UNCHANGED Nbits
  BY <1>10 DEF OnData, Undefined, header_vars
<1>11. ASSUME FormZeroDMSeriesandStatistics PROVE Claim
  BY <1>5, <1>10, <1>11 DEF FormZeroDMSeriesandStatistics, UNCHANGED_SHAPE, header_vars
<1>12. ASSUME Dedisperse \/ FormDedisperseChannelData PROVE Claim
  <2>1. PICK call, sfti, pols, channels : DedisperseInto(call, sfti, pols, channels)
    BY <1>12 DEF Dedisperse, FormDedisperseChannelData
  <2>2. PICK n : OnData(call, n)
    BY <2>1 DEF DedisperseInto
  <2>3. UNCHANGED <<pData, given>> /\ UNCHANGED_SHAPE
    BY <2>1 DEF DedisperseInto
  <2> QED BY <1>5, <1>10, <2>2, <2>3 DEF UNCHANGED_SHAPE, header_vars
<1>13. ASSUME NEW wi, ApplyBoxFilter(wi) PROVE Claim
  BY <1>13 DEF ApplyBoxFilter, Undefined
<1>14. ASSUME NEW ddm, NEW span, SubbandDeDispersion(ddm, span) PROVE Claim
  BY <1>14 DEF SubbandDeDispersion, dmsub2tim, Fine, Undefined
<1>15. ASSUME NEW call, NEW fails, OverSubbands(call, fails) PROVE Claim
  BY <1>15 DEF OverSubbands, Undefined
<1>16. ASSUME UNCHANGED data_vars PROVE Claim
  BY <1>16 DEF data_vars
<1> USE DEF BoxCarFilter, WriteSubbandData, WriteTimData
<1> QED
  BY <1>1, <1>2, <1>3, <1>4, <1>6, <1>7, <1>8, <1>9, <1>11, <1>12, <1>13, <1>14, <1>15, <1>16
  DEF DataNext

LEMMA GivenFields ==
  ASSUME given \in Givens
  PROVE  /\ \A x : LET g == [given EXCEPT !.factor = x]
                   IN  g = [fresh |-> given.fresh, asked |-> given.asked, counts |-> given.counts,
                            layout |-> given.layout, first |-> given.first, count |-> given.count,
                            factor |-> x, tsamp |-> given.tsamp, pols |-> given.pols,
                            onepol |-> given.onepol]
         /\ \A x : LET g == [given EXCEPT !.pols = x]
                   IN  g = [fresh |-> given.fresh, asked |-> given.asked, counts |-> given.counts,
                            layout |-> given.layout, first |-> given.first, count |-> given.count,
                            factor |-> given.factor, tsamp |-> given.tsamp, pols |-> x,
                            onepol |-> given.onepol]
         /\ \A x : LET g == [given EXCEPT !.onepol = x]
                   IN  g = [fresh |-> given.fresh, asked |-> given.asked, counts |-> given.counts,
                            layout |-> given.layout, first |-> given.first, count |-> given.count,
                            factor |-> given.factor, tsamp |-> given.tsamp, pols |-> given.pols,
                            onepol |-> x]
BY DEF Givens

(* A reading of whole bytes.                                               *)
LEMMA AskedAfter ==
  ASSUME TypeInv, NEW call \in {"ReadInData", "ReadInDatabySample"},
         NEW p, NEW start \in Nat, NEW end \in Nat, NEW asked, NEW counts,
         readdata(call, p, end - start, asked, counts), outcome' = "ok", StartSample' = start,
         counts => /\ p = Offset(start) /\ start <= end /\ start <= file.samples
                   /\ asked[1] = start
                   /\ Min({asked[2], file.samples}) = Min({end, file.samples})
                   /\ (InBytes(asked[2]) => InBytes(end))
  PROVE  AskedIsRead'
<1> SUFFICES ASSUME given'.layout, given'.counts, \A n \in 1 .. 2 : InBytes(given.asked[n])'
             PROVE  /\ given'.first = given'.asked[1] /\ StartSample' = given'.first
                    /\ given'.first + given'.count = Min({given'.asked[2], file'.samples})
  BY DEF AskedIsRead, Known
<1>0. PICK ns : ns = end - start /\ readdata(call, p, ns, asked, counts)
  OBVIOUS
<1>1. /\ given'.asked = asked /\ given'.counts = counts
      /\ given'.layout <=> Nifs = file.nifs /\ Nbits = file.nbits /\ Nbits # 16
                             /\ p % (Nchans * Nifs * Nbits) = 0
      /\ given'.first = p \div (Nchans * Nifs * Nbits)
      /\ given'.count = Nsamples'
  <2>1. given' = [fresh |-> TRUE, asked |-> asked, counts |-> counts,
                  layout |-> Nifs = file.nifs /\ Nbits = file.nbits /\ Nbits # 16
                               /\ p % (Nchans * Nifs * Nbits) = 0,
                  first |-> p \div (Nchans * Nifs * Nbits), count |-> Nsamples',
                  factor |-> 1, tsamp |-> Tsamp,
                  pols |-> [k \in 0 .. Nifs - 1 |-> {k}], onepol |-> TRUE]
    BY ONLY <1>0, ReadRest, outcome' = "ok", call \in {"ReadInData", "ReadInDatabySample"}
  <2> QED BY ONLY <2>1
<1>2. UNCHANGED file
  BY ReadRest
<1>3. Nifs = file.nifs /\ Nbits = file.nbits /\ Nbits # 16
  BY <1>1
<1>4. /\ p = Offset(start) /\ start <= end /\ start <= file.samples
      /\ asked[1] = start /\ InBytes(start)
      /\ Min({asked[2], file.samples}) = Min({end, file.samples}) /\ InBytes(end)
  <2>1. InBytes(asked[1]) /\ InBytes(asked[2])
    BY <1>1, <1>2 DEF InBytes
  <2> QED BY <1>1, <2>1
<1>5. Nsamples' = Samples(Got(p, ns) * (Unit \div Nbits))
  <2>1. readdata(call, p, ns, asked, counts)
    BY ONLY <1>0
  <2>2. Nbits # 16 =>
          /\ pData' = [l \in 0 .. Cells(p, ns) - 1 |-> Cell(p, ns, l)]
          /\ position' = IF Got(p, ns) < Wanted(ns) THEN Max({p, FileBits(file)})
                         ELSE p + Got(p, ns) * Unit
          /\ Nsamples' = Samples(Got(p, ns) * (Unit \div Nbits))
    BY ONLY <2>1, ReadSamples, outcome' = "ok", call \in {"ReadInData", "ReadInDatabySample"}
  <2> QED BY ONLY <1>3, <2>2
<1>6. /\ p \div (Nchans * Nifs * Nbits) = start
      /\ start + Samples(Got(p, end - start) * (Unit \div Nbits)) = Min({end, file.samples})
  BY <1>3, <1>4, ReadCount DEF TypeInv
<1> QED BY <1>0, <1>1, <1>2, <1>4, <1>5, <1>6

LEMMA AskedKept ==
  ASSUME AskedIsRead, outcome = "ok", UNCHANGED <<file, StartSample>>,
         given'.fresh = given.fresh, given'.layout = given.layout, given'.counts = given.counts,
         given'.asked = given.asked, given'.first = given.first, given'.count = given.count
  PROVE  AskedIsRead'
BY DEF AskedIsRead, Known, InBytes

LEMMA AskedStep ==
  ASSUME TypeInv, AskedIsRead, [DataNext]_data_vars
  PROVE  AskedIsRead'
<1> SUFFICES ASSUME outcome' = "ok", given'.fresh PROVE AskedIsRead'
  BY DEF AskedIsRead, Known
<1>1. /\ outcome = "ok" /\ UNCHANGED file
      /\ Reads \/ (\E nd \in 2 .. 3 : DownSample(nd)) \/ Merges \/ Subtracts \/ Looks
  BY FreshStep
<1>2. given \in Givens /\ file.samples \in Nat /\ Nsamples \in Nat
  BY FileTypes DEF TypeInv, ShapeOK, RestOK
<1>3. ASSUME NEW startp \in 0 .. 1, NEW endp \in 1 .. 2, ReadInData(startp, endp) PROVE AskedIsRead'
  <2> DEFINE start == (startp * Nsamples) \div 2
             end == (endp * Nsamples) \div 2
             asked == <<(startp * file.samples) \div 2, (endp * file.samples) \div 2>>
             counts == Nsamples = file.samples
  <2>1. readdata("ReadInData", Offset(start), end - start, asked, counts) /\ StartSample' = start
    BY <1>3 DEF ReadInData
  <2>2. start \in Nat /\ end \in Nat /\ start <= end
    BY <1>3, DataSeek DEF ReadInData
  <2>3. counts => start <= file.samples /\ asked[1] = start /\ asked[2] = end
    BY <1>2
  <2> HIDE DEF start, end, asked, counts
  <2> QED BY <2>1, <2>2, <2>3, AskedAfter
<1>4. ASSUME NEW start \in 0 .. 2, NEW e \in {-1, 1, 2}, ReadInDatabySample(start, e)
      PROVE  AskedIsRead'
  <2> DEFINE end == IF e < 0 THEN Nsamples ELSE e
             p == position + Offset(start)
             asked == <<start, IF e < 0 THEN file.samples ELSE e>>
             counts == position = 0 /\ (e < 0 => Nsamples = file.samples)
  <2>1. readdata("ReadInDatabySample", p, end - start, asked, counts) /\ StartSample' = start
    BY <1>4 DEF ReadInDatabySample
  <2>2. p \in Nat /\ end \in Nat /\ start \in Nat
    BY SampleSeek
  <2>3. Offset(start) \in Nat
    BY <2>2, OffsetType DEF TypeInv
  <2>4. counts => /\ p = Offset(start) /\ start <= end /\ start <= file.samples
                  /\ asked[1] = start /\ asked[2] = end
    BY <1>2, <1>4, <2>2, <2>3 DEF ReadInDatabySample
  <2> HIDE DEF end, asked, counts, p
  <2> QED BY <2>1, <2>2, <2>4, AskedAfter
<1>5. ASSUME NEW nd \in 2 .. 3, DownSample(nd) PROVE AskedIsRead'
  <2>1. UNCHANGED StartSample /\ \E x : given' = [given EXCEPT !.factor = x]
    BY <1>5 DEF DownSample, OnData
  <2> QED BY <1>1, <1>2, <2>1, GivenFields, AskedKept
<1>6. ASSUME Merges PROVE AskedIsRead'
  <2>1. PICK call, poli, order : Strip(call, poli, order)
    BY <1>6 DEF Merges, Strip2OnePol, Strip2OnePol_STD
  <2>2. UNCHANGED StartSample /\ \E x : given' = [given EXCEPT !.pols = x]
    BY <2>1 DEF Strip, OnData
  <2> QED BY <1>1, <1>2, <2>2, GivenFields, AskedKept
<1>7. ASSUME Subtracts PROVE AskedIsRead'
  <2>1. UNCHANGED StartSample /\ \E x : given' = [given EXCEPT !.onepol = x]
    BY <1>7 DEF Subtracts, ZeroDM, SubtractMeans, OnData
  <2> QED BY <1>1, <1>2, <2>1, GivenFields, AskedKept
<1>8. ASSUME Looks PROVE AskedIsRead'
  BY <1>1, <1>8, AskedKept DEF Looks
<1> QED BY <1>1, <1>3, <1>4, <1>5, <1>6, <1>7, <1>8 DEF Reads

(* The samples read are those asked for, and StartSample is the first of   *)
(* them, if they begin and end with a byte, Nsamples is still that of the  *)
(* file and nothing was read before (filterbank.cpp:461-483, 491).         *)
THEOREM AskedRead == DataSpec => []AskedIsRead
<1>1. DataInit => AskedIsRead
  BY DEF DataInit, AskedIsRead, Known
<1> QED BY <1>1, TypeInvAlways, AskedStep, PTL DEF DataSpec

-----------------------------------------------------------------------------
(* Dedispersion.  From(l, sfti) is the sample that value l goes to.        *)
From(l, sfti) == (l \div (Nchans * Nifs)) - sfti[(l \div Nifs) % Nchans]

LEMMA ShiftedHome ==
  ASSUME ShapeOK, NEW sfti \in [Channels -> Shifts],
         NEW i \in Int, NEW j \in Channels, NEW k \in Pols, NEW l
  PROVE  l \in Shifted(i, j, k, sfti) <=>
           \E m \in 1 .. Nsamples - 1 : l = Index(m, j, k) /\ i = From(l, sfti)
<1>1. sfti[j] \in Int /\ Nsamples \in Nat
  BY ShiftedIn DEF ShapeOK
<1>2. \A m \in 1 .. Nsamples - 1 : From(Index(m, j, k), sfti) = m - sfti[j]
  <2> TAKE m \in 1 .. Nsamples - 1
  <2>1. m \in Nat
    BY <1>1
  <2>2. /\ Index(m, j, k) \div (Nchans * Nifs) = m
        /\ (Index(m, j, k) \div Nifs) % Nchans = j
    BY <2>1, IndexIs
  <2> QED BY <2>2 DEF From
<1> DEFINE m0 == i + sfti[j]
<1>3. ASSUME l \in Shifted(i, j, k, sfti)
      PROVE  \E m \in 1 .. Nsamples - 1 : l = Index(m, j, k) /\ i = From(l, sfti)
  <2>1. m0 \in 1 .. Nsamples - 1 /\ l = Index(m0, j, k)
    BY <1>1, <1>3 DEF Shifted
  <2>2. From(l, sfti) = m0 - sfti[j]
    BY <1>2, <2>1
  <2>3. i = From(l, sfti)
    BY <1>1, <2>2
  <2> QED BY <2>1, <2>3
<1>4. ASSUME NEW m \in 1 .. Nsamples - 1, l = Index(m, j, k), i = From(l, sfti)
      PROVE  l \in Shifted(i, j, k, sfti)
  <2>1. i = m - sfti[j]
    BY <1>2, <1>4
  <2>2. m0 = m /\ m < Nsamples /\ m > 0
    BY <1>1, <2>1
  <2> QED BY <1>4, <2>2 DEF Shifted
<1> QED BY <1>3, <1>4

(* The values used, and those of them that go to a sample there is.        *)
UsedValues(ks) == {i * (Nchans * Nifs) + j * Nifs + k : i \in 1 .. Nsamples - 1, j \in Channels, k \in ks}
KeptValues(ks, sfti) == {l \in UsedValues(ks) : From(l, sfti) \in 0 .. Nsamples - 1}

LEMMA UsedIndex ==
  ASSUME ShapeOK, NEW ks \in SUBSET Pols, NEW l
  PROVE  l \in UsedValues(ks) <=>
           \E m \in 1 .. Nsamples - 1, j \in Channels, k \in ks : l = Index(m, j, k)
<1>1. Nsamples \in Nat /\ Nchans \in Nat /\ Nifs \in Nat
  BY FilDataAssumption DEF ShapeOK
<1>2. \A m \in 1 .. Nsamples - 1, j \in Channels, k \in ks :
        m * (Nchans * Nifs) + j * Nifs + k = Index(m, j, k)
  BY <1>1 DEF Index, Channels, Pols
<1> QED BY <1>2 DEF UsedValues

LEMMA SampleKept ==
  ASSUME ShapeOK, NEW sfti \in [Channels -> Shifts], NEW ks \in SUBSET Pols,
         NEW i \in 0 .. Nsamples - 1, NEW l
  PROVE  l \in Sample(i, ks, sfti) <=> l \in KeptValues(ks, sfti) /\ i = From(l, sfti)
<1>1. i \in Int
  BY DEF ShapeOK
<1>2. l \in Sample(i, ks, sfti) <=> \E j \in Channels, k \in ks : l \in Shifted(i, j, k, sfti)
  BY DEF Sample
<1>3. \A j \in Channels, k \in ks :
        l \in Shifted(i, j, k, sfti) <=>
          \E m \in 1 .. Nsamples - 1 : l = Index(m, j, k) /\ i = From(l, sfti)
  BY <1>1, ShiftedHome
<1>4. l \in Sample(i, ks, sfti) <=> l \in UsedValues(ks) /\ i = From(l, sfti)
  BY <1>2, <1>3, UsedIndex
<1> QED BY <1>4 DEF KeptValues

LEMMA SamplesConserve ==
  ASSUME ShapeOK, NEW sfti \in [Channels -> Shifts], NEW ks \in SUBSET Pols
  PROVE  /\ UNION {Sample(i, ks, sfti) : i \in 0 .. Nsamples - 1} = KeptValues(ks, sfti)
         /\ \A i, m \in 0 .. Nsamples - 1 :
              i # m => Sample(i, ks, sfti) \cap Sample(m, ks, sfti) = {}
<1>1. \A l : l \in KeptValues(ks, sfti) => From(l, sfti) \in 0 .. Nsamples - 1
  BY DEF KeptValues
<1> QED BY <1>1, SampleKept

(* One value for each index of Obj.                                        *)
LEMMA ChannelsConserve ==
  ASSUME ShapeOK, NEW sfti \in [Channels -> Shifts]
  PROVE  UNION {Shifted(l \div (Nchans * Nifs), (l \div Nifs) % Nchans, l % Nifs, sfti) :
                  l \in 0 .. Size - 1} = KeptValues(Pols, sfti)
<1> DEFINE At(l) == Shifted(l \div (Nchans * Nifs), (l \div Nifs) % Nchans, l % Nifs, sfti)
<1>1. Size \in Nat /\ Nsamples \in Nat
  BY Shape DEF ShapeOK
<1>2. ASSUME NEW l \in 0 .. Size - 1
      PROVE  \E i \in 0 .. Nsamples - 1, j \in Channels, k \in Pols : At(l) = Shifted(i, j, k, sfti)
  <2>1. l \in Nat /\ l < Size
    BY <1>1
  <2>2. PICK i \in Nat, j \in Channels, k \in Pols : l = Index(i, j, k)
    BY <2>1, IndexFor
  <2>3. l \div (Nchans * Nifs) = i /\ l % Nifs = k /\ (l \div Nifs) % Nchans = j /\ i < Nsamples
    BY <2>1, <2>2, IndexIs
  <2>4. i \in 0 .. Nsamples - 1
    BY <1>1, <2>3
  <2> QED BY <2>3, <2>4
<1>3. ASSUME NEW i \in 0 .. Nsamples - 1, NEW j \in Channels, NEW k \in Pols
      PROVE  \E l \in 0 .. Size - 1 : At(l) = Shifted(i, j, k, sfti)
  <2> DEFINE l == Index(i, j, k)
  <2>1. i \in Nat /\ i < Nsamples
    BY <1>1
  <2>2. /\ l \in Nat /\ l < Size
        /\ l \div (Nchans * Nifs) = i /\ l % Nifs = k /\ (l \div Nifs) % Nchans = j
    BY <2>1, IndexIs
  <2>3. l \in 0 .. Size - 1
    BY <1>1, <2>2
  <2> HIDE DEF l
  <2> QED BY <2>2, <2>3
<1>4. UNION {At(l) : l \in 0 .. Size - 1}
        = UNION {Sample(i, Pols, sfti) : i \in 0 .. Nsamples - 1}
  <2> HIDE DEF At
  <2> QED BY <1>2, <1>3 DEF Sample
<1> QED BY <1>4, SamplesConserve

LEMMA DedisperseConserves ==
  ASSUME TypeInv, NEW call \in {"Dedisperse", "FormDedisperseChannelData"},
         NEW sfti \in [Channels -> Shifts], NEW pols, NEW channels,
         pols = IF call = "Dedisperse" THEN 0 .. Nifs - 1 ELSE {Nifs - 1},
         call = "FormDedisperseChannelData" => channels = 0 .. Size - 1,
         result' = [kind |-> call, sfti |-> sfti, samples |-> Nsamples, nifs |-> Nifs,
                    Obj1D |-> [i \in 0 .. Nsamples - 1 |-> Sample(i, pols, sfti)],
                    Obj |-> [l \in channels |->
                               Shifted(l \div (Nchans * Nifs), (l \div Nifs) % Nchans,
                                       l % Nifs, sfti)]]
  PROVE  DedispersionConserves'
<1> DEFINE D(i) == Sample(i, pols, sfti)
           E(l) == Shifted(l \div (Nchans * Nifs), (l \div Nifs) % Nchans, l % Nifs, sfti)
<1>1. /\ result'.kind = call /\ result'.sfti = sfti
      /\ result'.samples = Nsamples /\ result'.nifs = Nifs
      /\ result'.Obj1D = [i \in 0 .. Nsamples - 1 |-> D(i)]
      /\ result'.Obj = [l \in channels |-> E(l)]
  OBVIOUS
<1> HIDE DEF D, E
<1>2. Nifs \in Nat \ {0} /\ ShapeOK
  BY DEF TypeInv, ShapeOK
<1>3. pols \in SUBSET Pols
  BY <1>2 DEF Pols
<1>4. /\ UNION {D(i) : i \in 0 .. Nsamples - 1} = KeptValues(pols, sfti)
      /\ \A i, m \in 0 .. Nsamples - 1 : i # m => D(i) \cap D(m) = {}
  BY <1>2, <1>3, SamplesConserve DEF D
<1>5. call = "FormDedisperseChannelData" =>
        UNION {E(l) : l \in channels} = KeptValues(0 .. Nifs - 1, sfti)
  BY <1>2, ChannelsConserve DEF E, Pols
<1>6. /\ DOMAIN result'.Obj1D = 0 .. Nsamples - 1
      /\ \A i \in 0 .. Nsamples - 1 : result'.Obj1D[i] = D(i)
  BY <1>1
<1>7. /\ DOMAIN result'.Obj = channels
      /\ \A l \in channels : result'.Obj[l] = E(l)
  BY <1>1
<1>9. /\ UNION {result'.Obj1D[i] : i \in DOMAIN result'.Obj1D} = KeptValues(pols, sfti)
      /\ \A i, m \in DOMAIN result'.Obj1D :
           i # m => result'.Obj1D[i] \cap result'.Obj1D[m] = {}
  <2>1. UNION {result'.Obj1D[i] : i \in DOMAIN result'.Obj1D} = UNION {D(i) : i \in 0 .. Nsamples - 1}
    BY ONLY <1>6
  <2>2. UNION {result'.Obj1D[i] : i \in DOMAIN result'.Obj1D} = KeptValues(pols, sfti)
    BY ONLY <1>4, <2>1
  <2>3. \A i, m \in DOMAIN result'.Obj1D :
           i # m => result'.Obj1D[i] \cap result'.Obj1D[m] = {}
    BY ONLY <1>4, <1>6
  <2> QED BY ONLY <2>2, <2>3
<1>10. call = "FormDedisperseChannelData" =>
         UNION {result'.Obj[l] : l \in DOMAIN result'.Obj} = KeptValues(0 .. Nifs - 1, sfti)
  <2>1. UNION {result'.Obj[l] : l \in DOMAIN result'.Obj} = UNION {E(l) : l \in channels}
    BY ONLY <1>7
  <2> QED BY ONLY <1>5, <2>1
<1>11. result'.kind = call
  BY <1>1
<1>8. DedispersionConserves' <=>
       (result'.kind \in {"Dedisperse", "FormDedisperseChannelData"} =>
        /\ UNION {result'.Obj1D[i] : i \in DOMAIN result'.Obj1D}
             = KeptValues(IF call = "Dedisperse" THEN 0 .. Nifs - 1 ELSE {Nifs - 1}, sfti)
        /\ \A i, m \in DOMAIN result'.Obj1D :
             i # m => result'.Obj1D[i] \cap result'.Obj1D[m] = {}
        /\ result'.kind = "FormDedisperseChannelData" =>
             UNION {result'.Obj[l] : l \in DOMAIN result'.Obj} = KeptValues(0 .. Nifs - 1, sfti))
  BY <1>1 DEF DedispersionConserves, KeptValues, UsedValues, From
<1> QED BY ONLY <1>8, <1>9, <1>10, <1>11,
                pols = IF call = "Dedisperse" THEN 0 .. Nifs - 1 ELSE {Nifs - 1}

-----------------------------------------------------------------------------
(* The running sum of the filter, in closed form: after j it holds the     *)
(* sfti values up to j that there are.                                     *)
HeldMeans(j, n, sfti) == IF j < sfti THEN j + 1 ELSE IF j < n THEN sfti ELSE sfti - (j - n + 1)
HeldCoef(j, n, sfti) == [i \in 0 .. n - 1 |-> IF j - sfti + 1 <= i /\ i <= j THEN 1 ELSE 0]
HeldAt(j, n, sfti) == [coef |-> HeldCoef(j, n, sfti), means |-> HeldMeans(j, n, sfti)]

LEMMA PassedStep ==
  ASSUME NEW n \in Nat, NEW sfti \in 0 .. n, NEW j \in 0 .. n + (sfti \div 2) - 1
  PROVE  Passed(HeldAt(j - 1, n, sfti), j, n, sfti) = HeldAt(j, n, sfti)
<1> DEFINE c == HeldCoef(j - 1, n, sfti)
           m == HeldMeans(j - 1, n, sfti)
           s == [coef |-> c, means |-> m]
<1>1. c \in [0 .. n - 1 -> Int] /\ m \in Int /\ j \in Nat /\ sfti \in Nat
  BY DEF HeldCoef, HeldMeans
<1>2. HeldAt(j - 1, n, sfti) = s
  BY DEF HeldAt
<1>3. \A i \in 0 .. n - 1 : c[i] = IF j - sfti <= i /\ i <= j - 1 THEN 1 ELSE 0
  BY DEF HeldCoef
<1>4. m = IF j - 1 < sfti THEN j ELSE IF j - 1 < n THEN sfti ELSE sfti - (j - n)
  BY DEF HeldMeans
<1> HIDE DEF c, m
<1>5. CASE j < sfti
  <2>1. j \in 0 .. n - 1
    BY <1>5
  <2> DEFINE e == [i \in 0 .. n - 1 |-> IF i = j THEN c[i] + 1 ELSE c[i]]
  <2>2. Plus(s, j, 1) = [coef |-> e, means |-> m + 1]
    <3>1. e \in [0 .. n - 1 -> Int] /\ \A i \in 0 .. n - 1 : e[i] = IF i = j THEN c[i] + 1 ELSE c[i]
      BY <1>1
    <3> HIDE DEF e
    <3>2. [c EXCEPT ![j] = @ + 1] = e
      BY ONLY <1>1, <2>1, <3>1
    <3> HIDE DEF c
    <3> QED BY ONLY <3>2 DEF Plus
  <2>3. e = HeldCoef(j, n, sfti)
    BY <1>3, <1>5 DEF HeldCoef
  <2>4. m + 1 = HeldMeans(j, n, sfti)
    BY <1>4, <1>5 DEF HeldMeans
  <2>5. Passed(s, j, n, sfti) = Plus(s, j, 1)
    BY <1>5 DEF Passed
  <2> QED BY <1>2, <2>2, <2>3, <2>4, <2>5 DEF HeldAt
<1>6. CASE sfti <= j /\ j < n
  <2>1. j \in 0 .. n - 1 /\ j - sfti \in 0 .. n - 1
    BY <1>1, <1>6
  <2> DEFINE e == [i \in 0 .. n - 1 |-> IF i = j THEN c[i] + 1 ELSE c[i]]
             g == [i \in 0 .. n - 1 |-> IF i = j - sfti THEN e[i] - 1 ELSE e[i]]
  <2>2. Plus(s, j, 0) = [coef |-> e, means |-> m + 0]
    <3>1. e \in [0 .. n - 1 -> Int] /\ \A i \in 0 .. n - 1 : e[i] = IF i = j THEN c[i] + 1 ELSE c[i]
      BY <1>1
    <3> HIDE DEF e
    <3>2. [c EXCEPT ![j] = @ + 1] = e
      BY ONLY <1>1, <2>1, <3>1
    <3> HIDE DEF c
    <3> QED BY ONLY <3>2 DEF Plus
  <2>3. e \in [0 .. n - 1 -> Int] /\ m + 0 \in Int
    BY <1>1
  <2>4. g = HeldCoef(j, n, sfti)
    <3>1. \A i \in 0 .. n - 1 : g[i] = IF j - sfti + 1 <= i /\ i <= j THEN 1 ELSE 0
      BY <1>1, <1>3, <1>6
    <3> HIDE DEF e
    <3> QED BY <3>1 DEF HeldCoef
  <2> HIDE DEF e
  <2>5. Less([coef |-> e, means |-> m + 0], j - sfti, 0) = [coef |-> g, means |-> (m + 0) - 0]
    <3>1. /\ g \in [0 .. n - 1 -> Int]
          /\ \A i \in 0 .. n - 1 : g[i] = IF i = j - sfti THEN e[i] - 1 ELSE e[i]
      BY <2>3
    <3> HIDE DEF g
    <3>2. [e EXCEPT ![j - sfti] = @ - 1] = g
      BY ONLY <2>1, <2>3, <3>1
    <3> QED BY ONLY <3>2 DEF Less
  <2>6. (m + 0) - 0 = HeldMeans(j, n, sfti)
    BY <1>1, <1>4, <1>6 DEF HeldMeans
  <2>7. Passed(s, j, n, sfti) = Less(Plus(s, j, 0), j - sfti, 0)
    BY <1>1, <1>6 DEF Passed
  <2> QED BY <1>2, <2>2, <2>4, <2>5, <2>6, <2>7 DEF HeldAt
<1>7. CASE j >= n
  <2>1. j - sfti \in 0 .. n - 1
    BY <1>1, <1>7
  <2> DEFINE e == [i \in 0 .. n - 1 |-> IF i = j - sfti THEN c[i] - 1 ELSE c[i]]
  <2>2. Less(s, j - sfti, 1) = [coef |-> e, means |-> m - 1]
    <3>1. /\ e \in [0 .. n - 1 -> Int]
          /\ \A i \in 0 .. n - 1 : e[i] = IF i = j - sfti THEN c[i] - 1 ELSE c[i]
      BY <1>1
    <3> HIDE DEF e
    <3>2. [c EXCEPT ![j - sfti] = @ - 1] = e
      BY ONLY <1>1, <2>1, <3>1
    <3> QED BY ONLY <3>2 DEF Less
  <2>3. e = HeldCoef(j, n, sfti)
    <3>1. \A i \in 0 .. n - 1 : e[i] = IF j - sfti + 1 <= i /\ i <= j THEN 1 ELSE 0
      BY <1>1, <1>3, <1>7
    <3> QED BY <3>1 DEF HeldCoef
  <2>4. m - 1 = HeldMeans(j, n, sfti)
    BY <1>1, <1>4, <1>7 DEF HeldMeans
  <2>5. Passed(s, j, n, sfti) = Less(s, j - sfti, 1)
    BY <1>1, <1>7 DEF Passed
  <2> QED BY <1>2, <2>2, <2>3, <2>4, <2>5 DEF HeldAt
<1> QED BY <1>1, <1>5, <1>6, <1>7

(* The equation of the recursion, which has a solution if g is one.        *)
SumOver(f, n, sfti) ==
  f = [j \in -1 .. n + (sfti \div 2) - 1 |->
         IF j = -1 THEN [coef |-> [i \in 0 .. n - 1 |-> 0], means |-> 0]
         ELSE Passed(f[j - 1], j, n, sfti)]

LEMMA RunningSumSolves ==
  ASSUME NEW n, NEW sfti, NEW g, SumOver(g, n, sfti)
  PROVE  SumOver(RunningSum(n, sfti), n, sfti)
BY DEF RunningSum, SumOver

LEMMA RunningSumIs ==
  ASSUME NEW n \in Nat, NEW sfti \in 0 .. n
  PROVE  \A j \in -1 .. n + (sfti \div 2) - 1 : RunningSum(n, sfti)[j] = HeldAt(j, n, sfti)
<1> DEFINE N == n + (sfti \div 2)
           start == [coef |-> [i \in 0 .. n - 1 |-> 0], means |-> 0]
           Body(f, j) == IF j = -1 THEN start ELSE Passed(f[j - 1], j, n, sfti)
           g == [j \in -1 .. N - 1 |-> HeldAt(j, n, sfti)]
           tmp == RunningSum(n, sfti)
<1>1. N \in Nat
  OBVIOUS
<1>2. HeldAt(-1, n, sfti) = start
  <2>1. HeldCoef(-1, n, sfti) = [i \in 0 .. n - 1 |-> 0]
    BY DEF HeldCoef
  <2>2. HeldMeans(-1, n, sfti) = 0
    BY DEF HeldMeans
  <2> QED BY <2>1, <2>2 DEF HeldAt
<1>3. \A j \in 0 .. N - 1 : Passed(HeldAt(j - 1, n, sfti), j, n, sfti) = HeldAt(j, n, sfti)
  BY PassedStep
<1>4. \A f : SumOver(f, n, sfti) <=> f = [j \in -1 .. N - 1 |-> Body(f, j)]
  BY DEF SumOver
<1> HIDE DEF start, tmp
<1>5. SumOver(g, n, sfti)
  <2> HIDE DEF N
  <2>1. \A j \in -1 .. N - 1 : Body(g, j) = HeldAt(j, n, sfti)
    <3> SUFFICES ASSUME NEW j \in -1 .. N - 1 PROVE Body(g, j) = HeldAt(j, n, sfti)
      OBVIOUS
    <3>1. CASE j = -1
      BY <1>2, <3>1
    <3>2. CASE j # -1
      <4>1. j \in 0 .. N - 1 /\ j - 1 \in -1 .. N - 1
        BY <1>1, <3>2
      <4>2. g[j - 1] = HeldAt(j - 1, n, sfti)
        BY <4>1
      <4> QED BY <1>3, <3>2, <4>1, <4>2
    <3> QED BY <3>1, <3>2
  <2> HIDE DEF Body
  <2>2. g = [j \in -1 .. N - 1 |-> Body(g, j)]
    BY <2>1
  <2> HIDE DEF g
  <2> QED BY ONLY <1>4, <2>2
<1>6. tmp = [j \in -1 .. N - 1 |-> Body(tmp, j)]
  <2>1. SumOver(tmp, n, sfti)
    BY <1>5, RunningSumSolves DEF tmp
  <2> HIDE DEF N, Body
  <2> QED BY ONLY <1>4, <2>1
<1> HIDE DEF N
<1> DEFINE S == {m \in 0 .. N : tmp[m - 1] = HeldAt(m - 1, n, sfti)}
<1>7. 0 \in S
  <2>1. -1 \in -1 .. N - 1
    BY <1>1
  <2>2. tmp[-1] = Body(tmp, -1)
    <3> HIDE DEF Body
    <3> QED BY <1>6, <2>1
  <2>3. 0 - 1 = -1
    OBVIOUS
  <2> QED BY <1>1, <1>2, <2>2, <2>3
<1>8. \A m \in 0 .. N - 1 : m \in S => m + 1 \in S
  <2> SUFFICES ASSUME NEW m \in 0 .. N - 1, m \in S PROVE m + 1 \in S
    OBVIOUS
  <2>1. m \in -1 .. N - 1 /\ (m + 1) - 1 = m /\ m # -1 /\ m + 1 \in 0 .. N
    BY <1>1
  <2>2. tmp[m] = Body(tmp, m)
    <3> HIDE DEF Body
    <3> QED BY <1>6, <2>1
  <2>3. tmp[m] = HeldAt(m, n, sfti)
    BY <1>3, <2>1, <2>2
  <2> QED BY <2>1, <2>3
<1>9. \A m \in 0 .. N : m \in S
  <2> HIDE DEF S
  <2> QED BY <1>1, <1>7, <1>8, UpTo
<1>10. \A j \in -1 .. N - 1 : tmp[j] = HeldAt(j, n, sfti)
  <2> SUFFICES ASSUME NEW j \in -1 .. N - 1 PROVE tmp[j] = HeldAt(j, n, sfti)
    OBVIOUS
  <2>1. j + 1 \in 0 .. N /\ (j + 1) - 1 = j
    BY <1>1
  <2> QED BY <1>9, <2>1
<1> QED BY <1>10 DEF N, tmp

LEMMA BoxAfter ==
  ASSUME NEW n \in Nat, NEW sfti \in 0 .. n,
         result' = [kind |-> "box", sfti |-> sfti,
                    obj |-> [k \in 0 .. n - 1 |-> RunningSum(n, sfti)[k + (sfti \div 2) - 1]]]
  PROVE  BoxRight'
<1> DEFINE h == sfti \div 2
           obj == [k \in 0 .. n - 1 |-> HeldAt(k + h - 1, n, sfti)]
<1>1. h \in Nat /\ sfti \in Nat /\ h <= sfti
  OBVIOUS
<1>2. \A k \in 0 .. n - 1 : RunningSum(n, sfti)[k + h - 1] = HeldAt(k + h - 1, n, sfti)
  BY <1>1, RunningSumIs
<1>3. result'.obj = obj /\ result'.sfti = sfti
  BY <1>2
<1> HIDE DEF h
<1>4. ASSUME NEW k \in 0 .. n - 1
      PROVE  LET held == ((k + h - sfti) .. (k + h - 1)) \cap (0 .. n - 1)
             IN  /\ \A j \in 0 .. n - 1 : obj[k].coef[j] = IF j \in held THEN 1 ELSE 0
                 /\ obj[k].means = Cardinality(held)
  <2> DEFINE held == ((k + h - sfti) .. (k + h - 1)) \cap (0 .. n - 1)
             a == k + h - sfti
             b == k + h - 1
  <2>1. obj[k].coef = HeldCoef(b, n, sfti) /\ obj[k].means = HeldMeans(b, n, sfti)
    BY DEF HeldAt
  <2>2. \A j \in 0 .. n - 1 : HeldCoef(b, n, sfti)[j] = IF j \in held THEN 1 ELSE 0
    BY <1>1 DEF HeldCoef
  <2>3. held = (IF a < 0 THEN 0 ELSE a) .. (IF b < n THEN b ELSE n - 1)
    BY <1>1
  <2>4. Cardinality(held) = HeldMeans(b, n, sfti)
    <3> DEFINE x == IF a < 0 THEN 0 ELSE a
               y == IF b < n THEN b ELSE n - 1
    <3>1. x \in Int /\ y \in Int
      BY <1>1
    <3>2. Cardinality(x .. y) = IF x > y THEN 0 ELSE y - x + 1
      <4> HIDE DEF x, y
      <4> QED BY <3>1, FS_Interval
    <3>3. (IF x > y THEN 0 ELSE y - x + 1) = HeldMeans(b, n, sfti)
      BY <1>1 DEF HeldMeans, h
    <3> QED BY <2>3, <3>2, <3>3
  <2> QED BY <2>1, <2>2, <2>4
<1>5. DOMAIN obj = 0 .. n - 1
  OBVIOUS
<1> HIDE DEF obj
<1>6. /\ result'.obj = obj /\ DOMAIN result'.obj = 0 .. n - 1
      /\ result'.sfti = sfti /\ result'.sfti \div 2 = h
  BY ONLY <1>3, <1>5 DEF h
<1>7. ASSUME NEW k \in DOMAIN result'.obj
      PROVE  LET window == (k + (result'.sfti \div 2) - result'.sfti)
                             .. (k + (result'.sfti \div 2) - 1)
                 held == window \cap DOMAIN result'.obj
             IN  /\ \A j \in DOMAIN result'.obj :
                      result'.obj[k].coef[j] = IF j \in held THEN 1 ELSE 0
                 /\ result'.obj[k].means = Cardinality(held)
  <2>1. k \in 0 .. n - 1
    BY ONLY <1>6, k \in DOMAIN result'.obj
  <2> QED BY ONLY <1>4, <1>6, <2>1
<1> QED BY ONLY <1>7, Zenon DEF BoxRight

-----------------------------------------------------------------------------
(* What a call returns, it returns until the next one.                     *)
ResultInv == DedispersionConserves /\ BoxRight

LEMMA PlainResult ==
  ASSUME result' = NoResult \/ result'.kind = "zero"
  PROVE  ResultInv'
<1>1. result'.kind \in {"none", "zero"}
  BY DEF NoResult
<1> QED BY <1>1 DEF ResultInv, DedispersionConserves, BoxRight

LEMMA UndefinedResult ==
  ASSUME NEW call, NEW n, call # "ok", OnData(call, n), outcome' # "ok"
  PROVE  result' = NoResult
BY DEF OnData, Fine, Undefined

LEMMA ResultStep ==
  ASSUME TypeInv, ResultInv, [DataNext]_data_vars
  PROVE  ResultInv'
<1>1. ASSUME ReadInHeader \/ ReadInHeaderFails \/ Free \/ CloseFile PROVE ResultInv'
  <2>1. result' = NoResult
    BY <1>1 DEF ReadInHeader, ReadInHeaderFails, Free, CloseFile, Undefined
  <2> QED BY <2>1, PlainResult
<1>2. ASSUME NEW call, NEW p, NEW ns, NEW asked, NEW counts, readdata(call, p, ns, asked, counts)
      PROVE  ResultInv'
  <2>1. result' = NoResult
    BY <1>2 DEF readdata, Undefined
  <2> QED BY <2>1, PlainResult
<1>3. ASSUME NEW startp, NEW endp, ReadInData(startp, endp) PROVE ResultInv'
  BY <1>2, <1>3 DEF ReadInData
<1>4. ASSUME NEW start, NEW e, ReadInDatabySample(start, e) PROVE ResultInv'
  BY <1>2, <1>4 DEF ReadInDatabySample
<1>5. ASSUME NEW nd, DownSample(nd) PROVE ResultInv'
  <2>1. result' = NoResult
    BY <1>5, UndefinedResult DEF DownSample
  <2> QED BY <2>1, PlainResult
<1>6. ASSUME NEW poli, Strip2OnePol(poli) \/ Strip2OnePol_STD(poli) PROVE ResultInv'
  <2>1. result' = NoResult
    BY <1>6, UndefinedResult DEF Strip2OnePol, Strip2OnePol_STD, Strip
  <2> QED BY <2>1, PlainResult
<1>7. ASSUME NEW method, ZeroDM(method) PROVE ResultInv'
  <2>1. result' = NoResult \/ result'.kind = "zero"
    BY <1>7, UndefinedResult DEF ZeroDM
  <2> QED BY <2>1, PlainResult
<1>8. ASSUME FormZeroDMSeriesandStatistics PROVE ResultInv'
  <2>1. result' = NoResult \/ result'.kind = "zero"
    BY <1>8, UndefinedResult DEF FormZeroDMSeriesandStatistics
  <2> QED BY <2>1, PlainResult
<1>9. ASSUME NEW call \in {"RemoveBaseline", "Equalize"}, SubtractMeans(call) PROVE ResultInv'
  <2>1. result' = NoResult
    BY <1>9, UndefinedResult DEF SubtractMeans
  <2> QED BY <2>1, PlainResult
<1>10. ASSUME NEW call \in {"Dedisperse", "FormDedisperseChannelData"},
              NEW sfti \in [Channels -> Shifts], NEW pols, NEW channels,
              DedisperseInto(call, sfti, pols, channels),
              pols = IF call = "Dedisperse" THEN 0 .. Nifs - 1 ELSE {Nifs - 1},
              call = "FormDedisperseChannelData" => channels = 0 .. Size - 1
       PROVE  ResultInv'
  <2>1. CASE outcome' = "ok"
    <3>1. result' = [kind |-> call, sfti |-> sfti, samples |-> Nsamples, nifs |-> Nifs,
                    Obj1D |-> [i \in 0 .. Nsamples - 1 |-> Sample(i, pols, sfti)],
                    Obj |-> [l \in channels |->
                               Shifted(l \div (Nchans * Nifs), (l \div Nifs) % Nchans,
                                       l % Nifs, sfti)]]
      BY <1>10, <2>1 DEF DedisperseInto
    <3>2. DedispersionConserves'
      BY <1>10, <3>1, DedisperseConserves
    <3>3. result'.kind = call
      BY <3>1
    <3> QED BY <3>2, <3>3 DEF ResultInv, BoxRight
  <2>2. CASE outcome' # "ok"
    <3>1. result' = NoResult
      BY <1>10, <2>2, UndefinedResult DEF DedisperseInto
    <3> QED BY <3>1, PlainResult
  <2> QED BY <2>1, <2>2
<1>11. ASSUME Dedisperse PROVE ResultInv'
  BY <1>10, <1>11 DEF Dedisperse, Pols
<1>12. ASSUME FormDedisperseChannelData PROVE ResultInv'
  BY <1>10, <1>12 DEF FormDedisperseChannelData
<1>13. ASSUME NEW wi \in 1 .. 5, ApplyBoxFilter(wi) PROVE ResultInv'
  <2> DEFINE n == Nsamples
             sfti == Min({wi, n})
  <2>1. n \in Nat /\ sfti \in 0 .. n
    <3>1. n \in Nat
      BY DEF TypeInv, ShapeOK
    <3> QED BY <3>1, SmallerOf
  <2>2. \/ result' = NoResult
        \/ result' = [kind |-> "box", sfti |-> sfti,
                      obj |-> [k \in 0 .. n - 1 |-> RunningSum(n, sfti)[k + (sfti \div 2) - 1]]]
    BY <1>13 DEF ApplyBoxFilter, Undefined
  <2> HIDE DEF n, sfti
  <2>3. ASSUME result' = [kind |-> "box", sfti |-> sfti,
                      obj |-> [k \in 0 .. n - 1 |-> RunningSum(n, sfti)[k + (sfti \div 2) - 1]]]
        PROVE  ResultInv'
    <3>1. BoxRight'
      BY <2>1, <2>3, BoxAfter
    <3>2. result'.kind = "box"
      BY <2>3
    <3> QED BY <3>1, <3>2 DEF ResultInv, DedispersionConserves
  <2> QED BY <2>2, <2>3, PlainResult
<1>14. ASSUME NEW ddm \in 1 .. 2, NEW span \in 0 .. 5, SubbandDeDispersion(ddm, span) PROVE ResultInv'
  <2>1. result' = NoResult
    BY <1>14 DEF SubbandDeDispersion, dmsub2tim, Fine, Undefined
  <2> QED BY <2>1, PlainResult
<1>15. ASSUME NEW call, NEW fails, OverSubbands(call, fails) PROVE ResultInv'
  <2>1. result' = NoResult
    BY <1>15 DEF OverSubbands, Undefined
  <2> QED BY <2>1, PlainResult
<1>16. ASSUME UNCHANGED data_vars PROVE ResultInv'
  <2>1. UNCHANGED result
    BY <1>16 DEF data_vars
  <2>2. BoxRight'
    BY <2>1 DEF ResultInv, BoxRight
  <2>3. DedispersionConserves <=> DedispersionConserves'
    BY ONLY <2>1 DEF DedispersionConserves
  <2> QED BY <2>2, <2>3 DEF ResultInv
<1> USE DEF BoxCarFilter, WriteSubbandData, WriteTimData
<1> QED
  BY <1>1, <1>3, <1>4, <1>5, <1>6, <1>7, <1>8, <1>9, <1>11, <1>12, <1>13, <1>14, <1>15, <1>16
  DEF DataNext

LEMMA ResultAlways == DataSpec => []ResultInv
<1>1. DataInit => ResultInv
  BY DEF DataInit, NoResult, ResultInv, DedispersionConserves, BoxRight
<1> QED BY <1>1, TypeInvAlways, ResultStep, PTL DEF DataSpec

(* Whatever the shifts, dedispersion uses no value twice and leaves out    *)
(* only what is shifted off the ends, and the first sample                 *)
(* (filterbank.cpp:1376-1389, 1418-1437).                                  *)
THEOREM DedispersedOnce == DataSpec => []DedispersionConserves
BY ResultAlways, PTL DEF ResultInv

(* The running sum of the filter is at every place the sum of the values   *)
(* around it that there are, less a mean for each                          *)
(* (filterbank.cpp:1280-1315).                                             *)
THEOREM RunningSumRight == DataSpec => []BoxRight
BY ResultAlways, PTL DEF ResultInv

-----------------------------------------------------------------------------
(* What is missing from a sum.                                             *)
Sources(s) == UNION {pData[l].src : l \in s}

LossOver(f, S) ==
  f = [s \in SUBSET S |->
         IF s = {} THEN 0
         ELSE pData[CHOOSE x \in s : TRUE].loss + f[s \ {CHOOSE x \in s : TRUE}]]

LEMMA LossSolves ==
  ASSUME NEW S, NEW g, LossOver(g, S)
  PROVE  \E r : LossOver(r, S) /\ Sum(S).loss = r[S]
<1> DEFINE r == CHOOSE f : f = [s \in SUBSET S |->
                  IF s = {} THEN 0
                  ELSE pData[CHOOSE x \in s : TRUE].loss + f[s \ {CHOOSE x \in s : TRUE}]]
<1>1. MapThenSumSet(LAMBDA l : pData[l].loss, S) = r[S]
  BY DEF MapThenSumSet, MapThenFoldSet
<1>2. Sum(S).loss = r[S]
  BY <1>1 DEF Sum
<1>3. LossOver(r, S)
  BY DEF LossOver
<1> QED BY <1>2, <1>3

LEMMA FiniteSources ==
  ASSUME NEW s, IsFiniteSet(s), \A l \in s : IsFiniteSet(pData[l].src)
  PROVE  IsFiniteSet(Sources(s))
<1> DEFINE T == {pData[l].src : l \in s}
           f == [l \in s |-> pData[l].src]
<1>1. f \in Surjection(s, T)
  <2>1. f \in [s -> T] /\ \A t \in T : \E l \in s : f[l] = t
    OBVIOUS
  <2> QED BY <2>1, Fun_IsSurj
<1>2. IsFiniteSet(T)
  BY <1>1, FS_Surjection
<1>3. \A t \in T : IsFiniteSet(t)
  OBVIOUS
<1> HIDE DEF T
<1>4. IsFiniteSet(UNION T)
  BY <1>2, <1>3, FS_UNION
<1> QED BY <1>4 DEF T, Sources

(* A sum of values that are of different places is of all their places,    *)
(* and lacks 256 for each of those that is high.                           *)
LEMMA SumLoss ==
  ASSUME NEW S, NEW H, IsFiniteSet(S),
         \A l \in S : IsFiniteSet(pData[l].src),
         \A l \in S : pData[l].loss = Cardinality(pData[l].src \cap H),
         \A l, m \in S : l # m => pData[l].src \cap pData[m].src = {}
  PROVE  /\ IsFiniteSet(Sum(S).src) /\ Sum(S).src = Sources(S)
         /\ Sum(S).loss = Cardinality(Sum(S).src \cap H)
<1> DEFINE Tot(s) == Cardinality(Sources(s) \cap H)
           Any(s) == CHOOSE x \in s : TRUE
           g == [s \in SUBSET S |-> Tot(s)]
<1>1. Sum(S).src = Sources(S)
  BY DEF Sum, Sources
<1>2. \A s \in SUBSET S : IsFiniteSet(s) /\ IsFiniteSet(Sources(s))
  <2> SUFFICES ASSUME NEW s \in SUBSET S PROVE IsFiniteSet(s) /\ IsFiniteSet(Sources(s))
    OBVIOUS
  <2>1. IsFiniteSet(s)
    BY FS_Subset
  <2> QED BY <2>1, FiniteSources
<1>3. \A s \in SUBSET S : s # {} => Any(s) \in s
  OBVIOUS
<1>4. Tot({}) = 0
  <2>1. Sources({}) \cap H = {}
    BY DEF Sources
  <2> QED BY <2>1, FS_EmptySet
<1>5. ASSUME NEW s \in SUBSET S, NEW x \in s
      PROVE  Tot(s) = pData[x].loss + Tot(s \ {x})
  <2> DEFINE A == pData[x].src \cap H
             B == Sources(s \ {x}) \cap H
  <2>1. Sources(s) \cap H = A \cup B
    BY DEF Sources
  <2>2. A \cap B = {}
    <3> SUFFICES ASSUME NEW q \in A, q \in B PROVE FALSE
      OBVIOUS
    <3>1. PICK l \in s \ {x} : q \in pData[l].src
      BY DEF Sources
    <3> QED BY <3>1
  <2>3. IsFiniteSet(A) /\ IsFiniteSet(B)
    <3>1. IsFiniteSet(pData[x].src)
      OBVIOUS
    <3>2. IsFiniteSet(Sources(s \ {x}))
      BY <1>2
    <3> QED BY <3>1, <3>2, FS_Intersection
  <2>4. pData[x].loss = Cardinality(A)
    OBVIOUS
  <2> HIDE DEF A, B
  <2>5. Cardinality(A \cup B) = Cardinality(A) + Cardinality(B) - Cardinality(A \cap B)
    BY <2>3, FS_Union
  <2>6. Cardinality(A \cap B) = 0 /\ Cardinality(A) \in Nat /\ Cardinality(B) \in Nat
    BY <2>2, <2>3, FS_EmptySet, FS_CardinalityType
  <2>7. Cardinality(A \cup B) = Cardinality(A) + Cardinality(B)
    BY <2>5, <2>6
  <2> QED BY <2>1, <2>4, <2>7 DEF B
<1> HIDE DEF Tot
<1>6. LossOver(g, S)
  <2>1. ASSUME NEW s \in SUBSET S
        PROVE  g[s] = IF s = {} THEN 0 ELSE pData[Any(s)].loss + g[s \ {Any(s)}]
    <3>1. CASE s = {}
      BY <1>4, <3>1
    <3>2. CASE s # {}
      <4>1. Any(s) \in s /\ s \ {Any(s)} \in SUBSET S
        BY <1>3, <3>2
      <4>2. Tot(s) = pData[Any(s)].loss + Tot(s \ {Any(s)})
        BY <1>5, <4>1
      <4> QED BY <3>2, <4>1, <4>2
    <3> QED BY <3>1, <3>2
  <2> QED BY <2>1 DEF LossOver
<1>7. PICK r : LossOver(r, S) /\ Sum(S).loss = r[S]
  BY <1>6, LossSolves
<1>8. \A s \in SUBSET S : r[s] = IF s = {} THEN 0 ELSE pData[Any(s)].loss + r[s \ {Any(s)}]
  BY <1>7 DEF LossOver
<1> HIDE DEF Any, g
<1> DEFINE n == Cardinality(S)
           T == {m \in 0 .. n : \A s \in SUBSET S : Cardinality(s) = m => r[s] = Tot(s)}
<1>9. n \in Nat
  BY FS_CardinalityType
<1>10. 0 \in T
  <2>1. ASSUME NEW s \in SUBSET S, Cardinality(s) = 0 PROVE r[s] = Tot(s)
    <3>1. s = {}
      BY <1>2, <2>1, FS_EmptySet
    <3> QED BY <1>4, <1>8, <3>1
  <2> QED BY <1>9, <2>1
<1>11. \A m \in 0 .. n - 1 : m \in T => m + 1 \in T
  <2> SUFFICES ASSUME NEW m \in 0 .. n - 1, m \in T,
                      NEW s \in SUBSET S, Cardinality(s) = m + 1
               PROVE  r[s] = Tot(s)
    BY <1>9
  <2>1. m \in Nat
    BY <1>9
  <2>2. s # {}
    <3>1. Cardinality(s) # 0
      BY <2>1
    <3> QED BY <1>2, <3>1, FS_EmptySet
  <2>3. Any(s) \in s
    BY <1>3, <2>2
  <2>4. s \ {Any(s)} \in SUBSET S /\ Cardinality(s \ {Any(s)}) = m
    <3>1. Cardinality(s \ {Any(s)}) = Cardinality(s) - 1
      BY <1>2, <2>3, FS_RemoveElement
    <3> QED BY <2>1, <3>1
  <2>5. r[s \ {Any(s)}] = Tot(s \ {Any(s)})
    BY <2>4
  <2> QED BY <1>5, <1>8, <2>2, <2>3, <2>5
<1> HIDE DEF T
<1>12. \A m \in 0 .. n : m \in T
  BY <1>9, <1>10, <1>11, UpTo
<1>13. r[S] = Tot(S)
  <2>1. n \in T
    BY <1>9, <1>12
  <2> QED BY <2>1 DEF T
<1> QED BY <1>1, <1>2, <1>7, <1>13 DEF Tot

-----------------------------------------------------------------------------
(* Where the values of a sample, a channel and a polarisation are, in the  *)
(* data and in the file.                                                   *)
Elem(i, j, k) ==
  IF file.order = "chan_if" THEN Number(Nchans, Nifs, i, j, k) ELSE Number(Nifs, Nchans, i, k, j)

Low(j, k) == IF file.order = "chan_if" THEN j * Nifs + k ELSE k * Nchans + j

LEMMA ElemIs ==
  ASSUME ShapeOK, NEW i \in Nat, NEW j \in Channels, NEW k \in Pols
  PROVE  /\ Elem(i, j, k) \in Nat
         /\ Low(j, k) \in 0 .. Nchans * Nifs - 1
         /\ Elem(i, j, k) = i * (Nchans * Nifs) + Low(j, k)
         /\ Elem(i, j, k) % (Nchans * Nifs) = Low(j, k)
         /\ Row(Elem(i, j, k)) = i /\ Channel(Elem(i, j, k)) = j /\ Pol(Elem(i, j, k)) = k
         /\ Elem(i, j, k) < Size <=> i < Nsamples
<1>1. Nchans \in Nat \ {0} /\ Nifs \in Nat \ {0} /\ Nsamples \in Nat
  BY FilDataAssumption DEF ShapeOK
<1>2. j \in 0 .. Nchans - 1 /\ k \in 0 .. Nifs - 1
  BY DEF Channels, Pols
<1>3. Nifs * Nchans = Nchans * Nifs /\ Nchans * Nifs \in Nat \ {0}
  BY <1>1, ProductPositive
<1> DEFINE a == Number(Nchans, Nifs, i, j, k)
           b == Number(Nifs, Nchans, i, k, j)
<1>4. /\ a \in Nat /\ a = i * (Nchans * Nifs) + (j * Nifs + k)
      /\ a \div (Nchans * Nifs) = i /\ a % (Nchans * Nifs) = j * Nifs + k
      /\ a % Nifs = k /\ (a \div Nifs) % Nchans = j
  BY <1>1, <1>2, ThreeDigits
<1>5. /\ b \in Nat /\ b = i * (Nifs * Nchans) + (k * Nchans + j)
      /\ b \div (Nifs * Nchans) = i /\ b % (Nifs * Nchans) = k * Nchans + j
      /\ b % Nchans = j /\ (b \div Nchans) % Nifs = k
  BY <1>1, <1>2, ThreeDigits
<1>6. j * Nifs + k \in 0 .. Nchans * Nifs - 1 /\ k * Nchans + j \in 0 .. Nifs * Nchans - 1
  BY <1>1, <1>2, LowDigits
<1>7. Low(j, k) \in 0 .. Nchans * Nifs - 1
  BY <1>3, <1>6 DEF Low
<1> HIDE DEF a, b
<1>8. /\ Elem(i, j, k) \in Nat
      /\ Elem(i, j, k) = i * (Nchans * Nifs) + Low(j, k)
      /\ Elem(i, j, k) % (Nchans * Nifs) = Low(j, k)
      /\ Row(Elem(i, j, k)) = i /\ Channel(Elem(i, j, k)) = j /\ Pol(Elem(i, j, k)) = k
  <2>1. CASE file.order = "chan_if"
    <3>1. Elem(i, j, k) = a /\ Low(j, k) = j * Nifs + k
      BY <2>1 DEF Elem, Low, a
    <3> QED BY <1>4, <2>1, <3>1 DEF Row, Channel, Pol
  <2>2. CASE file.order # "chan_if"
    <3>1. Elem(i, j, k) = b /\ Low(j, k) = k * Nchans + j
      BY <2>2 DEF Elem, Low, b
    <3> QED BY <1>3, <1>5, <2>2, <3>1 DEF Row, Channel, Pol
  <2> QED BY <2>1, <2>2
<1>9. Size = Nsamples * (Nchans * Nifs)
  BY Shape
<1>10. Elem(i, j, k) < Size <=> i < Nsamples
  BY <1>1, <1>3, <1>7, <1>8, <1>9, FirstDigit
<1> QED BY <1>7, <1>8, <1>10

LEMMA ElemFor ==
  ASSUME ShapeOK, NEW l \in 0 .. Size - 1
  PROVE  \E i \in 0 .. Nsamples - 1, j \in Channels, k \in Pols : l = Elem(i, j, k)
<1>1. Nchans \in Nat \ {0} /\ Nifs \in Nat \ {0} /\ Nsamples \in Nat
  BY FilDataAssumption DEF ShapeOK
<1>2. l \in Nat /\ l < Size
  BY Shape
<1>3. PICK i \in Nat, j \in Channels, k \in Pols : l = Elem(i, j, k)
  <2>1. CASE file.order = "chan_if"
    <3>1. \E i \in Nat, j \in 0 .. Nchans - 1, k \in 0 .. Nifs - 1 : l = Number(Nchans, Nifs, i, j, k)
      BY <1>1, <1>2, DigitsThree
    <3> QED BY <2>1, <3>1 DEF Elem, Channels, Pols
  <2>2. CASE file.order # "chan_if"
    <3>1. \E i \in Nat, k \in 0 .. Nifs - 1, j \in 0 .. Nchans - 1 : l = Number(Nifs, Nchans, i, k, j)
      BY <1>1, <1>2, DigitsThree
    <3> QED BY <2>2, <3>1 DEF Elem, Channels, Pols
  <2> QED BY <2>1, <2>2
<1>4. i < Nsamples
  BY <1>2, <1>3, ElemIs
<1>5. i \in 0 .. Nsamples - 1
  BY <1>1, <1>4
<1> QED BY <1>3, <1>5

LEMMA ElemIn ==
  ASSUME ShapeOK, NEW i \in 0 .. Nsamples - 1, NEW j \in Channels, NEW k \in Pols
  PROVE  i \in Nat /\ Elem(i, j, k) \in 0 .. Size - 1
<1>1. i \in Nat /\ i < Nsamples /\ Size \in Nat
  BY Shape DEF ShapeOK
<1> QED BY <1>1, ElemIs

(* The sample, among those of the file, and the polarisation of a place.   *)
SampleOf(q) == (q \div file.nbits) \div (Nchans * file.nifs)

LEMMA PositionIs ==
  ASSUME file \in Files, NEW i \in Nat, NEW j \in Channels, NEW p \in 0 .. file.nifs - 1
  PROVE  /\ PositionOf(i, j, p) \in Nat
         /\ SampleOf(PositionOf(i, j, p)) = i /\ PolOf(PositionOf(i, j, p)) = p
<1>1. /\ Nchans \in Nat \ {0} /\ file.nifs \in Nat \ {0} /\ file.nbits \in Nat \ {0}
      /\ j \in 0 .. Nchans - 1
  BY FileTypes DEF Channels
<1>0. PICK P : P = file.nifs /\ P \in Nat \ {0} /\ p \in 0 .. P - 1
  BY <1>1
<1>11. /\ P \in Nat \ {0} /\ p \in 0 .. P - 1
       /\ Nchans \in Nat \ {0} /\ j \in 0 .. Nchans - 1 /\ i \in Nat
  BY <1>0, <1>1
<1> DEFINE a == Number(Nchans, P, i, j, p)
           b == Number(P, Nchans, i, p, j)
           v == IF file.order = "chan_if" THEN a ELSE b
           N == Nchans * P
<1>2. /\ a \in Nat /\ a = i * (Nchans * P) + (j * P + p)
      /\ a \div (Nchans * P) = i /\ a % (Nchans * P) = j * P + p
  BY ONLY <1>11, ThreeDigits
<1>3. /\ b \in Nat /\ b = i * (P * Nchans) + (p * Nchans + j)
      /\ b \div (P * Nchans) = i /\ b % (P * Nchans) = p * Nchans + j
  BY ONLY <1>11, ThreeDigits
<1>4. P * Nchans = N
  BY <1>0, <1>1
<1>5. PositionOf(i, j, p) = v * file.nbits + 0
  <2>1. PositionOf(i, j, p) = v * file.nbits
    BY <1>0, <1>1 DEF PositionOf, Number
  <2>2. v \in Nat
    BY <1>2, <1>3
  <2> HIDE DEF v
  <2> QED BY <1>1, <2>1, <2>2, ProductNat
<1>6. v \in Nat /\ v \div N = i
      /\ v % N = IF file.order = "chan_if" THEN j * P + p ELSE p * Nchans + j
  <2> HIDE DEF a, b
  <2> QED BY <1>2, <1>3, <1>4
<1> HIDE DEF v, N, a, b
<1>7. PositionOf(i, j, p) \in Nat
  <2>1. v * file.nbits \in Nat
    BY <1>1, <1>6, ProductNat
  <2> QED BY <1>5, <2>1
<1>8. PositionOf(i, j, p) \div file.nbits = v
  <2>1. 0 \in 0 .. file.nbits - 1
    BY <1>1
  <2> QED BY <1>1, <1>5, <1>6, <2>1, ModOfMultiple
<1>9. SampleOf(PositionOf(i, j, p)) = i
  BY <1>0, <1>6, <1>8 DEF SampleOf, N
<1>10. PolOf(PositionOf(i, j, p)) = p
  <2>1. (j * P + p) % P = p
    BY ONLY <1>11, ModOfMultiple
  <2>2. (p * Nchans + j) % Nchans = j /\ (p * Nchans + j) \div Nchans = p
    <3>1. p \in Int
      BY <1>11
    <3> QED BY ONLY <1>11, <3>1, ModOfMultiple
  <2> QED BY <1>0, <1>6, <1>8, <2>1, <2>2 DEF PolOf, N
<1> QED BY <1>7, <1>9, <1>10

-----------------------------------------------------------------------------
(* The data are those of the file: the inductive invariant.                *)
PolsOK ==
  /\ DOMAIN given.pols = Pols
  /\ \A k \in Pols : given.pols[k] \subseteq 0 .. file.nifs - 1
  /\ \A k, m \in Pols : k # m => given.pols[k] \cap given.pols[m] = {}

TimesOK ==
  /\ Nsamples = given.count \div given.factor
  /\ given.tsamp = file.tsamp => Tsamp = file.tsamp * given.factor

ElemOK(e, i, j, k) ==
  /\ IsFiniteSet(e.src)
  /\ e.src = Values(i, {j}, k)
  /\ e.loss = Cardinality(e.src \cap file.high)

CellsRight ==
  \A i \in 0 .. Nsamples - 1, j \in Channels, k \in Pols : ElemOK(pData[Elem(i, j, k)], i, j, k)

DataInv ==
  Known => Nbits = file.nbits /\ Nbits # 16 /\ PolsOK /\ TimesOK /\ CellsRight

LEMMA ValuesOf ==
  ASSUME NEW i, NEW j, NEW k, NEW q
  PROVE  q \in Values(i, {j}, k) <=>
           \E t \in 0 .. given.factor - 1, p \in given.pols[k] :
             q = PositionOf(given.first + given.factor * i + t, j, p)
BY DEF Values

(* What a value tells of where it belongs.                                 *)
LEMMA ValueHome ==
  ASSUME ShapeOK, given \in Givens, PolsOK,
         NEW i \in Nat, NEW j \in Channels, NEW k \in Pols, NEW q \in Values(i, {j}, k)
  PROVE  /\ SampleOf(q) - given.first \in Nat
         /\ (SampleOf(q) - given.first) \div given.factor = i
         /\ PolOf(q) \in given.pols[k]
<1>1. PICK t \in 0 .. given.factor - 1, p \in given.pols[k] :
        q = PositionOf(given.first + given.factor * i + t, j, p)
  BY DEF Values
<1>2. PICK F : F = given.factor /\ F \in Nat \ {0}
  BY DEF Givens
<1>3. PICK s : s = given.first /\ s \in Nat
  BY DEF Givens
<1>4. t \in 0 .. F - 1 /\ t \in Nat /\ F * i \in Nat /\ F * i = i * F
  BY <1>2, ProductNat
<1>5. p \in 0 .. file.nifs - 1
  BY DEF PolsOK
<1>6. s + F * i + t \in Nat
  BY <1>3, <1>4
<1>7. SampleOf(q) = s + F * i + t /\ PolOf(q) = p
  BY <1>1, <1>2, <1>3, <1>5, <1>6, PositionIs DEF ShapeOK
<1>8. SampleOf(q) - s = i * F + t /\ i * F + t \in Nat
  BY <1>3, <1>4, <1>7
<1>9. (i * F + t) \div F = i
  BY <1>2, <1>4, ModOfMultiple
<1> QED BY <1>2, <1>3, <1>7, <1>8, <1>9

LEMMA CellAt ==
  ASSUME ShapeOK, CellsRight, NEW l \in 0 .. Size - 1
  PROVE  /\ Row(l) \in 0 .. Nsamples - 1 /\ Row(l) \in Nat
         /\ Channel(l) \in Channels /\ Pol(l) \in Pols
         /\ l = Elem(Row(l), Channel(l), Pol(l))
         /\ ElemOK(pData[l], Row(l), Channel(l), Pol(l))
<1>1. PICK i \in 0 .. Nsamples - 1, j \in Channels, k \in Pols : l = Elem(i, j, k)
  BY ElemFor
<1>2. i \in Nat
  BY ElemIn
<1>3. Row(l) = i /\ Channel(l) = j /\ Pol(l) = k
  BY <1>1, <1>2, ElemIs
<1>4. ElemOK(pData[Elem(i, j, k)], i, j, k)
  BY DEF CellsRight
<1> QED BY <1>1, <1>2, <1>3, <1>4

(* A sum of values of one channel.                                         *)
LEMMA SumRight ==
  ASSUME ShapeOK, given \in Givens, PolsOK, CellsRight,
         NEW j \in Channels, NEW S \in SUBSET (0 .. Size - 1), \A l \in S : Channel(l) = j
  PROVE  /\ IsFiniteSet(Sum(S).src)
         /\ Sum(S).src = UNION {Values(Row(l), {j}, Pol(l)) : l \in S}
         /\ Sum(S).loss = Cardinality(Sum(S).src \cap file.high)
<1>1. \A l \in S : /\ Row(l) \in Nat /\ Pol(l) \in Pols
                   /\ l = Elem(Row(l), j, Pol(l))
                   /\ ElemOK(pData[l], Row(l), j, Pol(l))
  BY CellAt
<1>2. IsFiniteSet(S)
  <2>1. IsFiniteSet(0 .. Size - 1)
    <3>1. 0 \in Int /\ Size - 1 \in Int
      BY Shape
    <3> QED BY <3>1, FS_Interval
  <2> QED BY <2>1, FS_Subset
<1>3. ASSUME NEW l \in S, NEW m \in S, l # m
      PROVE  pData[l].src \cap pData[m].src = {}
  <2> SUFFICES ASSUME NEW q, q \in pData[l].src, q \in pData[m].src PROVE FALSE
    OBVIOUS
  <2>1. q \in Values(Row(l), {j}, Pol(l)) /\ q \in Values(Row(m), {j}, Pol(m))
    BY <1>1 DEF ElemOK
  <2>2. Row(l) = Row(m)
    BY <1>1, <2>1, ValueHome
  <2>3. PolOf(q) \in given.pols[Pol(l)] /\ PolOf(q) \in given.pols[Pol(m)]
    BY <1>1, <2>1, ValueHome
  <2>4. Pol(l) = Pol(m)
    BY <1>1, <2>3 DEF PolsOK
  <2> QED BY <1>1, <1>3, <2>2, <2>4
<1>4. /\ IsFiniteSet(Sum(S).src) /\ Sum(S).src = Sources(S)
      /\ Sum(S).loss = Cardinality(Sum(S).src \cap file.high)
  <2>1. \A l \in S : IsFiniteSet(pData[l].src)
                     /\ pData[l].loss = Cardinality(pData[l].src \cap file.high)
    BY <1>1 DEF ElemOK
  <2> QED BY <1>2, <1>3, <2>1, SumLoss
<1>5. Sources(S) = UNION {Values(Row(l), {j}, Pol(l)) : l \in S}
  <2>1. \A l \in S : pData[l].src = Values(Row(l), {j}, Pol(l))
    BY <1>1 DEF ElemOK
  <2> QED BY <2>1 DEF Sources
<1> QED BY <1>4, <1>5

(* What follows from the invariant.                                        *)
LEMMA DataRightFrom ==
  ASSUME TypeInv, FreshFits, DataInv
  PROVE  DataRight
<1> SUFFICES ASSUME Known
             PROVE  /\ TimesOK /\ Size <= Length
                    /\ \A l \in 0 .. Size - 1 :
                         /\ pData[l].src = Values(Row(l), {Channel(l)}, Pol(l))
                         /\ pData[l].loss = Cardinality(pData[l].src \cap file.high)
  BY DEF DataRight, TimesOK
<1>1. ShapeOK /\ Nbits # 16 /\ TimesOK /\ CellsRight /\ given.fresh
  BY DEF DataInv, Known, TypeInv
<1> QED BY <1>1, CellAt DEF ElemOK, FreshFits

(* The place of a value behind the samples that are in front of it.        *)
LEMMA PlaceOf ==
  ASSUME ShapeOK, Nifs = file.nifs, Nbits = file.nbits, NEW f \in Nat,
         NEW i \in Nat, NEW j \in Channels, NEW k \in Pols
  PROVE  PositionOf(f + i, j, k) = f * (Nchans * Nifs * Nbits) + Elem(i, j, k) * Nbits
<1>1. Nchans \in Nat \ {0} /\ Nifs \in Nat \ {0} /\ Nbits \in Nat \ {0}
  BY FilDataAssumption DEF ShapeOK
<1>2. PICK c : c = Low(j, k) /\ c \in Nat
  BY ElemIs
<1>3. Elem(i, j, k) = i * (Nchans * Nifs) + c
  BY <1>2, ElemIs
<1>4. PositionOf(f + i, j, k) = Nbits * ((f + i) * Nchans * Nifs + c)
  BY <1>2 DEF PositionOf, Low
<1>5. PICK N : N = Nchans * Nifs /\ N \in Nat
  BY <1>1, ProductNat
<1>6. (f + i) * Nchans * Nifs = f * N + i * N
  <2>1. (f + i) * Nchans * Nifs = (f + i) * N
    BY <1>1, <1>5
  <2>2. (f + i) * N = f * N + i * N
    BY <1>5
  <2> QED BY <2>1, <2>2
<1>7. Nbits * ((f * N + i * N) + c) = f * (N * Nbits) + (i * N + c) * Nbits
  BY <1>1, <1>2, <1>5
<1> QED BY <1>3, <1>4, <1>5, <1>6, <1>7

LEMMA BitsBefore ==
  ASSUME NEW l \in Nat, NEW g \in Nat, NEW u \in {1, 8}, NEW b \in {1, 8, 32},
         l < g * u
  PROVE  l * b < g * (u * b)
OBVIOUS

LEMMA OneHigh ==
  ASSUME NEW q, NEW H
  PROVE  /\ IsFiniteSet({q})
         /\ Cardinality({q} \cap H) = IF q \in H THEN 1 ELSE 0
<1>1. q \in H => {q} \cap H = {q}
  OBVIOUS
<1>2. q \notin H => {q} \cap H = {}
  OBVIOUS
<1> QED BY <1>1, <1>2, FS_Singleton, FS_EmptySet

LEMMA DataRead ==
  ASSUME TypeInv, NEW call \in {"ReadInData", "ReadInDatabySample"},
         NEW p \in Nat, p % 8 = 0, NEW ns \in Int, NEW asked, NEW counts,
         readdata(call, p, ns, asked, counts), outcome' = "ok"
  PROVE  DataInv'
<1> DEFINE B == Nchans * Nifs * Nbits
           first == p \div B
<1>1. given' = [fresh |-> TRUE, asked |-> asked, counts |-> counts,
                layout |-> Nifs = file.nifs /\ Nbits = file.nbits /\ Nbits # 16 /\ p % B = 0,
                first |-> first, count |-> Nsamples',
                factor |-> 1, tsamp |-> Tsamp,
                pols |-> [k \in 0 .. Nifs - 1 |-> {k}], onepol |-> TRUE]
  BY ReadRest
<1>2. UNCHANGED <<file, Nifs, Nbits, Tsamp>>
  BY ReadRest DEF header_vars
<1> SUFFICES ASSUME given'.layout
             PROVE  /\ Nbits' = file'.nbits /\ Nbits' # 16
                    /\ PolsOK' /\ TimesOK' /\ CellsRight'
  BY DEF DataInv, Known
<1>3. Nifs = file.nifs /\ Nbits = file.nbits /\ Nbits # 16 /\ p % B = 0
  BY <1>1
<1>4. /\ ShapeOK /\ Nbits \in {1, 8, 32} /\ B \in Nat \ {0} /\ Nifs \in Nat \ {0}
      /\ Tsamp \in Nat
  BY <1>3, Shape DEF TypeInv, ShapeOK
<1>5. first \in Nat /\ p = first * B
  <2> HIDE DEF B
  <2>1. first \in Nat
    BY <1>4, DivNat
  <2>2. p = (p \div B) * B + (p % B)
    BY <1>4, DivMod
  <2>3. first * B \in Nat
    BY <1>4, <2>1, ProductNat
  <2> QED BY <1>3, <2>1, <2>2, <2>3
<1> DEFINE U == Unit \div Nbits
           v == Got(p, ns) * U
           n == Samples(v)
<1>6. /\ ~(Wanted(ns) < 0)
      /\ pData' = [l \in 0 .. Cells(p, ns) - 1 |-> Cell(p, ns, l)]
      /\ Nsamples' = n
  <2>1. /\ Nbits # 16 => ~(Wanted(ns) < 0)
        /\ Nbits # 16 =>
             /\ pData' = [l \in 0 .. Cells(p, ns) - 1 |-> Cell(p, ns, l)]
             /\ Nsamples' = Samples(Got(p, ns) * (Unit \div Nbits))
    BY ONLY ReadSamples, readdata(call, p, ns, asked, counts), outcome' = "ok",
            call \in {"ReadInData", "ReadInDatabySample"}
  <2> QED BY ONLY <1>3, <2>1
<1>7. Cells(p, ns) \in Nat /\ v \in Nat /\ v <= Cells(p, ns)
  BY <1>3, <1>4, <1>6, ReadShape
<1>8. n \in Nat /\ n * (Nchans * Nifs) <= v
  BY <1>4, <1>7, SamplesFit
<1>9. PolsOK'
  <2>1. given'.pols = [k \in 0 .. Nifs - 1 |-> {k}] /\ Pols' = 0 .. Nifs - 1
    BY <1>1, <1>2 DEF Pols
  <2> QED BY <1>2, <1>3, <2>1 DEF PolsOK
<1>10. TimesOK'
  <2>1. given'.count = n /\ given'.factor = 1 /\ given'.tsamp = Tsamp
    BY <1>1, <1>6
  <2> HIDE DEF n
  <2> QED BY <1>2, <1>4, <1>6, <1>8, <2>1 DEF TimesOK
<1>11. U \in {1, 8} /\ Unit = U * Nbits /\ Got(p, ns) \in Nat
  <2>1. Got(p, ns) \in Nat
    BY <1>4, Seeked
  <2> QED BY <1>4, <2>1 DEF Unit
<1>12. ASSUME NEW i \in 0 .. n - 1, NEW j \in Channels, NEW k \in Pols
       PROVE  ElemOK(pData[Elem(i, j, k)], i, j, k)'
  <2> DEFINE l == Elem(i, j, k)
             q == p + l * Nbits
  <2> HIDE DEF U, n, v
  <2>1. i \in Nat /\ i < n
    BY <1>8
  <2>2. l \in Nat /\ l < v
    <3>1. l \in Nat /\ l = i * (Nchans * Nifs) + Low(j, k) /\ Low(j, k) \in 0 .. Nchans * Nifs - 1
      BY <1>4, <2>1, ElemIs
    <3>2. PICK N : N = Nchans * Nifs /\ N \in Nat \ {0}
      BY <1>4, Shape
    <3> HIDE DEF l
    <3>3. l < n * N
      <4>1. Low(j, k) \in 0 .. N - 1 /\ l = i * N + Low(j, k)
        BY ONLY <3>1, <3>2
      <4> QED BY ONLY <1>8, <2>1, <3>2, <4>1, FirstDigit
    <3>4. n * N \in Nat
      BY <1>8, <3>2, ProductNat
    <3> QED BY <1>7, <1>8, <3>1, <3>2, <3>3, <3>4
  <2>3. Elem(i, j, k)' = l
    BY <1>2 DEF Elem
  <2>4. l \in 0 .. Cells(p, ns) - 1
    <3> HIDE DEF l
    <3> QED BY <1>7, <2>2
  <2>5. pData'[l] = Cell(p, ns, l)
    <3> HIDE DEF l
    <3> QED BY <1>6, <2>4
  <2>6. l * Nbits < Got(p, ns) * Unit
    <3> HIDE DEF l
    <3>1. l < Got(p, ns) * U
      BY <2>2 DEF v
    <3> QED BY <1>4, <1>11, <2>2, <3>1, BitsBefore
  <2>7. Cell(p, ns, l) = [src |-> {q}, base |-> {},
                          loss |-> IF Nbits = 8 /\ q \in file.high THEN 1 ELSE 0]
    <3> HIDE DEF l
    <3> QED BY <2>6, CellRead
  <2>8. Nbits # 8 => file.high = {}
    <3>1. file \in Files
      BY <1>4 DEF ShapeOK
    <3> QED BY ONLY <1>3, <3>1, FilDataAssumption
  <2>9. q = PositionOf(first + i, j, k)
    <3> HIDE DEF first
    <3> QED BY <1>3, <1>4, <1>5, <2>1, PlaceOf
  <2>10. Values(i, {j}, k)' = {q}
    <3>1. /\ given'.factor = 1 /\ given'.first = first /\ given'.pols[k] = {k}
      BY <1>1 DEF Pols
    <3>2. \A t \in 0 .. 1 - 1 : first + 1 * i + t = first + i
      <4> HIDE DEF first
      <4> QED BY <1>5, <2>1
    <3>3. 0 \in 0 .. 1 - 1
      OBVIOUS
    <3>4. \A a, b, c : PositionOf(a, b, c)' = PositionOf(a, b, c)
      BY <1>2 DEF PositionOf
    <3>5. \A y : y \in Values(i, {j}, k)' <=>
                  \E t \in 0 .. 1 - 1, x \in {k} : y = PositionOf(first + 1 * i + t, j, x)
      BY <3>1, <3>4 DEF Values
    <3> HIDE DEF first, q
    <3>6. q \in Values(i, {j}, k)'
      <4>1. q = PositionOf(first + 1 * i + 0, j, k)
        BY <2>9, <3>2, <3>3
      <4>2. PositionOf(first + 1 * i + 0, j, k) \in Values(i, {j}, k)'
        <5>1. \E t \in 0 .. 1 - 1, x \in {k} :
                PositionOf(first + 1 * i + 0, j, k) = PositionOf(first + 1 * i + t, j, x)
          BY <3>3
        <5> QED BY ONLY <3>5, <5>1
      <4> QED BY <4>1, <4>2
    <3>7. \A x \in Values(i, {j}, k)' : x = q
      BY <2>9, <3>2, <3>5
    <3> QED BY <3>6, <3>7
  <2>11. IsFiniteSet({q}) /\ Cardinality({q} \cap file.high) = IF q \in file.high THEN 1 ELSE 0
    BY OneHigh
  <2> HIDE DEF l, q
  <2>12. /\ pData'[l].src = {q}
         /\ pData'[l].loss = Cardinality({q} \cap file.high)
    BY <2>5, <2>7, <2>8, <2>11
  <2>13. file' = file /\ pData'[Elem(i, j, k)'] = pData'[l]
    BY <1>2, <2>3
  <2> QED BY ONLY <2>10, <2>11, <2>12, <2>13 DEF ElemOK
<1>13. CellsRight'
  <2>1. Pols' = Pols /\ Nsamples' = n
    BY <1>2, <1>6 DEF Pols
  <2> HIDE DEF n
  <2> QED BY <1>12, <2>1 DEF CellsRight
<1> QED BY <1>2, <1>3, <1>9, <1>10, <1>13

-----------------------------------------------------------------------------
(* Adding up samples.                                                      *)
Regrouped(F, d, i) ==
  /\ \A t \in 0 .. d - 1, u \in 0 .. F - 1 :
       /\ F * t + u \in 0 .. F * d - 1
       /\ F * (i * d + t) + u = (F * d) * i + (F * t + u)
  /\ \A w \in 0 .. F * d - 1 : \E t \in 0 .. d - 1, u \in 0 .. F - 1 : w = F * t + u

LEMMA Regroup ==
  ASSUME NEW F \in Nat \ {0}, NEW d \in Nat \ {0}, NEW i \in Nat
  PROVE  Regrouped(F, d, i)
<1>1. ASSUME NEW t \in 0 .. d - 1, NEW u \in 0 .. F - 1
      PROVE  /\ F * t + u \in 0 .. F * d - 1
             /\ F * (i * d + t) + u = (F * d) * i + (F * t + u)
  <2>1. t * F + u \in 0 .. d * F - 1
    BY LowDigits
  <2>2. t * F = F * t /\ d * F = F * d
    OBVIOUS
  <2>3. F * (i * d + t) = (F * d) * i + F * t /\ F * t \in Int /\ (F * d) * i \in Int
    OBVIOUS
  <2> QED BY <2>1, <2>2, <2>3
<1>2. ASSUME NEW w \in 0 .. F * d - 1
      PROVE  \E t \in 0 .. d - 1, u \in 0 .. F - 1 : w = F * t + u
  <2>1. F * d \in Nat /\ w \in Nat /\ w < d * F
    BY ProductNat
  <2>2. PICK t \in Nat, u \in 0 .. F - 1 : w = t * F + u
    BY <2>1, DigitsOf
  <2>3. t < d
    BY <2>1, <2>2, FirstDigit
  <2>4. t \in 0 .. d - 1 /\ w = F * t + u
    BY <2>2, <2>3
  <2> QED BY <2>4
<1> QED BY ONLY <1>1, <1>2 DEF Regrouped

Takes(i, j, k, nd) ==
  \A l : l \in Summed(Elem(i, j, k), nd) <=> \E t \in 0 .. nd - 1 : l = Elem(i * nd + t, j, k)

LEMMA SummedIs ==
  ASSUME ShapeOK, NEW nd \in Nat \ {0}, NEW i \in Nat, NEW j \in Channels, NEW k \in Pols
  PROVE  Takes(i, j, k, nd)
<1>1. PICK N : N = Nchans * Nifs /\ N \in Nat \ {0}
  BY Shape
<1>2. PICK c : c = Low(j, k) /\ c \in Nat
  BY ElemIs
<1>3. Elem(i, j, k) \div N = i /\ Elem(i, j, k) % N = c
  BY <1>1, <1>2, ElemIs DEF Row
<1>4. Summed(Elem(i, j, k), nd) = {i * nd * N + t * N + c : t \in 0 .. nd - 1}
  BY <1>1, <1>3 DEF Summed
<1>5. ASSUME NEW t \in 0 .. nd - 1
      PROVE  Elem(i * nd + t, j, k) = i * nd * N + t * N + c
  <2>1. PICK m : m = i * nd + t /\ m \in Nat
    BY ProductNat
  <2>2. Elem(m, j, k) = m * N + c
    BY <1>1, <1>2, <2>1, ElemIs
  <2>3. (i * nd + t) * N = i * nd * N + t * N
    BY <1>1
  <2> QED BY <2>1, <2>2, <2>3
<1> QED BY <1>4, <1>5 DEF Takes

Together(nd, i, j, k, q) ==
  (\E t \in 0 .. nd - 1 : q \in Values(i * nd + t, {j}, k))
    <=> \E w \in 0 .. given.factor * nd - 1, p \in given.pols[k] :
          q = PositionOf(given.first + (given.factor * nd) * i + w, j, p)

LEMMA ValuesTogether ==
  ASSUME given \in Givens, NEW nd \in Nat \ {0}, NEW i \in Nat, NEW j, NEW k, NEW q
  PROVE  Together(nd, i, j, k, q)
<1>1. PICK F : F = given.factor /\ F \in Nat \ {0}
  BY DEF Givens
<1>2. PICK s : s = given.first /\ s \in Nat
  BY DEF Givens
<1>0. /\ \A t \in 0 .. nd - 1, u \in 0 .. F - 1 :
           /\ F * t + u \in 0 .. F * nd - 1
           /\ F * (i * nd + t) + u = (F * nd) * i + (F * t + u)
      /\ \A w \in 0 .. F * nd - 1 : \E t \in 0 .. nd - 1, u \in 0 .. F - 1 : w = F * t + u
  <2>1. Regrouped(F, nd, i)
    BY ONLY <1>1, Regroup, nd \in Nat \ {0}, i \in Nat
  <2> QED BY ONLY <2>1 DEF Regrouped
<1>3. ASSUME NEW t \in 0 .. nd - 1, NEW u \in 0 .. F - 1
      PROVE  /\ F * t + u \in 0 .. F * nd - 1
             /\ s + F * (i * nd + t) + u = s + (F * nd) * i + (F * t + u)
  <2>1. F * t + u \in 0 .. F * nd - 1 /\ F * (i * nd + t) + u = (F * nd) * i + (F * t + u)
    BY ONLY <1>0, t \in 0 .. nd - 1, u \in 0 .. F - 1
  <2>2. F * (i * nd + t) \in Nat /\ (F * nd) * i \in Nat /\ F * t \in Nat
    <3>1. i * nd + t \in Nat /\ F * nd \in Nat /\ t \in Nat
      BY <1>1, ProductNat
    <3> QED BY <1>1, <3>1, ProductNat
  <2> QED BY <1>2, <2>1, <2>2
<1>4. \A t : q \in Values(i * nd + t, {j}, k) <=>
               \E u \in 0 .. F - 1, p \in given.pols[k] : q = PositionOf(s + F * (i * nd + t) + u, j, p)
  BY <1>1, <1>2 DEF Values
<1>5. ASSUME NEW t \in 0 .. nd - 1, q \in Values(i * nd + t, {j}, k)
      PROVE  \E w \in 0 .. F * nd - 1, p \in given.pols[k] : q = PositionOf(s + (F * nd) * i + w, j, p)
  <2>1. PICK u \in 0 .. F - 1, p \in given.pols[k] : q = PositionOf(s + F * (i * nd + t) + u, j, p)
    BY ONLY <1>4, <1>5
  <2>2. F * t + u \in 0 .. F * nd - 1 /\ q = PositionOf(s + (F * nd) * i + (F * t + u), j, p)
    BY <1>3, <2>1
  <2> QED BY <2>2
<1>6. ASSUME NEW w \in 0 .. F * nd - 1, NEW p \in given.pols[k],
             q = PositionOf(s + (F * nd) * i + w, j, p)
      PROVE  \E t \in 0 .. nd - 1 : q \in Values(i * nd + t, {j}, k)
  <2>1. PICK t \in 0 .. nd - 1, u \in 0 .. F - 1 : w = F * t + u
    BY ONLY <1>0, w \in 0 .. F * nd - 1
  <2>2. q = PositionOf(s + F * (i * nd + t) + u, j, p)
    BY <1>3, <1>6, <2>1
  <2>3. q \in Values(i * nd + t, {j}, k)
    <3>1. \E x \in 0 .. F - 1, y \in given.pols[k] : q = PositionOf(s + F * (i * nd + t) + x, j, y)
      BY ONLY <2>2, u \in 0 .. F - 1, p \in given.pols[k]
    <3> QED BY ONLY <1>4, <3>1
  <2> QED BY <2>3
<1> QED BY ONLY <1>1, <1>2, <1>5, <1>6 DEF Together

LEMMA DownCell ==
  ASSUME ShapeOK, given \in Givens, PolsOK, CellsRight, NEW nd \in Nat \ {0},
         NEW i \in 0 .. (Nsamples \div nd) - 1, NEW j \in Channels, NEW k \in Pols
  PROVE  LET e == Sum(Summed(Elem(i, j, k), nd))
         IN  /\ IsFiniteSet(e.src)
             /\ \A q : q \in e.src <=> \E t \in 0 .. nd - 1 : q \in Values(i * nd + t, {j}, k)
             /\ e.loss = Cardinality(e.src \cap file.high)
<1>1. Nsamples \in Nat /\ Nsamples \div nd \in Nat /\ i \in Nat
  BY DivNat DEF ShapeOK
<1>2. PICK S : /\ S = Summed(Elem(i, j, k), nd)
               /\ \A l : l \in S <=> \E t \in 0 .. nd - 1 : l = Elem(i * nd + t, j, k)
  <2>1. \A l : l \in Summed(Elem(i, j, k), nd) <=> \E t \in 0 .. nd - 1 : l = Elem(i * nd + t, j, k)
    <3>1. Takes(i, j, k, nd)
      BY ONLY ShapeOK, nd \in Nat \ {0}, <1>1, j \in Channels, k \in Pols, SummedIs
    <3> QED BY ONLY <3>1 DEF Takes
  <2> QED BY ONLY <2>1
<1>3. ASSUME NEW t \in 0 .. nd - 1
      PROVE  /\ i * nd + t \in Nat /\ i * nd + t < Nsamples
             /\ Elem(i * nd + t, j, k) \in 0 .. Size - 1
             /\ Row(Elem(i * nd + t, j, k)) = i * nd + t
             /\ Channel(Elem(i * nd + t, j, k)) = j /\ Pol(Elem(i * nd + t, j, k)) = k
  <2>1. PICK m : m = i * nd + t /\ m \in Nat
    BY <1>1, ProductNat
  <2>2. m < Nsamples
    <3>1. PICK n : n = Nsamples \div nd /\ n \in Nat
      BY <1>1
    <3>2. i < n
      BY <1>1, <3>1
    <3>3. i * nd + t < n * nd
      BY <1>1, <3>1, <3>2, FirstDigit
    <3>4. n * nd <= Nsamples /\ n * nd \in Nat
      BY <1>1, <3>1, DivMod, ProductNat
    <3> QED BY <1>1, <2>1, <3>3, <3>4
  <2>3. m \in 0 .. Nsamples - 1
    BY <1>1, <2>1, <2>2
  <2>4. Elem(m, j, k) \in 0 .. Size - 1
    BY <2>3, ElemIn
  <2>5. Row(Elem(m, j, k)) = m /\ Channel(Elem(m, j, k)) = j /\ Pol(Elem(m, j, k)) = k
    BY <2>1, ElemIs
  <2> QED BY <2>1, <2>2, <2>4, <2>5
<1>4. S \in SUBSET (0 .. Size - 1) /\ \A l \in S : Channel(l) = j
  <2>1. ASSUME NEW l \in S PROVE l \in 0 .. Size - 1 /\ Channel(l) = j
    <3>1. PICK t \in 0 .. nd - 1 : l = Elem(i * nd + t, j, k)
      BY <1>2
    <3> QED BY ONLY <1>3, <3>1
  <2> QED BY ONLY <2>1
<1>5. /\ IsFiniteSet(Sum(S).src)
      /\ Sum(S).src = UNION {Values(Row(l), {j}, Pol(l)) : l \in S}
      /\ Sum(S).loss = Cardinality(Sum(S).src \cap file.high)
  BY <1>4, SumRight
<1>6. ASSUME NEW q
      PROVE  q \in Sum(S).src <=> \E t \in 0 .. nd - 1 : q \in Values(i * nd + t, {j}, k)
  <2>1. q \in Sum(S).src <=> \E l \in S : q \in Values(Row(l), {j}, Pol(l))
    BY ONLY <1>5
  <2>2. ASSUME NEW l \in S, q \in Values(Row(l), {j}, Pol(l))
        PROVE  \E t \in 0 .. nd - 1 : q \in Values(i * nd + t, {j}, k)
    <3>1. PICK t \in 0 .. nd - 1 : l = Elem(i * nd + t, j, k)
      BY <1>2
    <3> QED BY <1>3, <2>2, <3>1
  <2>3. ASSUME NEW t \in 0 .. nd - 1, q \in Values(i * nd + t, {j}, k)
        PROVE  \E l \in S : q \in Values(Row(l), {j}, Pol(l))
    <3>1. PICK l \in S : l = Elem(i * nd + t, j, k)
      BY <1>2
    <3> QED BY <1>3, <2>3, <3>1
  <2> QED BY ONLY <2>1, <2>2, <2>3
<1> QED BY ONLY <1>2, <1>5, <1>6

LEMMA DataDownSample ==
  ASSUME TypeInv, DataInv, outcome = "ok", NEW nd \in 2 .. 3, DownSample(nd), outcome' = "ok"
  PROVE  DataInv'
<1> SUFFICES ASSUME Known'
             PROVE  Nbits' = file'.nbits /\ Nbits' # 16 /\ PolsOK' /\ TimesOK' /\ CellsRight'
  BY DEF DataInv
<1>0. given \in Givens /\ ShapeOK /\ nd \in Nat \ {0}
  BY DEF TypeInv, RestOK
<1>1. /\ pData' = [l \in 0 .. (Nsamples \div nd) * Nchans * Nifs - 1 |-> Sum(Summed(l, nd))]
      /\ Nsamples' = Nsamples \div nd /\ Tsamp' = Tsamp * nd
      /\ given' = [given EXCEPT !.factor = given.factor * nd]
      /\ UNCHANGED <<file, Nifs, Nbits>>
  BY DEF DownSample, OnData, Undefined, file_vars
<1>2. /\ given'.fresh = given.fresh /\ given'.layout = given.layout
      /\ given'.first = given.first /\ given'.count = given.count
      /\ given'.factor = given.factor * nd /\ given'.tsamp = given.tsamp
      /\ given'.pols = given.pols
  <2>1. LET g == [given EXCEPT !.factor = given.factor * nd]
        IN  g = [fresh |-> given.fresh, asked |-> given.asked, counts |-> given.counts,
                 layout |-> given.layout, first |-> given.first, count |-> given.count,
                 factor |-> given.factor * nd, tsamp |-> given.tsamp, pols |-> given.pols,
                 onepol |-> given.onepol]
    BY ONLY <1>0, GivenFields
  <2> QED BY ONLY <1>1, <2>1
<1>3. Nbits = file.nbits /\ Nbits # 16 /\ PolsOK /\ TimesOK /\ CellsRight
  BY <1>2 DEF DataInv, Known
<1>4. PICK F : F = given.factor /\ F \in Nat \ {0}
  BY <1>0 DEF Givens
<1>5. PICK n : n = Nsamples \div nd /\ n \in Nat
  BY <1>0, DivNat DEF ShapeOK
<1>6. PolsOK'
  BY <1>1, <1>2, <1>3 DEF PolsOK, Pols
<1>7. TimesOK'
  <2>1. given.count \in Nat
    BY <1>0 DEF Givens
  <2>2. given.count \div (nd * F) = (given.count \div F) \div nd
    BY <1>0, <1>4, <2>1, DivTwice
  <2>3. nd * F = F * nd
    BY <1>0, <1>4
  <2>4. Nsamples' = given'.count \div given'.factor
    BY <1>1, <1>2, <1>3, <1>4, <2>2, <2>3 DEF TimesOK
  <2>5. given'.tsamp = file'.tsamp => Tsamp' = file'.tsamp * given'.factor
    <3> SUFFICES ASSUME given.tsamp = file.tsamp PROVE Tsamp * nd = file.tsamp * (F * nd)
      BY <1>1, <1>2, <1>4
    <3>1. Tsamp = file.tsamp * F
      BY <1>3, <1>4 DEF TimesOK
    <3>2. file.tsamp \in Nat
      BY <1>0, FileTypes DEF ShapeOK
    <3> QED BY <1>0, <1>4, <3>1, <3>2
  <2> QED BY <2>4, <2>5 DEF TimesOK
<1>8. ASSUME NEW i \in 0 .. n - 1, NEW j \in Channels, NEW k \in Pols
      PROVE  ElemOK(pData[Elem(i, j, k)], i, j, k)'
  <2>1. Elem(i, j, k)' = Elem(i, j, k)
    BY <1>1 DEF Elem
  <2>2. i \in Nat /\ i < n
    BY <1>5
  <2>3. pData'[Elem(i, j, k)] = Sum(Summed(Elem(i, j, k), nd))
    <3>1. PICK N : N = Nchans * Nifs /\ N \in Nat \ {0}
      BY <1>0, Shape
    <3>2. PICK c : c = Low(j, k) /\ c \in 0 .. N - 1
      BY <1>0, <2>2, <3>1, ElemIs
    <3>3. PICK l : l = Elem(i, j, k) /\ l \in Nat /\ l = i * N + c
      BY <1>0, <2>2, <3>1, <3>2, ElemIs
    <3>4. l < n * N
      BY ONLY <1>5, <2>2, <3>1, <3>2, <3>3, FirstDigit
    <3>5. n * N = (Nsamples \div nd) * Nchans * Nifs
      <4>1. Nchans \in Nat /\ Nifs \in Nat
        BY <1>0, FilDataAssumption DEF ShapeOK
      <4>2. n * (Nchans * Nifs) = n * Nchans * Nifs
        BY <1>5, <4>1
      <4> QED BY <1>5, <3>1, <4>2
    <3>6. n * N \in Nat
      BY <1>5, <3>1, ProductNat
    <3>7. l \in 0 .. (Nsamples \div nd) * Nchans * Nifs - 1
      BY <3>3, <3>4, <3>5, <3>6
    <3> QED BY <1>1, <3>3, <3>7
  <2> DEFINE e == Sum(Summed(Elem(i, j, k), nd))
  <2>4. /\ IsFiniteSet(e.src)
        /\ \A q : q \in e.src <=> \E t \in 0 .. nd - 1 : q \in Values(i * nd + t, {j}, k)
        /\ e.loss = Cardinality(e.src \cap file.high)
    <3>1. i \in 0 .. (Nsamples \div nd) - 1
      BY <1>5
    <3> QED BY ONLY <1>0, <1>3, <3>1, j \in Channels, k \in Pols, DownCell
  <2> HIDE DEF e
  <2>5. ASSUME NEW q PROVE q \in e.src <=> q \in Values(i, {j}, k)'
    <3>1. q \in e.src <=> \E w \in 0 .. given.factor * nd - 1, p \in given.pols[k] :
                            q = PositionOf(given.first + (given.factor * nd) * i + w, j, p)
      <4>1. (\E t \in 0 .. nd - 1 : q \in Values(i * nd + t, {j}, k))
              <=> \E w \in 0 .. given.factor * nd - 1, p \in given.pols[k] :
                    q = PositionOf(given.first + (given.factor * nd) * i + w, j, p)
        <5>1. Together(nd, i, j, k, q)
          BY ONLY <1>0, <2>2, ValuesTogether
        <5> QED BY ONLY <5>1 DEF Together
      <4> QED BY ONLY <2>4, <4>1
    <3>2. \A a, b, c : PositionOf(a, b, c)' = PositionOf(a, b, c)
      BY <1>1 DEF PositionOf
    <3>3. q \in Values(i, {j}, k)' <=>
            \E w \in 0 .. given'.factor - 1, p \in given'.pols[k] :
              q = PositionOf(given'.first + given'.factor * i + w, j, p)
      BY ONLY <3>2 DEF Values
    <3> QED BY ONLY <1>2, <3>1, <3>3
  <2>6. e.src = Values(i, {j}, k)'
    BY ONLY <2>5
  <2>7. file' = file /\ pData'[Elem(i, j, k)'] = e
    BY <1>1, <2>1, <2>3 DEF e
  <2> QED BY ONLY <2>4, <2>6, <2>7 DEF ElemOK
<1>9. CellsRight'
  <2>1. Pols' = Pols /\ Nsamples' = n
    BY <1>1, <1>5 DEF Pols
  <2> QED BY <1>8, <2>1 DEF CellsRight
<1> QED BY <1>1, <1>3, <1>6, <1>7, <1>9

-----------------------------------------------------------------------------
(* Adding up polarisations.                                                *)
Adds(i, j, poli) ==
  \A l : l \in Stripped(i * Nchans + j, poli, file.order) <=> \E k \in poli : l = Elem(i, j, k)

LEMMA StrippedIs ==
  ASSUME ShapeOK, NEW i \in Nat, NEW j \in Channels, NEW poli \in SUBSET Pols
  PROVE  Adds(i, j, poli)
<1>1. Nchans \in Nat \ {0} /\ Nifs \in Nat \ {0} /\ j \in 0 .. Nchans - 1 /\ i \in Int
  BY FilDataAssumption DEF ShapeOK, Channels
<1>2. PICK l : l = i * Nchans + j /\ l \div Nchans = i /\ l % Nchans = j
  <2>1. (i * Nchans + j) \div Nchans = i /\ (i * Nchans + j) % Nchans = j
    BY ONLY <1>1, ModOfMultiple
  <2> QED BY <2>1
<1>3. CASE file.order = "chan_if"
  <2>1. Stripped(l, poli, file.order) = {i * Nchans * Nifs + j * Nifs + k : k \in poli}
    BY <1>2, <1>3 DEF Stripped
  <2>2. \A k : Elem(i, j, k) = i * Nchans * Nifs + j * Nifs + k
    BY <1>3 DEF Elem, Number
  <2> QED BY <1>2, <2>1, <2>2 DEF Adds
<1>4. CASE file.order # "chan_if"
  <2>1. Stripped(l, poli, file.order) = {i * Nchans * Nifs + k * Nchans + j : k \in poli}
    BY <1>2, <1>4 DEF Stripped
  <2>2. \A k : Elem(i, j, k) = i * Nifs * Nchans + k * Nchans + j
    BY <1>4 DEF Elem, Number
  <2>3. i * Nifs * Nchans = i * Nchans * Nifs
    BY <1>1
  <2> QED BY <1>2, <2>1, <2>2, <2>3 DEF Adds
<1> QED BY <1>3, <1>4

LEMMA StripCell ==
  ASSUME ShapeOK, given \in Givens, PolsOK, CellsRight, NEW poli \in SUBSET Pols,
         NEW i \in 0 .. Nsamples - 1, NEW j \in Channels
  PROVE  LET e == Sum(Stripped(i * Nchans + j, poli, file.order))
         IN  /\ IsFiniteSet(e.src)
             /\ \A q : q \in e.src <=> \E k \in poli : q \in Values(i, {j}, k)
             /\ e.loss = Cardinality(e.src \cap file.high)
<1>1. i \in Nat
  BY DEF ShapeOK
<1>2. PICK S : /\ S = Stripped(i * Nchans + j, poli, file.order)
               /\ \A l : l \in S <=> \E k \in poli : l = Elem(i, j, k)
  <2>1. Adds(i, j, poli)
    BY <1>1, StrippedIs
  <2> QED BY ONLY <2>1 DEF Adds
<1>3. ASSUME NEW k \in poli
      PROVE  /\ Elem(i, j, k) \in 0 .. Size - 1 /\ Row(Elem(i, j, k)) = i
             /\ Channel(Elem(i, j, k)) = j /\ Pol(Elem(i, j, k)) = k
  BY <1>1, ElemIn, ElemIs
<1>4. S \in SUBSET (0 .. Size - 1) /\ \A l \in S : Channel(l) = j
  <2>1. ASSUME NEW l \in S PROVE l \in 0 .. Size - 1 /\ Channel(l) = j
    <3>1. PICK k \in poli : l = Elem(i, j, k)
      BY <1>2
    <3> QED BY ONLY <1>3, <3>1
  <2> QED BY ONLY <2>1
<1>5. /\ IsFiniteSet(Sum(S).src)
      /\ Sum(S).src = UNION {Values(Row(l), {j}, Pol(l)) : l \in S}
      /\ Sum(S).loss = Cardinality(Sum(S).src \cap file.high)
  BY <1>4, SumRight
<1>6. ASSUME NEW q
      PROVE  q \in Sum(S).src <=> \E k \in poli : q \in Values(i, {j}, k)
  <2>1. q \in Sum(S).src <=> \E l \in S : q \in Values(Row(l), {j}, Pol(l))
    BY ONLY <1>5
  <2>2. ASSUME NEW l \in S, q \in Values(Row(l), {j}, Pol(l))
        PROVE  \E k \in poli : q \in Values(i, {j}, k)
    <3>1. PICK k \in poli : l = Elem(i, j, k)
      BY <1>2
    <3> QED BY <1>3, <2>2, <3>1
  <2>3. ASSUME NEW k \in poli, q \in Values(i, {j}, k)
        PROVE  \E l \in S : q \in Values(Row(l), {j}, Pol(l))
    <3>1. PICK l \in S : l = Elem(i, j, k)
      BY <1>2
    <3> QED BY <1>3, <2>3, <3>1
  <2> QED BY ONLY <2>1, <2>2, <2>3
<1> QED BY ONLY <1>2, <1>5, <1>6

LEMMA DataStrip ==
  ASSUME TypeInv, DataInv, outcome = "ok", NEW call, call # "ok", NEW poli,
         Strip(call, poli, file.order), outcome' = "ok"
  PROVE  DataInv'
<1> SUFFICES ASSUME Known'
             PROVE  Nbits' = file'.nbits /\ Nbits' # 16 /\ PolsOK' /\ TimesOK' /\ CellsRight'
  BY DEF DataInv
<1>0. given \in Givens /\ ShapeOK /\ Nchans \in Nat \ {0} /\ Nsamples \in Nat
  BY FilDataAssumption DEF TypeInv, RestOK, ShapeOK
<1> DEFINE merged == [k \in {0} |-> UNION {given.pols[p] : p \in poli \cap DOMAIN given.pols}]
<1>1. /\ pData' = [l \in 0 .. Nsamples * Nchans - 1 |-> Sum(Stripped(l, poli, file.order))]
      /\ Nifs' = 1 /\ UNCHANGED <<Nsamples, Tsamp, file, Nbits>>
      /\ given' = [given EXCEPT !.pols = merged]
      /\ poli \in SUBSET Pols
  BY DEF Strip, OnData, Undefined, file_vars, Pols
<1> HIDE DEF merged
<1>2. /\ given'.fresh = given.fresh /\ given'.layout = given.layout
      /\ given'.first = given.first /\ given'.count = given.count
      /\ given'.factor = given.factor /\ given'.tsamp = given.tsamp
      /\ given'.pols = merged
  <2>1. LET g == [given EXCEPT !.pols = merged]
        IN  g = [fresh |-> given.fresh, asked |-> given.asked, counts |-> given.counts,
                 layout |-> given.layout, first |-> given.first, count |-> given.count,
                 factor |-> given.factor, tsamp |-> given.tsamp, pols |-> merged,
                 onepol |-> given.onepol]
    BY ONLY <1>0, GivenFields
  <2> QED BY ONLY <1>1, <2>1
<1>3. Nbits = file.nbits /\ Nbits # 16 /\ PolsOK /\ TimesOK /\ CellsRight
  BY <1>2 DEF DataInv, Known
<1>4. /\ DOMAIN merged = {0}
      /\ \A p : p \in merged[0] <=> \E k \in poli : p \in given.pols[k]
  BY <1>1, <1>3 DEF merged, PolsOK
<1>5. Pols' = {0}
  BY <1>1 DEF Pols
<1>6. PolsOK'
  <2>1. ASSUME NEW p \in merged[0] PROVE p \in 0 .. file.nifs - 1
    BY <1>1, <1>3, <1>4 DEF PolsOK
  <2> QED BY <1>1, <1>2, <1>4, <1>5, <2>1 DEF PolsOK
<1>7. TimesOK'
  BY <1>1, <1>2, <1>3 DEF TimesOK
<1>8. ASSUME NEW i \in 0 .. Nsamples - 1, NEW j \in Channels
      PROVE  ElemOK(pData[Elem(i, j, 0)], i, j, 0)'
  <2>1. i \in Nat /\ i < Nsamples /\ j \in 0 .. Nchans - 1 /\ j \in Nat
    BY <1>0 DEF Channels
  <2>2. PICK l : l = i * Nchans + j /\ l \in 0 .. Nsamples * Nchans - 1
    <3>1. i * Nchans \in Nat /\ Nsamples * Nchans \in Nat
      BY <1>0, <2>1, ProductNat
    <3>2. i * Nchans + j < Nsamples * Nchans
      BY ONLY <1>0, <2>1, FirstDigit
    <3> QED BY <2>1, <3>1, <3>2
  <2>3. Elem(i, j, 0)' = l
    <3>1. Elem(i, j, 0)' = IF file.order = "chan_if" THEN i * Nchans * 1 + j * 1 + 0
                           ELSE i * 1 * Nchans + 0 * Nchans + j
      BY <1>1 DEF Elem, Number
    <3> QED BY <1>0, <2>1, <2>2, <3>1
  <2>4. pData'[l] = Sum(Stripped(l, poli, file.order))
    BY <1>1, <2>2
  <2> DEFINE e == Sum(Stripped(l, poli, file.order))
  <2>5. /\ IsFiniteSet(e.src)
        /\ \A q : q \in e.src <=> \E k \in poli : q \in Values(i, {j}, k)
        /\ e.loss = Cardinality(e.src \cap file.high)
    BY ONLY <1>0, <1>1, <1>3, <2>2, i \in 0 .. Nsamples - 1, j \in Channels, StripCell
  <2> HIDE DEF e
  <2>6. ASSUME NEW q PROVE q \in e.src <=> q \in Values(i, {j}, 0)'
    <3>1. \A a, b, c : PositionOf(a, b, c)' = PositionOf(a, b, c)
      BY <1>1 DEF PositionOf
    <3>2. q \in Values(i, {j}, 0)' <=>
            \E w \in 0 .. given'.factor - 1, p \in given'.pols[0] :
              q = PositionOf(given'.first + given'.factor * i + w, j, p)
      BY ONLY <3>1 DEF Values
    <3>3. q \in Values(i, {j}, 0)' <=>
            \E w \in 0 .. given.factor - 1, p \in merged[0] :
              q = PositionOf(given.first + given.factor * i + w, j, p)
      BY ONLY <1>2, <3>2
    <3>4. \A k : q \in Values(i, {j}, k) <=>
            \E w \in 0 .. given.factor - 1, p \in given.pols[k] :
              q = PositionOf(given.first + given.factor * i + w, j, p)
      BY DEF Values
    <3> QED BY ONLY <1>4, <2>5, <3>3, <3>4
  <2>7. e.src = Values(i, {j}, 0)'
    BY ONLY <2>6
  <2>8. file' = file /\ pData'[Elem(i, j, 0)'] = e
    BY <1>1, <2>3, <2>4 DEF e
  <2> QED BY ONLY <2>5, <2>7, <2>8 DEF ElemOK
<1>9. CellsRight'
  BY <1>1, <1>5, <1>8 DEF CellsRight
<1> QED BY <1>1, <1>3, <1>6, <1>7, <1>9

-----------------------------------------------------------------------------
(* Calls that leave the sums as they are.                                  *)
LEMMA CellInside ==
  ASSUME TypeInv, FreshFits, given.fresh, Nbits # 16
  PROVE  0 .. Size - 1 \subseteq DOMAIN pData
<1>1. PICK n \in Nat : DOMAIN pData = 0 .. n - 1
  BY DEF TypeInv, ArrayOK
<1>2. Length = n
  BY <1>1, ArrayLength
<1>3. Size \in Nat /\ Size <= n
  BY <1>2, Shape DEF TypeInv, FreshFits
<1> QED BY <1>1, <1>3

LEMMA DataKept ==
  ASSUME TypeInv, FreshFits, DataInv, outcome = "ok",
         UNCHANGED <<file, Nifs, Nbits, Nsamples, Tsamp>>,
         given'.fresh = given.fresh, given'.layout = given.layout,
         given'.first = given.first, given'.count = given.count,
         given'.factor = given.factor, given'.tsamp = given.tsamp, given'.pols = given.pols,
         \A l \in DOMAIN pData : pData'[l].src = pData[l].src /\ pData'[l].loss = pData[l].loss
  PROVE  DataInv'
<1> SUFFICES ASSUME Known'
             PROVE  Nbits' = file'.nbits /\ Nbits' # 16 /\ PolsOK' /\ TimesOK' /\ CellsRight'
  BY DEF DataInv
<1>1. Nbits = file.nbits /\ Nbits # 16 /\ PolsOK /\ TimesOK /\ CellsRight /\ given.fresh
  BY DEF DataInv, Known
<1>2. PolsOK' /\ TimesOK'
  BY <1>1 DEF PolsOK, TimesOK, Pols
<1>3. ASSUME NEW i \in 0 .. Nsamples - 1, NEW j \in Channels, NEW k \in Pols
      PROVE  ElemOK(pData[Elem(i, j, k)], i, j, k)'
  <2>1. PICK l : l = Elem(i, j, k) /\ l \in DOMAIN pData
    BY <1>1, CellInside, ElemIn DEF TypeInv
  <2>2. Elem(i, j, k)' = l
    BY <2>1 DEF Elem
  <2>3. Values(i, {j}, k)' = Values(i, {j}, k)
    BY DEF Values, PositionOf
  <2>4. ElemOK(pData[l], i, j, k)
    BY <1>1, <2>1 DEF CellsRight
  <2> QED BY <2>1, <2>2, <2>3, <2>4 DEF ElemOK
<1>4. CellsRight'
  <2>1. Pols' = Pols
    BY DEF Pols
  <2> QED BY <1>3, <2>1 DEF CellsRight
<1> QED BY <1>1, <1>2, <1>4

LEMMA BasesAdded ==
  ASSUME TypeInv, NEW B, NEW m \in Int,
         pData' = [l \in DOMAIN pData |->
           IF l < m THEN [pData[l] EXCEPT !.base = @ \cup B[l]] ELSE pData[l]],
         NEW l \in DOMAIN pData
  PROVE  /\ pData'[l].src = pData[l].src /\ pData'[l].loss = pData[l].loss
         /\ pData'[l].base = IF l < m THEN pData[l].base \cup B[l] ELSE pData[l].base
<1>1. IsElem(pData[l])
  BY DEF TypeInv, ArrayOK
<1>2. [pData[l] EXCEPT !.base = @ \cup B[l]]
        = [src |-> pData[l].src, base |-> pData[l].base \cup B[l], loss |-> pData[l].loss]
  BY <1>1, BaseAdded
<1>3. CASE l < m
  <2>1. pData'[l] = [pData[l] EXCEPT !.base = @ \cup B[l]]
    BY <1>3
  <2> QED BY <1>2, <1>3, <2>1
<1>4. CASE ~(l < m)
  BY <1>4
<1> QED BY <1>3, <1>4

(* How far each of the subtractions goes, and what it subtracts.           *)
MeansOf(call, l) ==
  IF call \in {"dot", "mean"} THEN Sum(Subtracted(l, call)).src ELSE Sum(Column(l)).src
GoesTo(call) == IF call \in {"dot", "mean"} THEN Size ELSE Nsamples * Nchans
KeepsPol(call) ==
  IF call \in {"dot", "mean"} THEN Nifs = 1 \/ file.order = "chan_if" ELSE Nifs = 1

LEMMA SubtractsIs ==
  ASSUME TypeInv, Subtracts, outcome' = "ok"
  PROVE  \E call \in {"dot", "mean", "RemoveBaseline", "Equalize"} :
           /\ UNCHANGED <<file, Nifs, Nbits, Nsamples, Tsamp>>
           /\ given' = [given EXCEPT !.onepol = given.onepol /\ KeepsPol(call)]
           /\ DOMAIN pData' = DOMAIN pData
           /\ \A l \in DOMAIN pData :
                /\ pData'[l].src = pData[l].src /\ pData'[l].loss = pData[l].loss
                /\ pData'[l].base = IF l < GoesTo(call) THEN pData[l].base \cup MeansOf(call, l)
                                    ELSE pData[l].base
<1>0. Size \in Int /\ Nsamples * Nchans \in Int
  BY FilDataAssumption, Shape DEF TypeInv, ShapeOK
<1>1. ASSUME NEW call \in {"dot", "mean", "RemoveBaseline", "Equalize"},
             pData' = [l \in DOMAIN pData |->
               IF l < GoesTo(call) THEN [pData[l] EXCEPT !.base = @ \cup MeansOf(call, l)]
               ELSE pData[l]]
      PROVE  /\ DOMAIN pData' = DOMAIN pData
             /\ \A l \in DOMAIN pData :
                  /\ pData'[l].src = pData[l].src /\ pData'[l].loss = pData[l].loss
                  /\ pData'[l].base = IF l < GoesTo(call) THEN pData[l].base \cup MeansOf(call, l)
                                      ELSE pData[l].base
  <2> DEFINE B == [l \in DOMAIN pData |-> MeansOf(call, l)]
             m == GoesTo(call)
  <2>1. pData' = [l \in DOMAIN pData |->
                    IF l < m THEN [pData[l] EXCEPT !.base = @ \cup B[l]] ELSE pData[l]]
    BY <1>1
  <2>2. m \in Int
    BY <1>0 DEF GoesTo
  <2>3. \A l \in DOMAIN pData : B[l] = MeansOf(call, l)
    OBVIOUS
  <2>4. DOMAIN pData' = DOMAIN pData
    BY <1>1
  <2> HIDE DEF B, m
  <2>5. ASSUME NEW l \in DOMAIN pData
        PROVE  /\ pData'[l].src = pData[l].src /\ pData'[l].loss = pData[l].loss
               /\ pData'[l].base = IF l < m THEN pData[l].base \cup B[l] ELSE pData[l].base
    BY <2>1, <2>2, BasesAdded
  <2> QED BY <2>3, <2>4, <2>5 DEF m
<1>2. ASSUME NEW method \in {"dot", "mean"}, ZeroDM(method)
      PROVE  /\ UNCHANGED <<file, Nifs, Nbits, Nsamples, Tsamp>>
             /\ given' = [given EXCEPT !.onepol = given.onepol /\ KeepsPol(method)]
             /\ pData' = [l \in DOMAIN pData |->
                  IF l < GoesTo(method) THEN [pData[l] EXCEPT !.base = @ \cup MeansOf(method, l)]
                  ELSE pData[l]]
  BY <1>2 DEF ZeroDM, OnData, Undefined, file_vars, UNCHANGED_SHAPE, KeepsPol, GoesTo, MeansOf
<1>3. ASSUME NEW call \in {"RemoveBaseline", "Equalize"}, SubtractMeans(call)
      PROVE  /\ UNCHANGED <<file, Nifs, Nbits, Nsamples, Tsamp>>
             /\ given' = [given EXCEPT !.onepol = given.onepol /\ KeepsPol(call)]
             /\ pData' = [l \in DOMAIN pData |->
                  IF l < GoesTo(call) THEN [pData[l] EXCEPT !.base = @ \cup MeansOf(call, l)]
                  ELSE pData[l]]
  BY <1>3 DEF SubtractMeans, OnData, Undefined, file_vars, UNCHANGED_SHAPE, KeepsPol, GoesTo, MeansOf
<1> QED BY <1>1, <1>2, <1>3 DEF Subtracts

LEMMA DataSubtracts ==
  ASSUME TypeInv, FreshFits, DataInv, Subtracts, outcome = "ok", outcome' = "ok"
  PROVE  DataInv'
<1>1. PICK g : /\ UNCHANGED <<file, Nifs, Nbits, Nsamples, Tsamp>>
               /\ given' = [given EXCEPT !.onepol = g]
               /\ \A l \in DOMAIN pData :
                    pData'[l].src = pData[l].src /\ pData'[l].loss = pData[l].loss
  BY SubtractsIs
<1>2. given \in Givens
  BY DEF TypeInv, RestOK
<1>3. /\ given'.fresh = given.fresh /\ given'.layout = given.layout
      /\ given'.first = given.first /\ given'.count = given.count
      /\ given'.factor = given.factor /\ given'.tsamp = given.tsamp /\ given'.pols = given.pols
  BY <1>1, <1>2, GivenFields
<1> QED BY <1>1, <1>3, DataKept

LEMMA DataInvStep ==
  ASSUME TypeInv, FreshFits, DataInv, [DataNext]_data_vars
  PROVE  DataInv'
<1> SUFFICES ASSUME outcome' = "ok", given'.fresh PROVE DataInv'
  BY DEF DataInv, Known
<1>1. /\ outcome = "ok" /\ UNCHANGED file
      /\ Reads \/ (\E nd \in 2 .. 3 : DownSample(nd)) \/ Merges \/ Subtracts \/ Looks
  BY FreshStep
<1>2. ASSUME NEW startp \in 0 .. 1, NEW endp \in 1 .. 2, ReadInData(startp, endp) PROVE DataInv'
  <2> DEFINE start == (startp * Nsamples) \div 2
             end == (endp * Nsamples) \div 2
  <2>1. PICK asked, counts : readdata("ReadInData", Offset(start), end - start, asked, counts)
    BY <1>2 DEF ReadInData
  <2>2. start \in Nat /\ end \in Nat /\ Offset(start) \in Nat /\ Offset(start) % 8 = 0
    BY DataSeek
  <2> HIDE DEF start, end
  <2>3. PICK ns \in Int : readdata("ReadInData", Offset(start), ns, asked, counts)
    BY <2>1, <2>2
  <2> QED BY <2>2, <2>3, DataRead
<1>3. ASSUME NEW start \in 0 .. 2, NEW e \in {-1, 1, 2}, ReadInDatabySample(start, e)
      PROVE  DataInv'
  <2> DEFINE end == IF e < 0 THEN Nsamples ELSE e
             p == position + Offset(start)
  <2>1. PICK asked, counts : readdata("ReadInDatabySample", p, end - start, asked, counts)
    BY <1>3 DEF ReadInDatabySample
  <2>2. p \in Nat /\ p % 8 = 0 /\ end \in Nat
    BY SampleSeek
  <2> HIDE DEF end, p
  <2>3. PICK ns \in Int : readdata("ReadInDatabySample", p, ns, asked, counts)
    BY <2>1, <2>2
  <2> QED BY <2>2, <2>3, DataRead
<1>4. ASSUME Merges PROVE DataInv'
  <2>1. PICK call, poli :
             call \in {"Strip2OnePol", "Strip2OnePol_STD"} /\ Strip(call, poli, file.order)
    BY <1>4 DEF Merges, Strip2OnePol, Strip2OnePol_STD
  <2> QED BY <1>1, <2>1, DataStrip
<1>5. ASSUME Looks PROVE DataInv'
  BY <1>1, <1>5, DataKept DEF Looks, header_vars
<1> QED BY <1>1, <1>2, <1>3, <1>4, <1>5, DataDownSample, DataSubtracts DEF Reads

LEMMA DataInvAlways == DataSpec => []DataInv
<1>1. DataInit => DataInv
  BY DEF DataInit, DataInv, Known
<1> QED BY <1>1, TypeInvAlways, FitsAlways, DataInvStep, PTL DEF DataSpec

(* Whatever calls follow a reading, every element is the sum of its        *)
(* samples and polarisations, with 256 missing for each byte over 127, and *)
(* the number and the length of the samples go with them                   *)
(* (filterbank.cpp:484-546, 898-931, 1451-1512).                           *)
THEOREM DataAreTheFile == DataSpec => []DataRight
<1>1. TypeInv /\ FreshFits /\ DataInv => DataRight
  BY DataRightFrom
<1> QED BY <1>1, TypeInvAlways, FitsAlways, DataInvAlways, PTL

-----------------------------------------------------------------------------
(* The means that were subtracted: the second inductive invariant.         *)
BasesRight ==
  \A i \in 0 .. Nsamples - 1, j \in Channels, k \in Pols :
    \A q \in pData[Elem(i, j, k)].base : PolOf(q) \in given.pols[k]

MeansInv == Known /\ given.onepol => BasesRight

LEMMA MeansRightFrom ==
  ASSUME TypeInv, MeansInv
  PROVE  MeansOfOwnPol
<1> SUFFICES ASSUME Known, given.onepol, NEW l \in 0 .. Size - 1, NEW q \in pData[l].base
             PROVE  PolOf(q) \in given.pols[Pol(l)]
  BY DEF MeansOfOwnPol
<1>1. PICK i \in 0 .. Nsamples - 1, j \in Channels, k \in Pols : l = Elem(i, j, k)
  BY ElemFor DEF TypeInv
<1>2. Pol(l) = k
  BY <1>1, ElemIn, ElemIs DEF TypeInv
<1> QED BY <1>1, <1>2 DEF MeansInv, BasesRight

LEMMA ElemBelow ==
  ASSUME ShapeOK, NEW n \in Nat, NEW i \in 0 .. n - 1, NEW j \in Channels, NEW k \in Pols
  PROVE  i \in Nat /\ Elem(i, j, k) \in 0 .. n * (Nchans * Nifs) - 1
<1>1. i \in Nat /\ i < n
  OBVIOUS
<1>2. PICK N : N = Nchans * Nifs /\ N \in Nat \ {0}
  BY Shape
<1>3. PICK c : c = Low(j, k) /\ c \in 0 .. N - 1
  BY <1>1, <1>2, ElemIs
<1>4. PICK l : l = Elem(i, j, k) /\ l \in Nat /\ l = i * N + c
  BY <1>1, <1>2, <1>3, ElemIs
<1>5. l < n * N
  BY ONLY <1>1, <1>2, <1>3, <1>4, n \in Nat, FirstDigit
<1>6. n * N \in Nat
  BY <1>2, ProductNat
<1> QED BY <1>1, <1>2, <1>4, <1>5, <1>6

LEMMA MeansRead ==
  ASSUME TypeInv, NEW call \in {"ReadInData", "ReadInDatabySample"},
         NEW p \in Nat, p % 8 = 0, NEW ns \in Int, NEW asked, NEW counts,
         readdata(call, p, ns, asked, counts), outcome' = "ok"
  PROVE  MeansInv'
<1>1. given' = [fresh |-> TRUE, asked |-> asked, counts |-> counts,
                layout |-> Nifs = file.nifs /\ Nbits = file.nbits /\ Nbits # 16
                             /\ p % (Nchans * Nifs * Nbits) = 0,
                first |-> p \div (Nchans * Nifs * Nbits), count |-> Nsamples',
                factor |-> 1, tsamp |-> Tsamp,
                pols |-> [k \in 0 .. Nifs - 1 |-> {k}], onepol |-> TRUE]
  BY ReadRest
<1> SUFFICES ASSUME given'.layout, NEW i \in 0 .. Nsamples' - 1, NEW j \in Channels, NEW k \in Pols'
             PROVE  pData'[Elem(i, j, k)'].base = {}
  BY DEF MeansInv, BasesRight, Known
<1>2. Nbits # 16
  BY <1>1
<1>3. UNCHANGED <<file, Nifs, Nbits>>
  BY ReadRest DEF header_vars
<1>4. PICK n : n = Nsamples' /\ n \in Nat /\ n * (Nchans * Nifs) <= Cells(p, ns) /\ Cells(p, ns) \in Nat
  <2>1. Nsamples' \in Nat /\ Size' = Nsamples' * (Nchans * Nifs) /\ Size' <= Length' /\ Length' = Cells(p, ns)
    BY <1>2, FitsAfterRead
  <2>2. Cells(p, ns) \in Nat
    BY <1>2, ReadShape, ReadSamples DEF TypeInv
  <2> QED BY <2>1, <2>2
<1>5. Elem(i, j, k)' = Elem(i, j, k) /\ k \in Pols
  BY <1>3 DEF Elem, Pols
<1>6. PICK l : l = Elem(i, j, k) /\ l \in 0 .. n * (Nchans * Nifs) - 1
  BY <1>4, <1>5, ElemBelow DEF TypeInv
<1>7. l \in 0 .. Cells(p, ns) - 1
  <2>1. n * (Nchans * Nifs) \in Nat
    BY <1>4, Shape, ProductNat DEF TypeInv
  <2> QED BY <1>4, <1>6, <2>1
<1>8. pData' = [x \in 0 .. Cells(p, ns) - 1 |-> Cell(p, ns, x)]
  BY <1>2, ReadSamples
<1>9. Cell(p, ns, l).base = {}
  BY DEF Cell, Zero
<1> QED BY <1>5, <1>6, <1>7, <1>8, <1>9

LEMMA MeansDownSample ==
  ASSUME TypeInv, MeansInv, outcome = "ok", NEW nd \in 2 .. 3, DownSample(nd), outcome' = "ok"
  PROVE  MeansInv'
<1>0. given \in Givens /\ ShapeOK /\ nd \in Nat \ {0} /\ Nsamples \in Nat
  BY DEF TypeInv, RestOK, ShapeOK
<1>1. /\ pData' = [l \in 0 .. (Nsamples \div nd) * Nchans * Nifs - 1 |-> Sum(Summed(l, nd))]
      /\ Nsamples' = Nsamples \div nd
      /\ given' = [given EXCEPT !.factor = given.factor * nd]
      /\ UNCHANGED <<file, Nifs, Nbits>>
  BY DEF DownSample, OnData, Undefined, file_vars
<1>2. /\ given'.fresh = given.fresh /\ given'.layout = given.layout
      /\ given'.pols = given.pols /\ given'.onepol = given.onepol
  <2>1. LET g == [given EXCEPT !.factor = given.factor * nd]
        IN  g = [fresh |-> given.fresh, asked |-> given.asked, counts |-> given.counts,
                 layout |-> given.layout, first |-> given.first, count |-> given.count,
                 factor |-> given.factor * nd, tsamp |-> given.tsamp, pols |-> given.pols,
                 onepol |-> given.onepol]
    BY ONLY <1>0, GivenFields
  <2> QED BY ONLY <1>1, <2>1
<1> SUFFICES ASSUME BasesRight, NEW i \in 0 .. Nsamples' - 1, NEW j \in Channels, NEW k \in Pols',
                    NEW q \in pData'[Elem(i, j, k)'].base
             PROVE  PolOf(q)' \in given.pols[k]
  BY <1>2 DEF MeansInv, BasesRight, Known
<1>3. PICK n : n = Nsamples \div nd /\ n \in Nat /\ i \in 0 .. n - 1
  BY <1>0, <1>1, DivNat
<1>4. Elem(i, j, k)' = Elem(i, j, k) /\ k \in Pols
  BY <1>1 DEF Elem, Pols
<1>5. PICK l : l = Elem(i, j, k) /\ l \in 0 .. n * (Nchans * Nifs) - 1
  BY <1>0, <1>3, <1>4, ElemBelow
<1>6. n * (Nchans * Nifs) = (Nsamples \div nd) * Nchans * Nifs
  <2>1. Nchans \in Nat /\ Nifs \in Nat
    BY <1>0, FilDataAssumption DEF ShapeOK
  <2>2. n * (Nchans * Nifs) = n * Nchans * Nifs
    BY <1>3, <2>1
  <2> QED BY <1>3, <2>2
<1>7. pData'[l] = Sum(Summed(l, nd))
  BY <1>1, <1>5, <1>6
<1>8. PICK m \in Summed(l, nd) : q \in pData[m].base
  BY <1>4, <1>5, <1>7 DEF Sum
<1>9. PICK t \in 0 .. nd - 1 : m = Elem(i * nd + t, j, k)
  <2>1. Takes(i, j, k, nd)
    BY <1>0, <1>3, <1>4, SummedIs
  <2> QED BY ONLY <1>5, <1>8, <2>1 DEF Takes
<1>10. PICK s : s = i * nd + t /\ s \in 0 .. Nsamples - 1
  <2>1. i * nd + t < n * nd /\ i * nd + t \in Nat
    BY ONLY <1>0, <1>3, FirstDigit, ProductNat, t \in 0 .. nd - 1
  <2>2. n * nd <= Nsamples /\ n * nd \in Nat
    BY <1>0, <1>3, DivMod, ProductNat
  <2> QED BY <1>0, <2>1, <2>2
<1>11. PolOf(q) \in given.pols[k]
  BY <1>4, <1>8, <1>9, <1>10 DEF BasesRight
<1> QED BY <1>1, <1>11 DEF PolOf

LEMMA MeansStrip ==
  ASSUME TypeInv, DataInv, MeansInv, outcome = "ok", NEW call, call # "ok", NEW poli,
         Strip(call, poli, file.order), outcome' = "ok"
  PROVE  MeansInv'
<1>0. given \in Givens /\ ShapeOK /\ Nchans \in Nat \ {0} /\ Nsamples \in Nat
  BY FilDataAssumption DEF TypeInv, RestOK, ShapeOK
<1> DEFINE merged == [k \in {0} |-> UNION {given.pols[p] : p \in poli \cap DOMAIN given.pols}]
<1>1. /\ pData' = [l \in 0 .. Nsamples * Nchans - 1 |-> Sum(Stripped(l, poli, file.order))]
      /\ Nifs' = 1 /\ UNCHANGED <<Nsamples, file, Nbits>>
      /\ given' = [given EXCEPT !.pols = merged]
      /\ poli \in SUBSET Pols
  BY DEF Strip, OnData, Undefined, file_vars, Pols
<1> HIDE DEF merged
<1>2. /\ given'.fresh = given.fresh /\ given'.layout = given.layout
      /\ given'.onepol = given.onepol /\ given'.pols = merged
  <2>1. LET g == [given EXCEPT !.pols = merged]
        IN  g = [fresh |-> given.fresh, asked |-> given.asked, counts |-> given.counts,
                 layout |-> given.layout, first |-> given.first, count |-> given.count,
                 factor |-> given.factor, tsamp |-> given.tsamp, pols |-> merged,
                 onepol |-> given.onepol]
    BY ONLY <1>0, GivenFields
  <2> QED BY ONLY <1>1, <2>1
<1> SUFFICES ASSUME PolsOK, BasesRight,
                    NEW i \in 0 .. Nsamples' - 1, NEW j \in Channels, NEW k \in Pols',
                    NEW q \in pData'[Elem(i, j, k)'].base
             PROVE  PolOf(q)' \in merged[k]
  BY <1>2 DEF MeansInv, BasesRight, DataInv, Known
<1>3. k = 0 /\ i \in 0 .. Nsamples - 1
  BY <1>1 DEF Pols
<1>4. \A p \in poli : given.pols[p] \subseteq merged[0]
  BY <1>1 DEF merged, PolsOK
<1>5. i \in Nat /\ i < Nsamples /\ j \in 0 .. Nchans - 1 /\ j \in Nat
  BY <1>0, <1>3 DEF Channels
<1>6. PICK l : l = i * Nchans + j /\ l \in 0 .. Nsamples * Nchans - 1
  <2>1. i * Nchans \in Nat /\ Nsamples * Nchans \in Nat
    BY <1>0, <1>5, ProductNat
  <2>2. i * Nchans + j < Nsamples * Nchans
    BY ONLY <1>0, <1>5, FirstDigit
  <2> QED BY <1>5, <2>1, <2>2
<1>7. Elem(i, j, k)' = l
  <2>1. Elem(i, j, k)' = IF file.order = "chan_if" THEN i * Nchans * 1 + j * 1 + 0
                         ELSE i * 1 * Nchans + 0 * Nchans + j
    BY <1>1, <1>3 DEF Elem, Number
  <2> QED BY <1>0, <1>5, <1>6, <2>1
<1>8. pData'[l] = Sum(Stripped(l, poli, file.order))
  BY <1>1, <1>6
<1>9. PICK m \in Stripped(l, poli, file.order) : q \in pData[m].base
  BY <1>7, <1>8 DEF Sum
<1>10. PICK p \in poli : m = Elem(i, j, p)
  <2>1. Adds(i, j, poli)
    BY <1>0, <1>1, <1>5, StrippedIs
  <2> QED BY ONLY <1>6, <1>9, <2>1 DEF Adds
<1>11. PolOf(q) \in given.pols[p]
  BY <1>1, <1>3, <1>9, <1>10 DEF BasesRight
<1> QED BY <1>1, <1>3, <1>4, <1>11 DEF PolOf

(* The series is over all channels of one polarisation, when there is one  *)
(* or it comes last.                                                       *)
Spans(z) == \A l : l \in pZeroDM[z] <=> \E c \in Channels : l = Elem(z \div Nifs, c, z % Nifs)

LEMMA SeriesIs ==
  ASSUME ShapeOK, Nifs = 1 \/ file.order = "chan_if", NEW z \in DOMAIN pZeroDM
  PROVE  z \div Nifs \in 0 .. Nsamples - 1 /\ z % Nifs \in Pols /\ Spans(z)
<1>1. Nifs \in Nat \ {0} /\ Nchans \in Nat \ {0} /\ Nsamples \in Nat
  BY FilDataAssumption DEF ShapeOK
<1>2. z \in 0 .. Nsamples * Nifs - 1 /\ z \in Nat /\ z < Nsamples * Nifs
  <2>1. Nsamples * Nifs \in Nat
    BY <1>1, ProductNat
  <2> QED BY <2>1 DEF pZeroDM
<1>3. PICK i \in Nat, k \in 0 .. Nifs - 1 : z = i * Nifs + k /\ i = z \div Nifs /\ k = z % Nifs
  BY <1>1, <1>2, DigitsOf
<1>4. i < Nsamples
  BY ONLY <1>1, <1>2, <1>3, FirstDigit
<1>5. i \in 0 .. Nsamples - 1 /\ k \in Pols
  BY <1>1, <1>3, <1>4 DEF Pols
<1>6. pZeroDM[z] = {Index(i, j, k) : j \in Channels}
  BY <1>2, <1>3 DEF pZeroDM
<1>7. ASSUME NEW j \in Channels PROVE Index(i, j, k) = Elem(i, j, k)
  <2>1. CASE file.order = "chan_if"
    BY <2>1 DEF Index, Elem, Number
  <2>2. CASE file.order # "chan_if"
    <3>1. Nifs = 1 /\ k = 0 /\ j \in Nat
      BY <1>3, <2>2 DEF Channels
    <3>2. Index(i, j, k) = i * Nchans * 1 + j * 1 + 0
      BY <3>1 DEF Index
    <3>3. Elem(i, j, k) = i * 1 * Nchans + 0 * Nchans + j
      BY <2>2, <3>1 DEF Elem, Number
    <3> QED BY <1>1, <1>3, <3>1, <3>2, <3>3
  <2> QED BY <2>1, <2>2
<1>8. \A l : l \in pZeroDM[z] <=> \E c \in Channels : l = Elem(i, c, k)
  BY ONLY <1>6, <1>7
<1> QED BY <1>3, <1>5, <1>8 DEF Spans

(* The values whose mean is subtracted have the polarisation of the value. *)
LEMMA MeansHome ==
  ASSUME ShapeOK, NEW call \in {"dot", "mean", "RemoveBaseline", "Equalize"}, KeepsPol(call),
         NEW i \in 0 .. Nsamples - 1, NEW j \in Channels, NEW k \in Pols,
         NEW l, l = Elem(i, j, k),
         NEW m, m \in IF call \in {"dot", "mean"} THEN Subtracted(l, call) ELSE Column(l)
  PROVE  \E a \in 0 .. Nsamples - 1, b \in Channels : m = Elem(a, b, k)
<1>1. /\ Nifs \in Nat \ {0} /\ Nchans \in Nat \ {0} /\ Nsamples \in Nat /\ i \in Nat
      /\ k \in 0 .. Nifs - 1
  BY FilDataAssumption DEF ShapeOK, Pols
<1>2. l \div (Nchans * Nifs) = i /\ Pol(l) = k
  BY <1>1, ElemIs DEF Row
<1>3. l \in Nat
  BY <1>1, ElemIs
<1>4. ASSUME call \in {"dot", "mean"} PROVE \E a \in 0 .. Nsamples - 1, b \in Channels : m = Elem(a, b, k)
  <2>1. Nifs = 1 \/ file.order = "chan_if"
    BY <1>4 DEF KeepsPol
  <2>2. l % Nifs = k
    <3>1. CASE file.order = "chan_if"
      BY <1>2, <3>1 DEF Pol
    <3>2. CASE Nifs = 1
      BY <1>1, <1>3, <3>2
    <3> QED BY <2>1, <3>1, <3>2
  <2>3. \E z \in DOMAIN pZeroDM : m \in pZeroDM[z] /\ z % Nifs = k
    <3>1. CASE call = "dot"
      BY <2>2, <3>1 DEF Subtracted
    <3>2. CASE call # "dot"
      <4>1. m \in pZeroDM[i * Nifs + k]
        BY <1>2, <1>4, <2>2, <3>2 DEF Subtracted
      <4>2. (i * Nifs + k) % Nifs = k
        BY <1>1, ModOfMultiple
      <4>3. i * Nifs + k \in DOMAIN pZeroDM
        <5>1. i < Nsamples
          BY <1>1
        <5>2. i * Nifs + k < Nsamples * Nifs
          BY ONLY <1>1, <5>1, FirstDigit
        <5>3. i * Nifs \in Nat /\ Nsamples * Nifs \in Nat
          BY <1>1, ProductNat
        <5>4. i * Nifs + k \in 0 .. Nsamples * Nifs - 1
          BY <1>1, <5>2, <5>3
        <5> QED BY <5>4 DEF pZeroDM
      <4> QED BY <4>1, <4>2, <4>3
    <3> QED BY <3>1, <3>2
  <2>4. PICK z \in DOMAIN pZeroDM : m \in pZeroDM[z] /\ z % Nifs = k
    BY <2>3
  <2>5. z \div Nifs \in 0 .. Nsamples - 1 /\ Spans(z)
    BY <2>1, SeriesIs
  <2> QED BY <2>4, <2>5 DEF Spans
<1>5. ASSUME call \notin {"dot", "mean"} PROVE \E a \in 0 .. Nsamples - 1, b \in Channels : m = Elem(a, b, k)
  <2>1. Nifs = 1 /\ m \in Column(l)
    BY <1>5 DEF KeepsPol
  <2>2. m \in 0 .. Size - 1
    <3>1. Size = Nsamples * Nchans
      BY <1>1, <2>1 DEF Size
    <3> QED BY <2>1, <3>1 DEF Column
  <2>3. PICK a \in 0 .. Nsamples - 1, b \in Channels, c \in Pols : m = Elem(a, b, c)
    BY <2>2, ElemFor
  <2>4. c = k
    BY <2>1 DEF Pols
  <2> QED BY <2>3, <2>4
<1> QED BY <1>4, <1>5

LEMMA MeansSubtracts ==
  ASSUME TypeInv, FreshFits, DataInv, MeansInv, Subtracts, outcome = "ok", outcome' = "ok"
  PROVE  MeansInv'
<1>1. PICK call \in {"dot", "mean", "RemoveBaseline", "Equalize"} :
        /\ UNCHANGED <<file, Nifs, Nbits, Nsamples, Tsamp>>
        /\ given' = [given EXCEPT !.onepol = given.onepol /\ KeepsPol(call)]
        /\ \A l \in DOMAIN pData :
             pData'[l].base = IF l < GoesTo(call) THEN pData[l].base \cup MeansOf(call, l)
                              ELSE pData[l].base
  BY SubtractsIs
<1>2. given \in Givens /\ ShapeOK
  BY DEF TypeInv, RestOK
<1>3. PICK g : g = (given.onepol /\ KeepsPol(call)) /\ given' = [given EXCEPT !.onepol = g]
  BY <1>1
<1>4. /\ given'.fresh = given.fresh /\ given'.layout = given.layout
      /\ given'.pols = given.pols /\ given'.onepol = g
  <2>1. LET f == [given EXCEPT !.onepol = g]
        IN  f = [fresh |-> given.fresh, asked |-> given.asked, counts |-> given.counts,
                 layout |-> given.layout, first |-> given.first, count |-> given.count,
                 factor |-> given.factor, tsamp |-> given.tsamp, pols |-> given.pols,
                 onepol |-> g]
    BY ONLY <1>2, GivenFields
  <2> QED BY ONLY <1>3, <2>1
<1> SUFFICES ASSUME Known, given.onepol, KeepsPol(call),
                    NEW i \in 0 .. Nsamples - 1, NEW j \in Channels, NEW k \in Pols,
                    NEW q \in pData'[Elem(i, j, k)].base
             PROVE  PolOf(q) \in given.pols[k]
  <2>1. Pols' = Pols /\ (\A q : PolOf(q)' = PolOf(q)) /\ \A i, j, k : Elem(i, j, k)' = Elem(i, j, k)
    BY <1>1 DEF Pols, PolOf, Elem
  <2>2. Known' /\ given'.onepol => Known /\ given.onepol /\ KeepsPol(call)
    BY <1>1, <1>3, <1>4 DEF Known
  <2> QED BY <1>1, <1>4, <2>1, <2>2 DEF MeansInv, BasesRight
<1>5. PolsOK /\ CellsRight /\ BasesRight /\ given.fresh /\ Nbits # 16
  BY DEF DataInv, MeansInv, Known
<1>6. PICK l : l = Elem(i, j, k) /\ l \in DOMAIN pData
  BY <1>2, <1>5, CellInside, ElemIn
<1>7. CASE q \in pData[l].base
  BY <1>5, <1>6, <1>7 DEF BasesRight
<1>8. CASE q \in MeansOf(call, l)
  <2>1. PICK m : /\ m \in IF call \in {"dot", "mean"} THEN Subtracted(l, call) ELSE Column(l)
                 /\ q \in pData[m].src
    BY <1>8 DEF MeansOf, Sum
  <2>2. PICK a \in 0 .. Nsamples - 1, b \in Channels : m = Elem(a, b, k)
    BY <1>2, <1>6, <2>1, MeansHome
  <2>3. q \in Values(a, {b}, k) /\ a \in Nat
    BY <1>2, <1>5, <2>1, <2>2, ElemIn DEF CellsRight, ElemOK
  <2> QED BY <1>2, <1>5, <2>3, ValueHome
<1> QED BY <1>1, <1>6, <1>7, <1>8

LEMMA MeansInvStep ==
  ASSUME TypeInv, FreshFits, DataInv, MeansInv, [DataNext]_data_vars
  PROVE  MeansInv'
<1> SUFFICES ASSUME outcome' = "ok", given'.fresh PROVE MeansInv'
  BY DEF MeansInv, Known
<1>1. /\ outcome = "ok" /\ UNCHANGED file
      /\ Reads \/ (\E nd \in 2 .. 3 : DownSample(nd)) \/ Merges \/ Subtracts \/ Looks
  BY FreshStep
<1>2. ASSUME NEW startp \in 0 .. 1, NEW endp \in 1 .. 2, ReadInData(startp, endp) PROVE MeansInv'
  <2> DEFINE start == (startp * Nsamples) \div 2
             end == (endp * Nsamples) \div 2
  <2>1. PICK asked, counts : readdata("ReadInData", Offset(start), end - start, asked, counts)
    BY <1>2 DEF ReadInData
  <2>2. start \in Nat /\ end \in Nat /\ Offset(start) \in Nat /\ Offset(start) % 8 = 0
    BY DataSeek
  <2> HIDE DEF start, end
  <2>3. PICK ns \in Int : readdata("ReadInData", Offset(start), ns, asked, counts)
    BY <2>1, <2>2
  <2> QED BY <2>2, <2>3, MeansRead
<1>3. ASSUME NEW start \in 0 .. 2, NEW e \in {-1, 1, 2}, ReadInDatabySample(start, e)
      PROVE  MeansInv'
  <2> DEFINE end == IF e < 0 THEN Nsamples ELSE e
             p == position + Offset(start)
  <2>1. PICK asked, counts : readdata("ReadInDatabySample", p, end - start, asked, counts)
    BY <1>3 DEF ReadInDatabySample
  <2>2. p \in Nat /\ p % 8 = 0 /\ end \in Nat
    BY SampleSeek
  <2> HIDE DEF end, p
  <2>3. PICK ns \in Int : readdata("ReadInDatabySample", p, ns, asked, counts)
    BY <2>1, <2>2
  <2> QED BY <2>2, <2>3, MeansRead
<1>4. ASSUME Merges PROVE MeansInv'
  <2>1. PICK call, poli :
             call \in {"Strip2OnePol", "Strip2OnePol_STD"} /\ Strip(call, poli, file.order)
    BY <1>4 DEF Merges, Strip2OnePol, Strip2OnePol_STD
  <2> QED BY <1>1, <2>1, MeansStrip
<1>5. ASSUME Looks, UNCHANGED file PROVE MeansInv'
  <2>1. Pols' = Pols /\ (\A q : PolOf(q)' = PolOf(q)) /\ \A i, j, k : Elem(i, j, k)' = Elem(i, j, k)
    BY <1>5 DEF Pols, PolOf, Elem, Looks, header_vars
  <2>2. UNCHANGED <<Nsamples, pData, given>>
    BY <1>5 DEF Looks
  <2> QED BY <1>1, <2>1, <2>2 DEF MeansInv, BasesRight, Known
<1> QED BY <1>1, <1>2, <1>3, <1>4, <1>5, MeansDownSample, MeansSubtracts DEF Reads

(* A mean subtracted from a value is a mean of its own polarisations       *)
(* (filterbank.cpp:587-716, 1514-1583).                                    *)
THEOREM OwnMeans == DataSpec => []MeansOfOwnPol
<1>1. DataInit => MeansInv
  BY DEF DataInit, MeansInv, Known
<1>2. DataSpec => []MeansInv
  BY <1>1, TypeInvAlways, FitsAlways, DataInvAlways, MeansInvStep, PTL DEF DataSpec
<1>3. TypeInv /\ MeansInv => MeansOfOwnPol
  BY MeansRightFrom
<1> QED BY <1>2, <1>3, TypeInvAlways, PTL

-----------------------------------------------------------------------------
(* The zero DM series: the invariant of what a call has returned.          *)
ZeroInv == result.kind = "zero" => result.series = pZeroDM

LEMMA SeriesSum ==
  ASSUME ShapeOK, CellsRight, Nifs = 1 \/ file.order = "chan_if", NEW z \in DOMAIN pZeroDM
  PROVE  Sum(pZeroDM[z]).src = Values(z \div Nifs, Channels, z % Nifs)
<1>1. z \div Nifs \in 0 .. Nsamples - 1 /\ z % Nifs \in Pols /\ Spans(z)
  BY SeriesIs
<1>2. PICK i, k : /\ i = z \div Nifs /\ k = z % Nifs
                  /\ i \in 0 .. Nsamples - 1 /\ k \in Pols
                  /\ \A l : l \in pZeroDM[z] <=> \E c \in Channels : l = Elem(i, c, k)
  BY <1>1 DEF Spans
<1>3. \A c \in Channels : pData[Elem(i, c, k)].src = Values(i, {c}, k)
  BY <1>2 DEF CellsRight, ElemOK
<1>4. ASSUME NEW q PROVE q \in Sum(pZeroDM[z]).src <=> q \in Values(i, Channels, k)
  <2>1. q \in Sum(pZeroDM[z]).src <=> \E l \in pZeroDM[z] : q \in pData[l].src
    BY DEF Sum
  <2>2. q \in Sum(pZeroDM[z]).src <=> \E c \in Channels : q \in Values(i, {c}, k)
    <3>1. ASSUME NEW l \in pZeroDM[z], q \in pData[l].src
          PROVE  \E c \in Channels : q \in Values(i, {c}, k)
      <4>1. PICK c \in Channels : l = Elem(i, c, k)
        BY <1>2
      <4> QED BY <1>3, <3>1, <4>1
    <3>2. ASSUME NEW c \in Channels, q \in Values(i, {c}, k)
          PROVE  \E l \in pZeroDM[z] : q \in pData[l].src
      <4>1. PICK l \in pZeroDM[z] : l = Elem(i, c, k)
        BY <1>2
      <4> QED BY <1>3, <3>2, <4>1
    <3> QED BY ONLY <2>1, <3>1, <3>2
  <2>3. q \in Values(i, Channels, k) <=> \E c \in Channels : q \in Values(i, {c}, k)
    BY DEF Values
  <2> QED BY <2>2, <2>3
<1>5. Sum(pZeroDM[z]).src = Values(i, Channels, k)
  BY ONLY <1>4
<1> QED BY <1>2, <1>5

LEMMA ZeroStep ==
  ASSUME TypeInv, ZeroInv, [DataNext]_data_vars
  PROVE  ZeroInv'
<1> USE DEF ZeroInv
<1>1. ASSUME result' = NoResult PROVE ZeroInv'
  BY <1>1 DEF NoResult
<1>2. ASSUME ReadInHeader \/ ReadInHeaderFails \/ Free \/ CloseFile PROVE ZeroInv'
  BY <1>1, <1>2 DEF ReadInHeader, ReadInHeaderFails, Free, CloseFile, Undefined
<1>3. ASSUME NEW startp, NEW endp, ReadInData(startp, endp) PROVE ZeroInv'
  BY <1>1, <1>3 DEF ReadInData, readdata, Undefined
<1>4. ASSUME NEW start, NEW e, ReadInDatabySample(start, e) PROVE ZeroInv'
  BY <1>1, <1>4 DEF ReadInDatabySample, readdata, Undefined
<1>5. ASSUME NEW nd, DownSample(nd) PROVE ZeroInv'
  BY <1>1, <1>5, UndefinedResult DEF DownSample
<1>6. ASSUME NEW poli, Strip2OnePol(poli) \/ Strip2OnePol_STD(poli) PROVE ZeroInv'
  BY <1>1, <1>6, UndefinedResult DEF Strip2OnePol, Strip2OnePol_STD, Strip
<1>7. ASSUME result' = [kind |-> "zero", series |-> pZeroDM], UNCHANGED_SHAPE PROVE ZeroInv'
  <2>1. pZeroDM' = pZeroDM
    BY <1>7 DEF pZeroDM, Index, UNCHANGED_SHAPE
  <2> QED BY <1>7, <2>1
<1>8. ASSUME NEW method, ZeroDM(method) PROVE ZeroInv'
  <2>1. outcome' # "ok" => result' = NoResult
    BY <1>8, UndefinedResult DEF ZeroDM
  <2>2. outcome' = "ok" => result' = [kind |-> "zero", series |-> pZeroDM] /\ UNCHANGED_SHAPE
    BY <1>8 DEF ZeroDM
  <2> QED BY <1>1, <1>7, <2>1, <2>2
<1>9. ASSUME FormZeroDMSeriesandStatistics PROVE ZeroInv'
  <2>1. outcome' # "ok" => result' = NoResult
    BY <1>9, UndefinedResult DEF FormZeroDMSeriesandStatistics
  <2>2. outcome' = "ok" => result' = [kind |-> "zero", series |-> pZeroDM] /\ UNCHANGED_SHAPE
    BY <1>9 DEF FormZeroDMSeriesandStatistics
  <2> QED BY <1>1, <1>7, <2>1, <2>2
<1>10. ASSUME NEW call \in {"RemoveBaseline", "Equalize"}, SubtractMeans(call) PROVE ZeroInv'
  BY <1>1, <1>10, UndefinedResult DEF SubtractMeans
<1>11. ASSUME NEW call \in {"Dedisperse", "FormDedisperseChannelData"}, NEW sfti, NEW pols, NEW channels,
              DedisperseInto(call, sfti, pols, channels)
       PROVE  ZeroInv'
  <2>1. outcome' # "ok" => result' = NoResult
    BY <1>11, UndefinedResult DEF DedisperseInto
  <2>2. outcome' = "ok" => result'.kind = call
    BY <1>11 DEF DedisperseInto
  <2> QED BY <1>1, <2>1, <2>2
<1>12. ASSUME NEW wi, ApplyBoxFilter(wi) PROVE ZeroInv'
  <2>1. result' = NoResult \/ result'.kind = "box"
    BY <1>12 DEF ApplyBoxFilter, Undefined
  <2> QED BY <1>1, <2>1
<1>13. ASSUME NEW ddm, NEW span, SubbandDeDispersion(ddm, span) PROVE ZeroInv'
  <2>1. result' = NoResult
    BY <1>13 DEF SubbandDeDispersion, dmsub2tim, Fine, Undefined
  <2> QED BY <1>1, <2>1
<1>14. ASSUME NEW call, NEW fails, OverSubbands(call, fails) PROVE ZeroInv'
  BY <1>1, <1>14 DEF OverSubbands, Undefined
<1>15. ASSUME UNCHANGED data_vars PROVE ZeroInv'
  <2>1. UNCHANGED <<result, Nifs, Nsamples>>
    BY <1>15 DEF data_vars, header_vars
  <2>2. pZeroDM' = pZeroDM
    BY <2>1 DEF pZeroDM, Index
  <2> QED BY <2>1, <2>2
<1> USE DEF BoxCarFilter, WriteSubbandData, WriteTimData, Dedisperse, FormDedisperseChannelData
<1> QED
  BY <1>2, <1>3, <1>4, <1>5, <1>6, <1>8, <1>9, <1>10, <1>11, <1>12, <1>13, <1>14, <1>15
  DEF DataNext

(* The zero DM series is, sample by sample, the sum of all channels of one *)
(* polarisation (filterbank.cpp:591-621, 1316-1358).                       *)
THEOREM ZeroDMIsTheSum == DataSpec => []ZeroDMRight
<1>1. DataInit => ZeroInv
  BY DEF DataInit, ZeroInv, NoResult
<1>2. DataSpec => []ZeroInv
  BY <1>1, TypeInvAlways, ZeroStep, PTL DEF DataSpec
<1>3. ASSUME TypeInv, DataInv, ZeroInv PROVE ZeroDMRight
  <2> SUFFICES ASSUME Known, result.kind = "zero", Nifs = 1 \/ file.order = "chan_if",
                      NEW z \in DOMAIN result.series
               PROVE  Sum(result.series[z]).src = Values(z \div Nifs, Channels, z % Nifs)
    BY DEF ZeroDMRight
  <2>1. result.series = pZeroDM /\ ShapeOK /\ CellsRight
    BY <1>3 DEF ZeroInv, DataInv, TypeInv
  <2> QED BY <2>1, SeriesSum
<1> QED BY <1>2, <1>3, TypeInvAlways, DataInvAlways, PTL
=============================================================================
