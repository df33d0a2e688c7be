-------------------------- MODULE FilHeaderProofs --------------------------
(***************************************************************************)
(* Theorems about the header of a filterbank file: for tables of any size, *)
(* names of any length, any number of files read one after another into    *)
(* one object, each cut off anywhere or whole.                             *)
(***************************************************************************)
EXTENDS FilHeader, ModLemmas, SequenceTheorems

-----------------------------------------------------------------------------
(* Sequences.                                                              *)

(* A sequence of n elements.                                               *)
IsSeq(s, n) == n \in Nat /\ s = [i \in 1 .. n |-> s[i]]

LEMMA LenIs == ASSUME NEW s, NEW n, IsSeq(s, n)
               PROVE  Len(s) = n /\ DOMAIN s = 1 .. n /\ s \in Seq({s[i] : i \in 1 .. n})
<1>1. s \in [1 .. n -> {s[i] : i \in 1 .. n}]
  BY DEF IsSeq
<1>2. n \in Nat
  BY DEF IsSeq
<1>3. s \in Seq({s[i] : i \in 1 .. n})
  BY <1>1, <1>2, IsASeq
<1> QED BY <1>1, <1>2, <1>3, LenProperties

Joined(u, s, m, t, n) ==
  /\ IsSeq(u, m + n)
  /\ \A i \in 1 .. m : u[i] = s[i]
  /\ \A i \in 1 .. n : u[m + i] = t[i]

LEMMA CatIs ==
  ASSUME NEW s, NEW t, NEW m, NEW n, IsSeq(s, m), IsSeq(t, n)
  PROVE  Joined(s \o t, s, m, t, n)
<1> DEFINE S == {s[i] : i \in 1 .. m} \cup {t[i] : i \in 1 .. n}
<1>1. m \in Nat /\ n \in Nat
  BY DEF IsSeq
<1>2. s \in Seq(S) /\ Len(s) = m
  <2>1. s \in [1 .. m -> S]
    BY DEF IsSeq
  <2> QED BY <1>1, <2>1, IsASeq, LenProperties
<1>3. t \in Seq(S) /\ Len(t) = n
  <2>1. t \in [1 .. n -> S]
    BY DEF IsSeq
  <2> QED BY <1>1, <2>1, IsASeq, LenProperties
<1> HIDE DEF S
<1>4. /\ s \o t \in Seq(S) /\ Len(s \o t) = m + n
      /\ \A i \in 1 .. m + n : (s \o t)[i] = IF i <= m THEN s[i] ELSE t[i - m]
  BY <1>2, <1>3, ConcatProperties
<1>5. s \o t = [i \in 1 .. m + n |-> (s \o t)[i]]
  <2>1. s \o t \in [1 .. m + n -> S]
    BY <1>4, LenProperties
  <2> QED BY <2>1
<1>6. ASSUME NEW i \in 1 .. m PROVE (s \o t)[i] = s[i]
  <2>1. i \in 1 .. m + n /\ i <= m
    BY <1>1
  <2> QED BY <1>4, <2>1
<1>7. ASSUME NEW i \in 1 .. n PROVE (s \o t)[m + i] = t[i]
  <2>1. PICK k \in Int : k = m + i
    BY <1>1
  <2>2. k \in 1 .. m + n /\ ~(k <= m) /\ k - m = i
    BY <1>1, <2>1
  <2>3. (s \o t)[k] = t[k - m]
    BY <1>4, <2>2
  <2> QED BY <2>1, <2>2, <2>3
<1>8. IsSeq(s \o t, m + n)
  BY <1>1, <1>5 DEF IsSeq
<1> QED BY <1>6, <1>7, <1>8 DEF Joined

(* A sequence of pairs, one after the other.                               *)
Flattens(f, seqs, n) ==
  f = [i \in 1 .. n |-> IF i = 1 THEN seqs[i] ELSE f[i - 1] \o seqs[i]]

LEMMA FlattenSolves ==
  ASSUME NEW seqs, NEW n, n # 0, IsSeq(seqs, n), NEW g, Flattens(g, seqs, n)
  PROVE  \E r : Flattens(r, seqs, n) /\ FlattenSeq(seqs) = r[n]
<1> DEFINE r == CHOOSE f : f = [i \in 1 .. Len(seqs) |-> IF i = 1 THEN seqs[i]
                                                       ELSE f[i - 1] \o seqs[i]]
<1>1. Len(seqs) = n
  BY LenIs
<1>2. FlattenSeq(seqs) = r[n]
  BY <1>1 DEF FlattenSeq
<1>3. Flattens(r, seqs, n)
  BY <1>1 DEF Flattens
<1> QED BY <1>2, <1>3

Paired(s, a, b, m) == \A j \in 1 .. m : s[2 * j - 1] = a[j] /\ s[2 * j] = b[j]

LEMMA PairIs ==
  ASSUME NEW a, NEW b
  PROVE  IsSeq(<<a, b>>, 2) /\ <<a, b>>[1] = a /\ <<a, b>>[2] = b
BY DEF IsSeq

LEMMA FlattenPairs ==
  ASSUME NEW n \in Nat, n # 0, NEW a, NEW b, NEW seqs,
         seqs = [i \in 1 .. n |-> <<a[i], b[i]>>]
  PROVE  IsSeq(FlattenSeq(seqs), 2 * n) /\ Paired(FlattenSeq(seqs), a, b, n)
<1> DEFINE h(i) == [k \in 1 .. 2 * i |-> IF k % 2 = 1 THEN a[(k + 1) \div 2] ELSE b[k \div 2]]
           g == [i \in 1 .. n |-> h(i)]
<1>1. IsSeq(seqs, n)
  BY DEF IsSeq
<1>2. ASSUME NEW i \in 1 .. n, i # 1 PROVE h(i) = h(i - 1) \o seqs[i]
  <2> DEFINE s == h(i - 1)
             t == <<a[i], b[i]>>
  <2>1. IsSeq(s, 2 * (i - 1)) /\ IsSeq(t, 2) /\ t[1] = a[i] /\ t[2] = b[i]
    BY <1>2, PairIs DEF IsSeq
  <2>2. /\ IsSeq(s \o t, 2 * (i - 1) + 2)
        /\ \A k \in 1 .. 2 * (i - 1) : (s \o t)[k] = s[k]
        /\ \A k \in 1 .. 2 : (s \o t)[2 * (i - 1) + k] = t[k]
    <3> HIDE DEF s, t
    <3>1. PICK m : m = 2 * (i - 1)
      OBVIOUS
    <3>2. IsSeq(s, m) /\ IsSeq(t, 2)
      BY <2>1, <3>1
    <3>3. Joined(s \o t, s, m, t, 2)
      BY ONLY <3>2, CatIs
    <3> QED BY ONLY <3>1, <3>3 DEF Joined
  <2>3. s \o t = [k \in 1 .. 2 * i |-> (s \o t)[k]]
    <3>1. 2 * (i - 1) + 2 = 2 * i
      OBVIOUS
    <3> QED BY <2>2, <3>1 DEF IsSeq
  <2>4. ASSUME NEW k \in 1 .. 2 * i PROVE h(i)[k] = (s \o t)[k]
    <3>1. CASE k <= 2 * (i - 1)
      BY <2>2, <3>1, <1>2
    <3>2. CASE k = 2 * i - 1
      <4>1. h(i)[k] = a[i]
        BY <3>2
      <4>2. (s \o t)[2 * (i - 1) + 1] = t[1]
        BY ONLY <2>2, 1 \in 1 .. 2
      <4>3. 2 * (i - 1) + 1 = k
        BY <3>2
      <4> QED BY <2>1, <4>1, <4>2, <4>3
    <3>3. CASE k = 2 * i
      <4>1. h(i)[k] = b[i]
        BY <3>3
      <4>2. (s \o t)[2 * (i - 1) + 2] = t[2]
        BY ONLY <2>2, 2 \in 1 .. 2
      <4>3. 2 * (i - 1) + 2 = k
        BY <3>3
      <4> QED BY <2>1, <4>1, <4>2, <4>3
    <3> QED BY <3>1, <3>2, <3>3
  <2>5. h(i) = s \o t
    BY <2>3, <2>4
  <2>6. seqs[i] = t
    OBVIOUS
  <2> QED BY <2>5, <2>6
<1>3. h(1) = seqs[1]
  <2>1. h(1) = [k \in 1 .. 2 |-> IF k % 2 = 1 THEN a[1] ELSE b[1]]
    OBVIOUS
  <2>2. IsSeq(<<a[1], b[1]>>, 2) /\ <<a[1], b[1]>>[1] = a[1] /\ <<a[1], b[1]>>[2] = b[1]
    BY PairIs
  <2>3. \A k \in 1 .. 2 : h(1)[k] = <<a[1], b[1]>>[k]
    BY <2>1, <2>2
  <2>4. h(1) = <<a[1], b[1]>>
    BY <2>1, <2>2, <2>3 DEF IsSeq
  <2>5. seqs[1] = <<a[1], b[1]>>
    OBVIOUS
  <2> QED BY <2>4, <2>5
<1> HIDE DEF h
<1>4. Flattens(g, seqs, n)
  <2>1. ASSUME NEW i \in 1 .. n
        PROVE  g[i] = IF i = 1 THEN seqs[i] ELSE g[i - 1] \o seqs[i]
    <3>1. CASE i = 1
      BY <1>3, <3>1
    <3>2. CASE i # 1
      <4>1. i - 1 \in 1 .. n
        BY <3>2
      <4> QED BY <1>2, <3>2, <4>1
    <3> QED BY <3>1, <3>2
  <2> QED BY <2>1 DEF Flattens
<1>5. PICK r : Flattens(r, seqs, n) /\ FlattenSeq(seqs) = r[n]
  BY <1>1, <1>4, FlattenSolves
<1>12. \A i \in 1 .. n : r[i] = IF i = 1 THEN seqs[i] ELSE r[i - 1] \o seqs[i]
  BY <1>5 DEF Flattens
<1> HIDE DEF g
<1> DEFINE T == {m \in 0 .. n : m > 0 => r[m] = h(m)}
<1>6. 0 \in T
  OBVIOUS
<1>7. \A m \in 0 .. n - 1 : m \in T => m + 1 \in T
  <2> SUFFICES ASSUME NEW m \in 0 .. n - 1, m \in T PROVE r[m + 1] = h(m + 1)
    OBVIOUS
  <2>1. r[m + 1] = IF m + 1 = 1 THEN seqs[m + 1] ELSE r[m + 1 - 1] \o seqs[m + 1]
    <3>1. m + 1 \in 1 .. n
      OBVIOUS
    <3> QED BY <1>12, <3>1
  <2>2. CASE m = 0
    BY <1>3, <2>1, <2>2
  <2>3. CASE m # 0
    <3>1. m + 1 \in 1 .. n /\ m + 1 # 1 /\ m + 1 - 1 = m
      BY <2>3
    <3>2. h(m + 1) = h(m) \o seqs[m + 1]
      BY <1>2, <3>1
    <3>3. r[m] = h(m)
      BY <2>3
    <3> QED BY <2>1, <3>1, <3>2, <3>3
  <2> QED BY <2>2, <2>3
<1> HIDE DEF T
<1>8. n \in T
  <2>1. \A m \in 0 .. n : m \in T
    BY <1>6, <1>7, UpTo
  <2> QED BY <2>1
<1>9. FlattenSeq(seqs) = h(n)
  BY <1>5, <1>8 DEF T
<1>10. IsSeq(h(n), 2 * n)
  BY DEF h, IsSeq
<1>11. ASSUME NEW j \in 1 .. n PROVE h(n)[2 * j - 1] = a[j] /\ h(n)[2 * j] = b[j]
  BY DEF h
<1> QED BY <1>9, <1>10, <1>11 DEF Paired

-----------------------------------------------------------------------------
(* The size of a header: the bytes of its items, counted one by one.       *)
Places(items, s) == {p \in s \X Nat : p[2] \in 1 .. items[p[1]].bytes}
Bytes(items, n) == Cardinality(Places(items, 1 .. n))

HasBytes(items, s) == \A i \in s : items[i].bytes \in Nat

AddsPlaces(items, s, x) ==
  /\ IsFiniteSet(Places(items, s))
  /\ Cardinality(Places(items, s)) = items[x].bytes + Cardinality(Places(items, s \ {x}))

LEMMA OnePlace ==
  ASSUME NEW items, NEW s, NEW x \in s, items[x].bytes \in Nat,
         IsFiniteSet(Places(items, s \ {x}))
  PROVE  AddsPlaces(items, s, x)
<1> DEFINE n == items[x].bytes
           A == {x} \X (1 .. n)
           B == Places(items, s \ {x})
<1>1. Places(items, s) = A \cup B
  BY DEF Places
<1>2. A \cap B = {}
  BY DEF Places
<1>3. IsFiniteSet(A) /\ Cardinality(A) = n
  <2>1. IsFiniteSet({x}) /\ Cardinality({x}) = 1
    BY FS_Singleton
  <2>2. IsFiniteSet(1 .. n) /\ Cardinality(1 .. n) = n
    <3>1. PICK b \in Nat : b = n
      OBVIOUS
    <3>2. 1 \in Int /\ b \in Int
      OBVIOUS
    <3>3. IsFiniteSet(1 .. b) /\ Cardinality(1 .. b) = IF 1 > b THEN 0 ELSE b - 1 + 1
      BY ONLY <3>2, FS_Interval
    <3>4. (IF 1 > b THEN 0 ELSE b - 1 + 1) = b
      OBVIOUS
    <3> QED BY ONLY <3>1, <3>3, <3>4
  <2>3. IsFiniteSet(A) /\ Cardinality(A) = Cardinality({x}) * Cardinality(1 .. n)
    BY <2>1, <2>2, FS_Product
  <2> QED BY <2>1, <2>2, <2>3
<1> HIDE DEF A, B
<1>4. IsFiniteSet(B) /\ Cardinality(B) \in Nat
  BY FS_CardinalityType DEF B
<1>5. IsFiniteSet(A \cup B) /\ Cardinality(A \cup B) = Cardinality(A) + Cardinality(B) - Cardinality(A \cap B)
  BY <1>3, <1>4, FS_Union
<1>6. Cardinality(A \cap B) = 0
  BY <1>2, FS_EmptySet
<1> QED BY <1>1, <1>3, <1>4, <1>5, <1>6 DEF B, AddsPlaces

LEMMA NoPlace == ASSUME NEW items
                 PROVE  IsFiniteSet(Places(items, {})) /\ Cardinality(Places(items, {})) = 0
<1>1. Places(items, {}) = {}
  BY DEF Places
<1> QED BY <1>1, FS_EmptySet

LEMMA BytesNext ==
  ASSUME NEW items, NEW m \in Nat, HasBytes(items, 1 .. m)
  PROVE  \A n \in 0 .. m :
           /\ IsFiniteSet(Places(items, 1 .. n)) /\ Bytes(items, n) \in Nat
           /\ n = 0 => Bytes(items, n) = 0
           /\ n > 0 => Bytes(items, n) = Bytes(items, n - 1) + items[n].bytes
<1> DEFINE Good(n) == /\ IsFiniteSet(Places(items, 1 .. n)) /\ Bytes(items, n) \in Nat
                      /\ n = 0 => Bytes(items, n) = 0
                      /\ n > 0 => Bytes(items, n) = Bytes(items, n - 1) + items[n].bytes
           T == {n \in 0 .. m : Good(n)}
<1>1. 0 \in T
  <2>1. 1 .. 0 = {}
    OBVIOUS
  <2>2. IsFiniteSet(Places(items, 1 .. 0)) /\ Bytes(items, 0) = 0
    BY <2>1, NoPlace DEF Bytes
  <2> QED BY <2>2
<1>2. \A n \in 0 .. m - 1 : n \in T => n + 1 \in T
  <2> SUFFICES ASSUME NEW n \in 0 .. m - 1, n \in T PROVE Good(n + 1)
    OBVIOUS
  <2> DEFINE k == n + 1
  <2>1. k \in 1 .. k /\ (1 .. k) \ {k} = 1 .. n /\ items[k].bytes \in Nat
    BY DEF HasBytes
  <2>2. IsFiniteSet(Places(items, 1 .. n)) /\ Bytes(items, n) \in Nat
    OBVIOUS
  <2> HIDE DEF k
  <2>3. IsFiniteSet(Places(items, 1 .. k)) /\ Bytes(items, k) = items[k].bytes + Bytes(items, n)
    <3>1. AddsPlaces(items, 1 .. k, k)
      BY <2>1, <2>2, OnePlace
    <3> QED BY <2>1, <3>1 DEF Bytes, AddsPlaces
  <2>4. k = n + 1 /\ k - 1 = n /\ k > 0
    BY DEF k
  <2> QED BY <2>1, <2>2, <2>3, <2>4
<1> HIDE DEF T
<1>3. \A n \in 0 .. m : n \in T
  BY <1>1, <1>2, UpTo
<1> QED BY <1>3 DEF T

BytesOver(f, items, S) ==
  f = [s \in SUBSET S |->
         IF s = {} THEN 0
         ELSE items[CHOOSE x \in s : TRUE].bytes + f[s \ {CHOOSE x \in s : TRUE}]]

LEMMA BytesSolve ==
  ASSUME NEW items, NEW g, BytesOver(g, items, DOMAIN items)
  PROVE  \E r : BytesOver(r, items, DOMAIN items) /\ HeaderBytes(items) = r[DOMAIN items]
<1> DEFINE r == CHOOSE f : f = [s \in SUBSET (DOMAIN items) |->
                  IF s = {} THEN 0
                  ELSE items[CHOOSE x \in s : TRUE].bytes + f[s \ {CHOOSE x \in s : TRUE}]]
<1>1. HeaderBytes(items) = r[DOMAIN items]
  BY DEF HeaderBytes, FoldSeq, FoldFunction, FoldFunctionOnSet, MapThenFoldSet
<1>2. BytesOver(r, items, DOMAIN items)
  BY DEF BytesOver
<1> QED BY <1>1, <1>2

LEMMA HeaderBytesIs ==
  ASSUME NEW items, NEW m \in Nat, DOMAIN items = 1 .. m, HasBytes(items, 1 .. m)
  PROVE  HeaderBytes(items) = Bytes(items, m)
<1> DEFINE S == 1 .. m
           Tot(s) == Cardinality(Places(items, s))
           OneOf(s) == CHOOSE x \in s : TRUE
           g == [s \in SUBSET S |-> Tot(s)]
<1>1. \A s \in SUBSET S : IsFiniteSet(s) /\ IsFiniteSet(Places(items, s))
  <2> SUFFICES ASSUME NEW s \in SUBSET S PROVE IsFiniteSet(s) /\ IsFiniteSet(Places(items, s))
    OBVIOUS
  <2>1. IsFiniteSet(S)
    BY FS_Interval
  <2>2. IsFiniteSet(Places(items, S))
    BY BytesNext
  <2>3. Places(items, s) \in SUBSET Places(items, S)
    BY DEF Places
  <2> QED BY <2>1, <2>2, <2>3, FS_Subset
<1>2. \A s \in SUBSET S : s # {} => OneOf(s) \in s
  OBVIOUS
<1>3. ASSUME NEW s \in SUBSET S, NEW x \in s PROVE Tot(s) = items[x].bytes + Tot(s \ {x})
  <2>1. IsFiniteSet(Places(items, s \ {x})) /\ items[x].bytes \in Nat
    BY <1>1 DEF HasBytes
  <2>2. AddsPlaces(items, s, x)
    BY <2>1, OnePlace
  <2> QED BY <2>2 DEF AddsPlaces
<1>4. Tot({}) = 0
  BY NoPlace
<1> HIDE DEF Tot
<1>5. BytesOver(g, items, S)
  <2>1. ASSUME NEW s \in SUBSET S
        PROVE  g[s] = IF s = {} THEN 0 ELSE items[OneOf(s)].bytes + g[s \ {OneOf(s)}]
    <3>1. CASE s = {}
      BY <1>4, <3>1
    <3>2. CASE s # {}
      <4>1. OneOf(s) \in s /\ s \ {OneOf(s)} \in SUBSET S
        BY <1>2, <3>2
      <4>2. Tot(s) = items[OneOf(s)].bytes + Tot(s \ {OneOf(s)})
        BY <1>3, <4>1
      <4> QED BY <3>2, <4>1, <4>2
    <3> QED BY <3>1, <3>2
  <2> QED BY <2>1 DEF BytesOver
<1>6. PICK r : BytesOver(r, items, S) /\ HeaderBytes(items) = r[S]
  BY <1>5, BytesSolve
<1>7. \A s \in SUBSET S : r[s] = IF s = {} THEN 0 ELSE items[OneOf(s)].bytes + r[s \ {OneOf(s)}]
  BY <1>6 DEF BytesOver
<1> HIDE DEF OneOf, g
<1> DEFINE T == {n \in 0 .. m : \A s \in SUBSET S : Cardinality(s) = n => r[s] = Tot(s)}
<1>8. 0 \in T
  <2>1. ASSUME NEW s \in SUBSET S, Cardinality(s) = 0 PROVE r[s] = Tot(s)
    <3>1. s = {}
      BY <1>1, <2>1, FS_EmptySet
    <3> QED BY <1>4, <1>7, <3>1
  <2> QED BY <2>1
<1>9. \A n \in 0 .. m - 1 : n \in T => n + 1 \in T
  <2> SUFFICES ASSUME NEW n \in 0 .. m - 1, n \in T,
                      NEW s \in SUBSET S, Cardinality(s) = n + 1
               PROVE  r[s] = Tot(s)
    OBVIOUS
  <2>1. s # {}
    <3>1. Cardinality(s) # 0
      OBVIOUS
    <3> QED BY <1>1, <3>1, FS_EmptySet
  <2>2. OneOf(s) \in s
    BY <1>2, <2>1
  <2>3. s \ {OneOf(s)} \in SUBSET S /\ Cardinality(s \ {OneOf(s)}) = n
    <3>1. Cardinality(s \ {OneOf(s)}) = Cardinality(s) - 1
      BY <1>1, <2>2, FS_RemoveElement
    <3>2. n + 1 - 1 = n /\ Cardinality(s) = n + 1
      OBVIOUS
    <3>3. s \ {OneOf(s)} \in SUBSET S
      OBVIOUS
    <3>4. Cardinality(s \ {OneOf(s)}) = n
      BY ONLY <3>1, <3>2
    <3> QED BY ONLY <3>3, <3>4
  <2>4. r[s \ {OneOf(s)}] = Tot(s \ {OneOf(s)})
    BY <2>3
  <2> QED BY <1>3, <1>7, <2>1, <2>2, <2>4
<1> HIDE DEF T
<1>10. m \in T
  <2>1. \A n \in 0 .. m : n \in T
    BY <1>8, <1>9, UpTo
  <2> QED BY <2>1
<1>11. Cardinality(S) = m
  <2>1. Cardinality(1 .. m) = IF 1 > m THEN 0 ELSE m - 1 + 1
    BY FS_Interval
  <2> QED BY <2>1
<1>12. r[S] = Tot(S)
  BY <1>10, <1>11 DEF T
<1> QED BY <1>6, <1>12 DEF Tot, Bytes

-----------------------------------------------------------------------------
(* What is where in a header.                                              *)
AllNames == Names \cup RawNames \cup OwnNames

LEMMA StringLengths ==
  /\ \A t \in Keywords \cup OwnNames \cup RawNames : Len(t) \in 1 .. MaxString
  /\ \A t \in AllNames : Len(t) \in Nat /\ (Len(t) = 0 <=> t = "")
  /\ MaxString \in Nat
<1>1. MaxString \in Nat
  BY FilAssumption, Zenon
<1>2. \A t \in Keywords \cup OwnNames \cup RawNames : Len(t) \in 1 .. MaxString
  BY FilAssumption, Zenon
<1>3. \A t \in Names \ {""} : Len(t) \in Nat \ {0}
  BY FilAssumption, Zenon
<1>4. ASSUME NEW t \in AllNames PROVE Len(t) \in Nat /\ (Len(t) = 0 <=> t = "")
  <2>1. CASE t = ""
    <3>1. Len(t) = 0
      BY <2>1, FilAssumption, Zenon
    <3>2. 0 \in Nat
      OBVIOUS
    <3> QED BY ONLY <2>1, <3>1, <3>2, Zenon
  <2>2. CASE t \in Names \ {""}
    <3>1. Len(t) \in Nat /\ Len(t) # 0
      BY ONLY <1>3, <2>2
    <3> QED BY ONLY <2>2, <3>1, Zenon
  <2>3. CASE t \in OwnNames \cup RawNames
    <3>1. Len(t) \in 1 .. MaxString
      BY ONLY <1>2, <2>3
    <3>2. Len(t) \in Nat /\ Len(t) # 0
      BY ONLY <1>1, <3>1
    <3>3. t # ""
      <4>1. Len("") = 0
        BY FilAssumption, Zenon
      <4> QED BY ONLY <3>2, <4>1, Zenon
    <3> QED BY ONLY <3>2, <3>3, Zenon
  <2> QED BY <2>1, <2>2, <2>3, Zenon DEF AllNames
<1> QED BY ONLY <1>1, <1>2, <1>4

(* What fits an array of letters.                                          *)
LEMMA NameRoom ==
  /\ NameSize \in Nat /\ NameSize > 0
  /\ \A t \in Keywords \cup OwnNames \cup {""} : Len(t) < NameSize
<1>1. NameSize \in Nat /\ Len("") = 0
  BY FilAssumption, Zenon
<1>2. \A t \in Keywords \cup OwnNames : Len(t) < NameSize
  BY FilAssumption, Zenon
<1>3. Len("ERROR") = 5
  BY FilAssumption, Zenon
<1>4. Len("ERROR") < NameSize
  BY <1>2, Zenon DEF OwnNames
<1>5. NameSize > 0
  <2>1. PICK n : n = Len("ERROR")
    OBVIOUS
  <2>2. n = 5 /\ n < NameSize /\ NameSize \in Nat
    BY ONLY <1>1, <1>3, <1>4, <2>1, Zenon
  <2> QED BY ONLY <2>2
<1>6. Len("") < NameSize
  <2>1. 0 < NameSize
    BY ONLY <1>1, <1>5
  <2> QED BY ONLY <1>1, <2>1, Zenon
<1>7. ASSUME NEW t \in Keywords \cup OwnNames \cup {""} PROVE Len(t) < NameSize
  BY ONLY <1>2, <1>6, Zenon
<1> QED BY ONLY <1>1, <1>5, <1>7

LEMMA Letters ==
  /\ MaxString \in Nat /\ NameSize \in Nat
  /\ \A t \in Keywords \cup AllNames : Len(t) \in Nat
<1>1. MaxString \in Nat /\ NameSize \in Nat
  BY StringLengths, NameRoom
<1>2. ASSUME NEW t \in Keywords \cup AllNames PROVE Len(t) \in Nat
  <2>1. CASE t \in AllNames
    BY ONLY <2>1, StringLengths
  <2>2. CASE t \in Keywords
    <3>1. Len(t) \in 1 .. MaxString
      BY ONLY <2>2, StringLengths
    <3> QED BY ONLY <1>1, <3>1
  <2> QED BY ONLY <2>1, <2>2, t \in Keywords \cup AllNames
<1> QED BY ONLY <1>1, <1>2

LEMMA Bounds == /\ MaxChans \in Nat \ {0} /\ MaxFiles \in Nat
                /\ I32 \in Nat /\ I32 \div 2 \in Nat /\ I32 = 2 * (I32 \div 2) /\ I32 \div 2 >= 128
                /\ SampleCounts \subseteq Nat
<1>1. MaxChans \in Nat \ {0} /\ MaxFiles \in Nat /\ SampleCounts \subseteq Nat
  BY FilAssumption, Zenon
<1>2. I32 \in {2 * k : k \in 128 .. I32}
  BY FilAssumption, Zenon
<1>3. PICK k \in 128 .. I32 : I32 = 2 * k
  BY ONLY <1>2
<1>4. k \in Nat /\ k >= 128
  BY <1>3
<1>5. I32 \div 2 = k
  BY ONLY <1>3, <1>4
<1> QED BY ONLY <1>1, <1>3, <1>4, <1>5

(* A header that is written.                                               *)
Header(h) ==
  /\ h.Source_name \in AllNames
  /\ h.Rawdatafile \in AllNames
  /\ h.UseFrequencyTable \in BOOLEAN
  /\ h.field["nchans"] \in Nat \ {0}
  /\ h.field["nbits"] \in Nat \ {0} /\ h.field["nbits"] % 8 = 0
  /\ h.field["nifs"] \in Nat \ {0}

String(t) == [text |-> t, value |-> 0, bytes |-> 4 + Len(t)]
Value(k, v) == [text |-> "", value |-> v, bytes |-> SizeOf[k]]

ItemsOK(t, n) == IsSeq(t, n) /\ HasBytes(t, 1 .. n)

LEMMA CatOK ==
  ASSUME NEW s, NEW t, NEW m, NEW n, ItemsOK(s, m), ItemsOK(t, n)
  PROVE  ItemsOK(s \o t, m + n) /\ Joined(s \o t, s, m, t, n)
<1>1. Joined(s \o t, s, m, t, n)
  BY CatIs DEF ItemsOK
<1>2. m \in Nat /\ n \in Nat
  BY DEF ItemsOK, IsSeq
<1> DEFINE u == s \o t
<1>4. Joined(u, s, m, t, n)
  BY <1>1
<1> HIDE DEF u
<1>3. ASSUME NEW i \in 1 .. m + n PROVE u[i].bytes \in Nat
  <2>1. CASE i <= m
    <3>1. i \in 1 .. m /\ u[i] = s[i]
      BY <1>4, <1>2, <2>1 DEF Joined
    <3> QED BY <3>1 DEF ItemsOK, HasBytes
  <2>2. CASE i > m
    <3>1. PICK k \in 1 .. n : m + k = i
      <4>1. i - m \in 1 .. n /\ m + (i - m) = i
        BY <1>2, <2>2
      <4> QED BY <4>1
    <3>2. u[m + k] = t[k]
      BY <1>4 DEF Joined
    <3> QED BY <3>1, <3>2 DEF ItemsOK, HasBytes
  <2> QED BY <1>2, <2>1, <2>2
<1>5. ItemsOK(u, m + n)
  BY <1>3, <1>4 DEF Joined, ItemsOK, HasBytes
<1> QED BY <1>4, <1>5 DEF u

LEMMA StringIs ==
  ASSUME NEW t, Len(t) \in Nat
  PROVE  ItemsOK(put_string(t), 1) /\ put_string(t)[1] = String(t)
<1>1. put_string(t) = <<String(t)>>
  BY DEF put_string, String
<1>2. String(t).bytes \in Nat
  BY DEF String
<1> QED BY <1>1, <1>2 DEF ItemsOK, IsSeq, HasBytes

LEMMA TwoOfOne == ASSUME NEW a, NEW b PROVE <<a>> \o <<b>> = <<a, b>>
<1>1. IsSeq(<<a>>, 1) /\ IsSeq(<<b>>, 1)
  BY DEF IsSeq
<1>2. Joined(<<a>> \o <<b>>, <<a>>, 1, <<b>>, 1)
  BY ONLY <1>1, CatIs
<1>3. PICK u : u = <<a>> \o <<b>>
  OBVIOUS
<1>4. PICK v : v = <<a, b>>
  OBVIOUS
<1>5. u = [i \in 1 .. 2 |-> u[i]] /\ u[1] = a /\ u[2] = b
  BY <1>2, <1>3 DEF Joined, IsSeq
<1>6. v = [i \in 1 .. 2 |-> v[i]] /\ v[1] = a /\ v[2] = b
  BY <1>4, PairIs DEF IsSeq
<1>7. \A i \in 1 .. 2 : i = 1 \/ i = 2
  OBVIOUS
<1>8. u = v
  BY ONLY <1>5, <1>6, <1>7
<1> QED BY ONLY <1>3, <1>4, <1>8

LEMMA ValueIs ==
  ASSUME NEW k \in Fields \cup {"fchannel", "nsamples"}, NEW v
  PROVE  /\ put_value(k, v) = <<String(k), Value(k, v)>>
         /\ ItemsOK(put_value(k, v), 2)
         /\ put_value(k, v)[1] = String(k) /\ put_value(k, v)[2] = Value(k, v)
<1>1. put_value(k, v) = <<String(k), Value(k, v)>>
  BY TwoOfOne DEF put_value, put_string, String, Value
<1>2. String(k).bytes \in Nat
  <2>1. Len(k) \in Nat
    <3>1. k \in Keywords
      BY DEF Keywords
    <3>2. Len(k) \in 1 .. MaxString /\ MaxString \in Nat
      BY ONLY <3>1, StringLengths
    <3> QED BY ONLY <3>2
  <2> QED BY <2>1 DEF String
<1>3. Value(k, v).bytes \in Nat
  BY DEF Value, SizeOf
<1> DEFINE p == String(k)
           q == Value(k, v)
<1>4. IsSeq(<<p, q>>, 2) /\ <<p, q>>[1] = p /\ <<p, q>>[2] = q
  <2> HIDE DEF p, q
  <2> QED BY PairIs
<1>5. HasBytes(<<p, q>>, 1 .. 2)
  <2>1. \A i \in 1 .. 2 : i = 1 \/ i = 2
    OBVIOUS
  <2> HIDE DEF p, q
  <2> QED BY <1>2, <1>3, <1>4, <2>1 DEF HasBytes, p, q
<1> QED BY <1>1, <1>4, <1>5 DEF ItemsOK

(* Pairs of a keyword and a value.                                         *)
PairsAre(t, keys, vals, n) ==
  /\ ItemsOK(t, 2 * n)
  /\ \A j \in 1 .. n : t[2 * j - 1] = String(keys[j]) /\ t[2 * j] = Value(keys[j], vals[j])

LEMMA PairsOK ==
  ASSUME NEW n \in Nat, n # 0, NEW keys, NEW vals, NEW seqs,
         seqs = [i \in 1 .. n |-> put_value(keys[i], vals[i])],
         \A i \in 1 .. n : keys[i] \in Fields \cup {"fchannel", "nsamples"}
  PROVE  PairsAre(FlattenSeq(seqs), keys, vals, n)
<1> DEFINE a == [i \in 1 .. n |-> String(keys[i])]
           b == [i \in 1 .. n |-> Value(keys[i], vals[i])]
           t == FlattenSeq(seqs)
<1>1. seqs = [i \in 1 .. n |-> <<a[i], b[i]>>]
  <2>1. \A i \in 1 .. n : put_value(keys[i], vals[i]) = <<a[i], b[i]>>
    BY ValueIs
  <2> HIDE DEF a, b
  <2> QED BY <2>1
<1>2. IsSeq(t, 2 * n) /\ Paired(t, a, b, n)
  <2> HIDE DEF a, b
  <2> QED BY <1>1, FlattenPairs
<1> HIDE DEF t
<1>3. \A j \in 1 .. n : a[j] = String(keys[j]) /\ b[j] = Value(keys[j], vals[j])
  OBVIOUS
<1> HIDE DEF a, b
<1>4. \A j \in 1 .. n : t[2 * j - 1] = String(keys[j]) /\ t[2 * j] = Value(keys[j], vals[j])
  BY <1>2, <1>3 DEF Paired
<1>5. \A j \in 1 .. n : String(keys[j]).bytes \in Nat /\ Value(keys[j], vals[j]).bytes \in Nat
  <2> SUFFICES ASSUME NEW j \in 1 .. n
               PROVE  String(keys[j]).bytes \in Nat /\ Value(keys[j], vals[j]).bytes \in Nat
    OBVIOUS
  <2>0. PICK v : v = vals[j]
    OBVIOUS
  <2>1. PICK k \in Fields \cup {"fchannel", "nsamples"} : k = keys[j] /\ v = vals[j]
    BY <2>0
  <2>2. PICK p : p = put_value(k, v)
    OBVIOUS
  <2>3. /\ \A i \in 1 .. 2 : p[i].bytes \in Nat
        /\ p[1] = String(k) /\ p[2] = Value(k, v)
    BY <2>2, ValueIs DEF ItemsOK, HasBytes
  <2>4. String(k).bytes \in Nat /\ Value(k, v).bytes \in Nat
    BY ONLY <2>3, 1 \in 1 .. 2, 2 \in 1 .. 2
  <2> QED BY ONLY <2>1, <2>4
<1>6. ASSUME NEW i \in 1 .. 2 * n PROVE t[i].bytes \in Nat
  <2>1. \E j \in 1 .. n : i = 2 * j - 1 \/ i = 2 * j
    <3>1. PICK q \in Nat, r \in Nat : i = q * 2 + r /\ r < 2
      <4>1. i \in Nat /\ 2 \in Nat \ {0}
        OBVIOUS
      <4> QED BY ONLY <4>1, DigitsBelow
    <3>2. CASE r = 0
      BY <3>1, <3>2
    <3>3. CASE r = 1
      <4>1. q + 1 \in 1 .. n /\ i = 2 * (q + 1) - 1
        BY <3>1, <3>3
      <4> QED BY <4>1
    <3> QED BY <3>1, <3>2, <3>3
  <2> QED BY <1>4, <1>5, <2>1
<1>7. ItemsOK(t, 2 * n)
  BY <1>2, <1>6 DEF ItemsOK, HasBytes
<1> QED BY <1>4, <1>7 DEF t, PairsAre

TableLen(h) == IF HasTable(h) THEN 2 * h.field["nchans"] + 2 ELSE 0

TableIs(items, at, h) ==
  HasTable(h) =>
    /\ items[at + 1] = String("FREQUENCY_START")
    /\ \A j \in 1 .. h.field["nchans"] :
         /\ items[at + 2 * j] = String("fchannel")
         /\ items[at + 2 * j + 1] = Value("fchannel", h.frequency_table[j - 1])
    /\ items[at + 2 * h.field["nchans"] + 2] = String("FREQUENCY_END")

FieldsAre(items, at, h, keys, n) ==
  \A j \in 1 .. n : /\ items[at + 2 * j - 1] = String(keys[j])
                    /\ items[at + 2 * j] = Value(keys[j], h.field[keys[j]])

LEMMA KeywordIs ==
  ASSUME NEW t \in Keywords
  PROVE  ItemsOK(put_string(t), 1) /\ put_string(t)[1] = String(t)
<1>1. Len(t) \in 1 .. MaxString /\ MaxString \in Nat
  BY StringLengths
<1>2. Len(t) \in Nat
  BY ONLY <1>1
<1> QED BY <1>2, StringIs

PutsFields(t, h, keys, n) == ItemsOK(t, 2 * n) /\ FieldsAre(t, 0, h, keys, n)

LEMMA PutFieldsIs ==
  ASSUME NEW h, NEW keys, NEW n \in Nat, n # 0, keys \in [1 .. n -> Fields]
  PROVE  PutsFields(PutFields(h, keys), h, keys, n)
<1> DEFINE vals == [i \in 1 .. n |-> h.field[keys[i]]]
           seqs == [i \in DOMAIN keys |-> put_value(keys[i], h.field[keys[i]])]
<1>1. seqs = [i \in 1 .. n |-> put_value(keys[i], vals[i])]
  OBVIOUS
<1>2. PutFields(h, keys) = FlattenSeq(seqs)
  BY DEF PutFields
<1>3. \A i \in 1 .. n : vals[i] = h.field[keys[i]]
  OBVIOUS
<1>4. \A i \in 1 .. n : keys[i] \in Fields \cup {"fchannel", "nsamples"}
  OBVIOUS
<1> HIDE DEF seqs, vals
<1>5. PICK t : t = FlattenSeq(seqs)
  OBVIOUS
<1>6. /\ ItemsOK(t, 2 * n)
      /\ \A j \in 1 .. n : t[2 * j - 1] = String(keys[j]) /\ t[2 * j] = Value(keys[j], vals[j])
  <2>1. PairsAre(t, keys, vals, n)
    BY ONLY <1>1, <1>4, <1>5, PairsOK, n \in Nat, n # 0
  <2> QED BY ONLY <2>1 DEF PairsAre
<1>7. FieldsAre(t, 0, h, keys, n)
  BY <1>3, <1>6 DEF FieldsAre
<1> QED BY <1>2, <1>5, <1>6, <1>7 DEF PutsFields

LEMMA TableOK ==
  ASSUME NEW h, Header(h)
  PROVE  ItemsOK(FrequencyTable(h), TableLen(h)) /\ TableIs(FrequencyTable(h), 0, h)
<1>1. CASE ~HasTable(h)
  <2>1. FrequencyTable(h) = <<>> /\ TableLen(h) = 0
    BY <1>1 DEF FrequencyTable, TableLen
  <2>2. ItemsOK(<<>>, 0)
    BY DEF ItemsOK, IsSeq, HasBytes
  <2> QED BY <1>1, <2>1, <2>2 DEF TableIs
<1>2. CASE HasTable(h)
  <2> DEFINE c == h.field["nchans"]
             keys == [i \in 1 .. c |-> "fchannel"]
             vals == [i \in 1 .. c |-> h.frequency_table[i - 1]]
             seqs == [i \in 1 .. c |-> put_value("fchannel", h.frequency_table[i - 1])]
             A == put_string("FREQUENCY_START")
             B == FlattenSeq(seqs)
             C == put_string("FREQUENCY_END")
  <2>1. c \in Nat /\ c # 0
    BY Bounds DEF Header
  <2>2. FrequencyTable(h) = (A \o B) \o C /\ TableLen(h) = 2 * c + 2
    BY <1>2 DEF FrequencyTable, TableLen
  <2>3. seqs = [i \in 1 .. c |-> put_value(keys[i], vals[i])]
    OBVIOUS
  <2>4. \A i \in 1 .. c : /\ keys[i] \in Fields \cup {"fchannel", "nsamples"}
                          /\ keys[i] = "fchannel" /\ vals[i] = h.frequency_table[i - 1]
    OBVIOUS
  <2> HIDE DEF c, keys, vals, seqs
  <2>5. /\ ItemsOK(B, 2 * c)
        /\ \A j \in 1 .. c : B[2 * j - 1] = String(keys[j]) /\ B[2 * j] = Value(keys[j], vals[j])
    <3>1. PairsAre(B, keys, vals, c)
      BY <2>1, <2>3, <2>4, PairsOK
    <3> QED BY ONLY <3>1 DEF PairsAre
  <2>6. ItemsOK(A, 1) /\ A[1] = String("FREQUENCY_START")
    BY KeywordIs DEF Keywords
  <2>7. ItemsOK(C, 1) /\ C[1] = String("FREQUENCY_END")
    BY KeywordIs DEF Keywords
  <2> HIDE DEF A, B, C
  <2>8. PICK m : m = 2 * c
    OBVIOUS
  <2>9. PICK u : u = A \o B
    OBVIOUS
  <2>10. ItemsOK(u, 1 + m) /\ Joined(u, A, 1, B, m)
    BY <2>5, <2>6, <2>8, <2>9, CatOK
  <2>11. PICK w : w = u \o C
    OBVIOUS
  <2>12. ItemsOK(w, 1 + m + 1) /\ Joined(w, u, 1 + m, C, 1)
    BY <2>7, <2>10, <2>11, CatOK
  <2>13. w[1] = String("FREQUENCY_START")
    <3>1. u[1] = A[1]
      BY ONLY <2>10, 1 \in 1 .. 1 DEF Joined
    <3>2. w[1] = u[1]
      <4>1. 1 \in 1 .. 1 + m
        BY <2>1, <2>8
      <4> QED BY ONLY <2>12, <4>1 DEF Joined
    <3> QED BY <2>6, <3>1, <3>2
  <2>14. w[2 * c + 2] = String("FREQUENCY_END")
    <3>1. w[1 + m + 1] = C[1]
      BY ONLY <2>12, 1 \in 1 .. 1 DEF Joined
    <3>2. 1 + m + 1 = 2 * c + 2
      BY <2>1, <2>8
    <3> QED BY <2>7, <3>1, <3>2
  <2>15. ASSUME NEW i \in 1 .. m PROVE w[1 + i] = B[i]
    <3>1. u[1 + i] = B[i]
      BY ONLY <2>10, i \in 1 .. m DEF Joined
    <3>2. 1 + i \in 1 .. 1 + m
      BY <2>1, <2>8
    <3>3. w[1 + i] = u[1 + i]
      BY ONLY <2>12, <3>2 DEF Joined
    <3> QED BY <3>1, <3>3
  <2>16. ASSUME NEW j \in 1 .. c
         PROVE  /\ w[2 * j] = String("fchannel")
                /\ w[2 * j + 1] = Value("fchannel", h.frequency_table[j - 1])
    <3>1. 2 * j - 1 \in 1 .. m /\ 2 * j \in 1 .. m /\ 1 + (2 * j - 1) = 2 * j /\ 1 + 2 * j = 2 * j + 1
      BY <2>1, <2>8
    <3>2. w[1 + (2 * j - 1)] = B[2 * j - 1] /\ w[1 + 2 * j] = B[2 * j]
      BY ONLY <2>15, <3>1
    <3> QED BY <2>4, <2>5, <3>1, <3>2
  <2>17. ItemsOK(w, 2 * c + 2)
    <3>1. 1 + m + 1 = 2 * c + 2
      BY <2>1, <2>8
    <3> QED BY <2>12, <3>1
  <2>18. TableIs(w, 0, h)
    <3>1. \A j \in Int : 0 + 2 * j = 2 * j
      OBVIOUS
    <3> QED BY <2>1, <2>13, <2>14, <2>16, <3>1 DEF TableIs, c
  <2> QED BY <2>2, <2>9, <2>11, <2>17, <2>18
<1> QED BY <1>1, <1>2

(* Where the parts of a header are.                                        *)
Same(u, at, t, n) == \A i \in 1 .. n : u[at + i] = t[i]

LEMMA SameRight ==
  ASSUME NEW u, NEW s, NEW m, NEW t, NEW n, Joined(u, s, m, t, n)
  PROVE  Same(u, m, t, n)
BY DEF Joined, Same

LEMMA SameLeft ==
  ASSUME NEW u, NEW s, NEW m \in Nat, NEW t, NEW n, Joined(u, s, m, t, n),
         NEW at \in Nat, NEW k \in Nat, NEW x, at + k <= m, Same(s, at, x, k)
  PROVE  Same(u, at, x, k)
<1> SUFFICES ASSUME NEW i \in 1 .. k PROVE u[at + i] = x[i]
  BY DEF Same
<1>1. PICK l \in 1 .. m : l = at + i
  OBVIOUS
<1>2. u[l] = s[l]
  BY DEF Joined
<1>3. s[at + i] = x[i]
  BY DEF Same
<1> QED BY <1>1, <1>2, <1>3

LEMMA TableThere ==
  ASSUME NEW u, NEW at \in Nat, NEW t, NEW h, Header(h), TableIs(t, 0, h),
         Same(u, at, t, TableLen(h))
  PROVE  TableIs(u, at, h)
<1> SUFFICES ASSUME HasTable(h) PROVE TableIs(u, at, h)
  BY DEF TableIs
<1> DEFINE c == h.field["nchans"]
<1>1. c \in Nat /\ c # 0 /\ TableLen(h) = 2 * c + 2
  BY Bounds DEF Header, TableLen
<1>2. /\ t[0 + 1] = String("FREQUENCY_START") /\ t[0 + 2 * c + 2] = String("FREQUENCY_END")
      /\ \A j \in 1 .. c : /\ t[0 + 2 * j] = String("fchannel")
                           /\ t[0 + 2 * j + 1] = Value("fchannel", h.frequency_table[j - 1])
  BY DEF TableIs
<1> HIDE DEF c
<1>3. \A i \in 1 .. 2 * c + 2 : u[at + i] = t[i]
  BY <1>1 DEF Same
<1>4. u[at + 1] = String("FREQUENCY_START")
  <2>1. 1 \in 1 .. 2 * c + 2 /\ 0 + 1 = 1
    BY <1>1
  <2> QED BY <1>2, <1>3, <2>1
<1>5. u[at + 2 * c + 2] = String("FREQUENCY_END")
  <2>1. PICK i \in 1 .. 2 * c + 2 : i = 2 * c + 2
    BY <1>1
  <2>2. u[at + i] = t[i] /\ 0 + 2 * c + 2 = i /\ at + 2 * c + 2 = at + i
    BY <1>1, <1>3, <2>1
  <2> QED BY <1>2, <2>2
<1>6. ASSUME NEW j \in 1 .. c
      PROVE  /\ u[at + 2 * j] = String("fchannel")
             /\ u[at + 2 * j + 1] = Value("fchannel", h.frequency_table[j - 1])
  <2>1. PICK i \in 1 .. 2 * c + 2, k \in 1 .. 2 * c + 2 : i = 2 * j /\ k = 2 * j + 1
    BY <1>1
  <2>2. u[at + i] = t[i] /\ 0 + 2 * j = i /\ at + 2 * j = at + i
    BY <1>1, <1>3, <2>1
  <2>3. u[at + k] = t[k] /\ 0 + 2 * j + 1 = k /\ at + 2 * j + 1 = at + k
    BY <1>1, <1>3, <2>1
  <2> QED BY <1>2, <2>2, <2>3
<1> QED BY <1>4, <1>5, <1>6 DEF TableIs, c

LEMMA FieldsThere ==
  ASSUME NEW u, NEW at \in Nat, NEW t, NEW h, NEW keys, NEW n \in Nat,
         FieldsAre(t, 0, h, keys, n), Same(u, at, t, 2 * n)
  PROVE  FieldsAre(u, at, h, keys, n)
<1>1. ASSUME NEW j \in 1 .. n
      PROVE  /\ u[at + 2 * j - 1] = String(keys[j])
             /\ u[at + 2 * j] = Value(keys[j], h.field[keys[j]])
  <2>1. PICK i \in 1 .. 2 * n, k \in 1 .. 2 * n : i = 2 * j - 1 /\ k = 2 * j
    OBVIOUS
  <2>2. u[at + i] = t[i] /\ 0 + 2 * j - 1 = i /\ at + 2 * j - 1 = at + i
    BY <2>1 DEF Same
  <2>3. u[at + k] = t[k] /\ 0 + 2 * j = k /\ at + 2 * j = at + k
    BY <2>1 DEF Same
  <2>4. /\ t[0 + 2 * j - 1] = String(keys[j])
        /\ t[0 + 2 * j] = Value(keys[j], h.field[keys[j]])
    BY DEF FieldsAre
  <2> QED BY <2>2, <2>3, <2>4
<1> QED BY <1>1 DEF FieldsAre

Keys(s) == IF s THEN SigprocKeys ELSE WrittenKeys
NumKeys(s) == IF s THEN 12 ELSE 18
NameAt(s) == IF s THEN 5 ELSE 3
TableAt(s) == IF s THEN 31 ELSE 3
FieldsAt(s, h) == IF s THEN 5 ELSE 3 + TableLen(h)
Size(s, h) == (IF s THEN 32 ELSE 40) + TableLen(h)
Written(s, h) == IF s THEN SigprocHeader(h) ELSE WriteHeaderToFile(h)

Layout(w, s, h) ==
  /\ ItemsOK(w, Size(s, h))
  /\ w[1] = String("HEADER_START") /\ w[Size(s, h)] = String("HEADER_END")
  /\ s => /\ w[2] = String("rawdatafile") /\ w[3] = String(h.Rawdatafile)
          /\ w[30] = String("nsamples") /\ w[31] = Value("nsamples", 0)
  /\ w[NameAt(s) - 1] = String("source_name") /\ w[NameAt(s)] = String(h.Source_name)
  /\ TableIs(w, TableAt(s), h)
  /\ FieldsAre(w, FieldsAt(s, h), h, Keys(s), NumKeys(s))

LEMMA KeysAre == \A s \in BOOLEAN : Keys(s) \in [1 .. NumKeys(s) -> Fields]
<1>1. WrittenKeys \in [1 .. 18 -> Fields]
  BY DEF WrittenKeys, Fields, Doubles, Ints
<1>2. SigprocKeys \in [1 .. 12 -> Fields]
  BY DEF SigprocKeys, Fields, Doubles, Ints
<1> QED BY <1>1, <1>2 DEF Keys, NumKeys

LEMMA TableLenNat ==
  ASSUME NEW h, Header(h)
  PROVE  TableLen(h) \in Nat /\ (HasTable(h) => TableLen(h) = 2 * h.field["nchans"] + 2)
                             /\ (~HasTable(h) => TableLen(h) = 0)
                             /\ h.field["nchans"] \in Nat /\ h.field["nchans"] > 0
<1>1. h.field["nchans"] \in Nat /\ h.field["nchans"] > 0
  BY DEF Header
<1> QED BY <1>1 DEF TableLen

(* What this program writes.                                               *)
LEMMA OwnLayout ==
  ASSUME NEW h, Header(h)
  PROVE  Layout(WriteHeaderToFile(h), FALSE, h)
<1> DEFINE n == TableLen(h)
<1>1. n \in Nat
  BY TableLenNat
<1>2. PICK A, B, C, T, F, Z :
        /\ A = put_string("HEADER_START") /\ B = put_string("source_name")
        /\ C = put_string(h.Source_name) /\ T = FrequencyTable(h)
        /\ F = PutFields(h, WrittenKeys) /\ Z = put_string("HEADER_END")
  OBVIOUS
<1>3. /\ ItemsOK(A, 1) /\ A[1] = String("HEADER_START")
      /\ ItemsOK(B, 1) /\ B[1] = String("source_name")
      /\ ItemsOK(Z, 1) /\ Z[1] = String("HEADER_END")
  BY <1>2, KeywordIs DEF Keywords
<1>4. ItemsOK(C, 1) /\ C[1] = String(h.Source_name)
  <2>1. Len(h.Source_name) \in Nat
    BY StringLengths DEF Header
  <2> QED BY <1>2, <2>1, StringIs
<1>5. ItemsOK(T, n) /\ TableIs(T, 0, h)
  BY <1>2, TableOK
<1>6. ItemsOK(F, 36) /\ FieldsAre(F, 0, h, WrittenKeys, 18)
  <2>1. WrittenKeys \in [1 .. 18 -> Fields]
    BY KeysAre DEF Keys, NumKeys
  <2>2. PutsFields(F, h, WrittenKeys, 18)
    <3>1. PICK m \in Nat : m = 18 /\ m # 0
      OBVIOUS
    <3>2. WrittenKeys \in [1 .. m -> Fields]
      BY ONLY <2>1, <3>1
    <3>3. PutsFields(PutFields(h, WrittenKeys), h, WrittenKeys, m)
      BY ONLY <3>1, <3>2, PutFieldsIs
    <3> QED BY <1>2, <3>1, <3>3
  <2> QED BY <2>2 DEF PutsFields
<1>7. PICK U, V, W, X, Y : /\ U = A \o B /\ V = U \o C /\ W = V \o T /\ X = W \o F /\ Y = X \o Z
  OBVIOUS
<1>8. WriteHeaderToFile(h) = Y
  BY <1>2, <1>7 DEF WriteHeaderToFile
<1> HIDE DEF n
<1>9. ItemsOK(U, 2) /\ Joined(U, A, 1, B, 1)
  <2>1. ItemsOK(U, 1 + 1) /\ Joined(U, A, 1, B, 1)
    BY ONLY <1>3, <1>7, CatOK
  <2> QED BY <2>1
<1>10. ItemsOK(V, 3) /\ Joined(V, U, 2, C, 1)
  <2>1. ItemsOK(V, 2 + 1) /\ Joined(V, U, 2, C, 1)
    BY ONLY <1>4, <1>9, <1>7, CatOK
  <2> QED BY <2>1
<1>11. ItemsOK(W, 3 + n) /\ Joined(W, V, 3, T, n)
  BY ONLY <1>5, <1>10, <1>7, CatOK
<1>12. ItemsOK(X, 3 + n + 36) /\ Joined(X, W, 3 + n, F, 36)
  BY ONLY <1>6, <1>11, <1>7, CatOK
<1>13. ItemsOK(Y, 3 + n + 36 + 1) /\ Joined(Y, X, 3 + n + 36, Z, 1)
  BY ONLY <1>3, <1>12, <1>7, CatOK
<1>14. V[1] = A[1] /\ V[2] = B[1] /\ V[3] = C[1]
  <2>1. 1 \in 1 .. 1 /\ 1 \in 1 .. 2 /\ 2 \in 1 .. 2
    OBVIOUS
  <2>2. U[1] = A[1] /\ U[1 + 1] = B[1]
    BY ONLY <1>9, <2>1 DEF Joined
  <2>3. V[1] = U[1] /\ V[2] = U[2] /\ V[2 + 1] = C[1]
    BY ONLY <1>10, <2>1 DEF Joined
  <2> QED BY <2>2, <2>3
<1>15. \A i \in 1 .. 3 : Y[i] = V[i]
  <2>1. \A i \in 1 .. 3 : i \in 1 .. 3 + n /\ i \in 1 .. 3 + n + 36
    BY <1>1
  <2>2. \A i \in 1 .. 3 : W[i] = V[i]
    BY ONLY <1>11 DEF Joined
  <2>3. \A i \in 1 .. 3 : X[i] = W[i]
    BY ONLY <1>12, <2>1 DEF Joined
  <2>4. \A i \in 1 .. 3 : Y[i] = X[i]
    BY ONLY <1>13, <2>1 DEF Joined
  <2> QED BY ONLY <2>2, <2>3, <2>4
<1>16. Same(Y, 3, T, n)
  <2>1. Same(W, 3, T, n)
    BY <1>11, SameRight
  <2>2. Same(X, 3, T, n)
    BY <1>1, <1>12, <2>1, SameLeft
  <2> QED BY <1>1, <1>13, <2>2, SameLeft
<1>17. Same(Y, 3 + n, F, 36)
  <2>1. Same(X, 3 + n, F, 36)
    BY <1>12, SameRight
  <2> QED BY <1>1, <1>13, <2>1, SameLeft
<1>18. Y[40 + n] = Z[1]
  <2>1. Y[3 + n + 36 + 1] = Z[1]
    BY ONLY <1>13, 1 \in 1 .. 1 DEF Joined
  <2>2. 3 + n + 36 + 1 = 40 + n
    BY <1>1
  <2> QED BY <2>1, <2>2
<1>19. TableIs(Y, 3, h)
  BY <1>5, <1>16, TableThere DEF n
<1>20. FieldsAre(Y, 3 + n, h, WrittenKeys, 18)
  <2>1. Same(Y, 3 + n, F, 2 * 18) /\ 3 + n \in Nat
    BY <1>1, <1>17
  <2> QED BY <1>6, <2>1, FieldsThere
<1>21. ItemsOK(Y, 40 + n)
  <2>1. 3 + n + 36 + 1 = 40 + n
    BY <1>1
  <2> QED BY <1>13, <2>1
<1>22. /\ Y[1] = String("HEADER_START") /\ Y[2] = String("source_name")
       /\ Y[3] = String(h.Source_name) /\ Y[40 + n] = String("HEADER_END")
  <2>1. 1 \in 1 .. 3 /\ 2 \in 1 .. 3 /\ 3 \in 1 .. 3
    OBVIOUS
  <2> QED BY ONLY <1>3, <1>4, <1>14, <1>15, <1>18, <2>1
<1>23. /\ NameAt(FALSE) - 1 = 2 /\ NameAt(FALSE) = 3 /\ TableAt(FALSE) = 3
       /\ FieldsAt(FALSE, h) = 3 + n /\ Keys(FALSE) = WrittenKeys /\ NumKeys(FALSE) = 18
       /\ Size(FALSE, h) = 40 + n
  BY DEF NameAt, TableAt, FieldsAt, Keys, NumKeys, Size, n
<1> QED BY ONLY <1>8, <1>19, <1>20, <1>21, <1>22, <1>23 DEF Layout

(* What the sigproc programs write.                                        *)
LEMMA SigprocLayout ==
  ASSUME NEW h, Header(h)
  PROVE  Layout(SigprocHeader(h), TRUE, h)
<1> DEFINE n == TableLen(h)
<1>1. n \in Nat
  BY TableLenNat
<1>2. PICK A, B, C, D, E, F, N, T, Z :
        /\ A = put_string("HEADER_START") /\ B = put_string("rawdatafile")
        /\ C = put_string(h.Rawdatafile) /\ D = put_string("source_name")
        /\ E = put_string(h.Source_name)
        /\ F = PutFields(h, SigprocKeys) /\ N = put_value("nsamples", 0)
        /\ T = FrequencyTable(h) /\ Z = put_string("HEADER_END")
  OBVIOUS
<1>3. /\ ItemsOK(A, 1) /\ A[1] = String("HEADER_START")
      /\ ItemsOK(B, 1) /\ B[1] = String("rawdatafile")
      /\ ItemsOK(D, 1) /\ D[1] = String("source_name")
      /\ ItemsOK(Z, 1) /\ Z[1] = String("HEADER_END")
  BY <1>2, KeywordIs DEF Keywords
<1>4. /\ ItemsOK(C, 1) /\ C[1] = String(h.Rawdatafile)
      /\ ItemsOK(E, 1) /\ E[1] = String(h.Source_name)
  <2>1. Len(h.Source_name) \in Nat /\ Len(h.Rawdatafile) \in Nat
    BY StringLengths DEF Header
  <2> QED BY <1>2, <2>1, StringIs
<1>5. ItemsOK(T, n) /\ TableIs(T, 0, h)
  BY <1>2, TableOK
<1>6. ItemsOK(F, 24) /\ FieldsAre(F, 0, h, SigprocKeys, 12)
  <2>1. SigprocKeys \in [1 .. 12 -> Fields]
    BY KeysAre DEF Keys, NumKeys
  <2>2. PutsFields(F, h, SigprocKeys, 12)
    <3>1. PICK m \in Nat : m = 12 /\ m # 0
      OBVIOUS
    <3>2. SigprocKeys \in [1 .. m -> Fields]
      BY ONLY <2>1, <3>1
    <3>3. PutsFields(PutFields(h, SigprocKeys), h, SigprocKeys, m)
      BY ONLY <3>1, <3>2, PutFieldsIs
    <3> QED BY <1>2, <3>1, <3>3
  <2> QED BY <2>2 DEF PutsFields
<1>24. ItemsOK(N, 2) /\ N[1] = String("nsamples") /\ N[2] = Value("nsamples", 0)
  BY <1>2, ValueIs
<1>7. PICK P, Q, R, U, V, W, X, Y :
        /\ P = A \o B /\ Q = P \o C /\ R = Q \o D /\ U = R \o E
        /\ V = U \o F /\ W = V \o N /\ X = W \o T /\ Y = X \o Z
  OBVIOUS
<1>8. SigprocHeader(h) = Y
  BY <1>2, <1>7 DEF SigprocHeader
<1> HIDE DEF n
<1>9. ItemsOK(P, 2) /\ Joined(P, A, 1, B, 1)
  <2>1. ItemsOK(P, 1 + 1) /\ Joined(P, A, 1, B, 1)
    BY ONLY <1>3, <1>7, CatOK
  <2> QED BY <2>1
<1>10. ItemsOK(Q, 3) /\ Joined(Q, P, 2, C, 1)
  <2>1. ItemsOK(Q, 2 + 1) /\ Joined(Q, P, 2, C, 1)
    BY ONLY <1>4, <1>9, <1>7, CatOK
  <2> QED BY <2>1
<1>11. ItemsOK(R, 4) /\ Joined(R, Q, 3, D, 1)
  <2>1. ItemsOK(R, 3 + 1) /\ Joined(R, Q, 3, D, 1)
    BY ONLY <1>3, <1>10, <1>7, CatOK
  <2> QED BY <2>1
<1>12. ItemsOK(U, 5) /\ Joined(U, R, 4, E, 1)
  <2>1. ItemsOK(U, 4 + 1) /\ Joined(U, R, 4, E, 1)
    BY ONLY <1>4, <1>11, <1>7, CatOK
  <2> QED BY <2>1
<1>13. ItemsOK(V, 29) /\ Joined(V, U, 5, F, 24)
  <2>1. ItemsOK(V, 5 + 24) /\ Joined(V, U, 5, F, 24)
    BY ONLY <1>6, <1>12, <1>7, CatOK
  <2> QED BY <2>1
<1>14. ItemsOK(W, 31) /\ Joined(W, V, 29, N, 2)
  <2>1. ItemsOK(W, 29 + 2) /\ Joined(W, V, 29, N, 2)
    BY ONLY <1>13, <1>24, <1>7, CatOK
  <2> QED BY <2>1
<1>15. ItemsOK(X, 31 + n) /\ Joined(X, W, 31, T, n)
  BY ONLY <1>5, <1>14, <1>7, CatOK
<1>16. ItemsOK(Y, 31 + n + 1) /\ Joined(Y, X, 31 + n, Z, 1)
  BY ONLY <1>3, <1>15, <1>7, CatOK
<1>17. W[1] = A[1] /\ W[2] = B[1] /\ W[3] = C[1] /\ W[4] = D[1] /\ W[5] = E[1]
  <2>1. P[1] = A[1] /\ P[2] = B[1]
    BY <1>9 DEF Joined
  <2>2. Q[1] = P[1] /\ Q[2] = P[2] /\ Q[3] = C[1]
    BY <1>10 DEF Joined
  <2>3. R[1] = Q[1] /\ R[2] = Q[2] /\ R[3] = Q[3] /\ R[4] = D[1]
    BY <1>11 DEF Joined
  <2>4. \A i \in 1 .. 4 : U[i] = R[i]
    BY <1>12 DEF Joined
  <2>5. U[5] = E[1]
    BY <1>12 DEF Joined
  <2>6. \A i \in 1 .. 5 : V[i] = U[i]
    BY <1>13 DEF Joined
  <2>7. \A i \in 1 .. 29 : W[i] = V[i]
    BY <1>14 DEF Joined
  <2>8. \A i \in 1 .. 5 : W[i] = U[i]
    BY ONLY <2>6, <2>7
  <2> QED BY ONLY <2>1, <2>2, <2>3, <2>4, <2>5, <2>8
<1>18. W[30] = N[1] /\ W[31] = N[2]
  BY <1>14 DEF Joined
<1>19. \A i \in 1 .. 31 : Y[i] = W[i]
  <2>1. \A i \in 1 .. 31 : i \in 1 .. 31 + n
    BY <1>1
  <2>2. \A i \in 1 .. 31 : X[i] = W[i]
    BY ONLY <1>15 DEF Joined
  <2>3. \A i \in 1 .. 31 : Y[i] = X[i]
    BY ONLY <1>16, <2>1 DEF Joined
  <2> QED BY ONLY <2>2, <2>3
<1>20. TableIs(Y, 31, h)
  <2>1. Same(X, 31, T, n)
    BY <1>15, SameRight
  <2>2. Same(Y, 31, T, n)
    BY <1>1, <1>16, <2>1, SameLeft
  <2> QED BY <1>5, <2>2, TableThere DEF n
<1>21. FieldsAre(Y, 5, h, SigprocKeys, 12)
  <2>1. Same(V, 5, F, 24)
    BY <1>13, SameRight
  <2>2. Same(W, 5, F, 24)
    BY <1>14, <2>1, SameLeft
  <2>3. Same(Y, 5, F, 2 * 12)
    <3>1. \A i \in 1 .. 24 : 5 + i \in 1 .. 31
      OBVIOUS
    <3>2. \A i \in 1 .. 24 : Y[5 + i] = F[i]
      BY <1>19, <2>2, <3>1 DEF Same
    <3>3. 2 * 12 = 24
      OBVIOUS
    <3> QED BY ONLY <3>2, <3>3 DEF Same
  <2> QED BY <1>6, <2>3, FieldsThere
<1>22. Y[32 + n] = Z[1] /\ ItemsOK(Y, 32 + n)
  <2>1. Y[31 + n + 1] = Z[1]
    BY ONLY <1>16, 1 \in 1 .. 1 DEF Joined
  <2>2. 31 + n + 1 = 32 + n
    BY <1>1
  <2> QED BY <1>16, <2>1, <2>2
<1>23. /\ Y[1] = String("HEADER_START") /\ Y[2] = String("rawdatafile")
       /\ Y[3] = String(h.Rawdatafile) /\ Y[4] = String("source_name")
       /\ Y[5] = String(h.Source_name)
       /\ Y[30] = String("nsamples") /\ Y[31] = Value("nsamples", 0)
       /\ Y[32 + n] = String("HEADER_END")
  <2>1. /\ 1 \in 1 .. 31 /\ 2 \in 1 .. 31 /\ 3 \in 1 .. 31 /\ 4 \in 1 .. 31
        /\ 5 \in 1 .. 31 /\ 30 \in 1 .. 31 /\ 31 \in 1 .. 31
    OBVIOUS
  <2> QED BY ONLY <1>3, <1>4, <1>17, <1>18, <1>19, <1>22, <1>24, <2>1
<1>25. /\ NameAt(TRUE) - 1 = 4 /\ NameAt(TRUE) = 5 /\ TableAt(TRUE) = 31
       /\ FieldsAt(TRUE, h) = 5 /\ Keys(TRUE) = SigprocKeys /\ NumKeys(TRUE) = 12
       /\ Size(TRUE, h) = 32 + n
  BY DEF NameAt, TableAt, FieldsAt, Keys, NumKeys, Size, n
<1> QED BY ONLY <1>8, <1>20, <1>21, <1>22, <1>23, <1>25 DEF Layout

LEMMA LayoutIs ==
  ASSUME NEW s \in BOOLEAN, NEW h, Header(h)
  PROVE  Layout(Written(s, h), s, h)
BY OwnLayout, SigprocLayout DEF Written

-----------------------------------------------------------------------------
(* The inductive invariant.                                                *)

Int32s == -(I32 \div 2) .. (I32 \div 2) - 1

(* An object, whatever was read into it.                                   *)
ObjOK(o) ==
  /\ o = [Source_name |-> o.Source_name, Rawdatafile |-> o.Rawdatafile,
          UseFrequencyTable |-> o.UseFrequencyTable, Headersize |-> o.Headersize,
          Nsamples |-> o.Nsamples, frequency_table |-> o.frequency_table, field |-> o.field]
  /\ o.Source_name \in AllNames /\ o.Rawdatafile \in AllNames
  /\ o.UseFrequencyTable \in BOOLEAN
  /\ o.Nsamples \in Int32s
  /\ o.frequency_table = [i \in 0 .. MaxChans - 1 |-> o.frequency_table[i]]
  /\ o.field = [k \in Fields |-> o.field[k]]
  /\ o.field["nchans"] \in {Garbage} \cup Nat
  /\ o.field["nifs"] \in {Garbage} \cup (Nat \ {0})
  /\ o.field["nbits"] = Garbage \/ (o.field["nbits"] \in Nat \ {0} /\ o.field["nbits"] % 8 = 0)

(* What a program that stopped inside an item left of it.                  *)
Damaged(i, s) ==
  /\ disk.items[i].text = IF BadLength(Written(s, origin)[i].text)
                          THEN Written(s, origin)[i].text ELSE Torn
  /\ disk.items[i].value = Garbage
  /\ disk.items[i].bytes = Written(s, origin)[i].bytes

(* The file is the header of origin, in one of the two orders, whole or    *)
(* cut off.                                                                *)
FileIs(s) ==
  /\ Header(origin)
  /\ s => origin.Rawdatafile \in RawNames
  /\ IsSeq(disk.items, Len(disk.items)) /\ Len(disk.items) <= Size(s, origin)
  /\ \A i \in 1 .. Len(disk.items) :
       \/ disk.items[i] = Written(s, origin)[i]
       \/ ~disk.whole /\ i = Len(disk.items) /\ Damaged(i, s)
  /\ disk.whole \in BOOLEAN /\ disk.size \in Nat
  /\ disk.whole =>
       /\ Len(disk.items) = Size(s, origin)
       /\ disk.samples \in Nat
       /\ disk.size = HeaderBytes(Written(s, origin)) + BytesOfSamples(origin, disk.samples)
  /\ ~disk.whole /\ Len(disk.items) = Size(s, origin) => Damaged(Len(disk.items), s)

(* Where the reader stops between two turns of its loop.                   *)
Stop(s) ==
  \/ pos \in 1 .. NameAt(s)
  \/ HasTable(origin) /\ \E j \in 0 .. origin.field["nchans"] : pos = TableAt(s) + 1 + 2 * j
  \/ \E j \in 0 .. NumKeys(s) : pos = FieldsAt(s, origin) + 2 * j
  \/ s /\ pos \in {31, Size(s, origin) - 1}

NameRead(s) == pos >= NameAt(s)

(* What the name is taken for.                                             *)
NameHeard ==
  CASE origin.Source_name = "" -> "ERROR"
    [] origin.Source_name \in Marks \ {"HEADER_START"} -> before.Source_name
    [] OTHER -> origin.Source_name

Expected(s) ==
  IF NameRead(s)
  THEN IF origin.Source_name \in Marks \ {"HEADER_START"}
       THEN {"source_name"} \cup ({origin.Source_name} \cap {"rawdatafile"})
       ELSE {}
  ELSE IF pos = NameAt(s) - 1 THEN {"source_name"}
  ELSE IF s /\ pos = 2 THEN {"rawdatafile"} ELSE {}

NamesRead(s) ==
  /\ expecting = Expected(s)
  /\ fil.Source_name = IF NameRead(s) THEN NameHeard ELSE before.Source_name
  /\ fil.Rawdatafile = IF s /\ pos >= 3 THEN origin.Rawdatafile ELSE before.Rawdatafile
  /\ s /\ pos >= 3 => Len(origin.Rawdatafile) < NameSize
  /\ NameRead(s) => Len(origin.Source_name) < NameSize

TableRead(s) ==
  /\ channel_index <= MaxChans
  /\ fil.UseFrequencyTable = (\/ before.UseFrequencyTable
                              \/ NameRead(s) /\ origin.Source_name = "FREQUENCY_START"
                              \/ HasTable(origin) /\ pos > TableAt(s))
  /\ IF HasTable(origin) /\ pos > TableAt(s)
     THEN /\ channel_index \in 0 .. origin.field["nchans"]
          /\ \/ pos = TableAt(s) + 1 + 2 * channel_index
             \/ /\ pos > TableAt(s) + 1 + 2 * channel_index
                /\ channel_index = origin.field["nchans"]
     ELSE channel_index = 0
  /\ \A i \in 0 .. MaxChans - 1 :
       fil.frequency_table[i] = IF i < channel_index THEN origin.frequency_table[i]
                                ELSE before.frequency_table[i]

(* In the order of the sigproc programs, the table makes these zero.       *)
Zeroed(s) == IF s /\ HasTable(origin) /\ pos > TableAt(s) + 1 THEN {"fch1", "foff"} ELSE {}

FieldsRead(s) ==
  /\ ~NameRead(s) => fil.field = before.field
  /\ \A k \in Fields :
       (\A j \in 1 .. NumKeys(s) : Keys(s)[j] # k) => fil.field[k] = before.field[k]
  /\ \A j \in 1 .. NumKeys(s) :
       pos >= FieldsAt(s, origin) + 2 * j =>
         fil.field[Keys(s)[j]] = IF Keys(s)[j] \in Zeroed(s) THEN 0
                                 ELSE origin.field[Keys(s)[j]]

BytesRead(s) ==
  intTotalHeaderBytes = Bytes(Written(s, origin), pos)
                          + (IF NameRead(s) /\ origin.Source_name = "" THEN 5 ELSE 0)

(* The reader is in step with the items.                                   *)
InStep(s) ==
  /\ lost = FALSE /\ Stop(s) /\ pos <= Len(disk.items) /\ pos < Size(s, origin)
  /\ \A i \in 1 .. pos : disk.items[i] = Written(s, origin)[i]
  /\ NameRead(s) => ~Long(origin.Source_name) /\ ~NamedEnd
  /\ NamesRead(s) /\ TableRead(s) /\ FieldsRead(s) /\ BytesRead(s)

NoEnd == NamedEnd => \A i \in DOMAIN disk.items : disk.items[i].text # "HEADER_END"

(* It will not find the end of the header: the file ends before, or the    *)
(* name was too long.                                                      *)
OutOfStep ==
  \/ lost = FALSE /\ pos = Len(disk.items) /\ ~disk.whole /\ NoEnd
  \/ lost = TRUE /\ expecting = {} /\ Long(origin.Source_name) /\ ~NamedEnd

AtStart ==
  /\ pos = 0 /\ lost = FALSE /\ expecting = {} /\ channel_index = 0 /\ intTotalHeaderBytes = 0
  /\ rd_pc = "start" => fil = before

Reading(s) ==
  /\ rd_pc \in {"idle", "start"} => AtStart
  /\ rd_pc = "loop" => InStep(s) \/ OutOfStep

(* What ReadInHeader returned, as the properties tell it.                  *)
Results ==
  /\ TrueIffComplete /\ OverrunExplained /\ ReadBack /\ TableExplained /\ SamplesExact

HeaderInv ==
  /\ FilTypeOK /\ Results
  /\ ObjOK(fil) /\ ObjOK(before)
  /\ files = 0 => rd_pc = "idle" /\ AtStart
  /\ files > 0 => \E s \in BOOLEAN : FileIs(s) /\ Reading(s)

-----------------------------------------------------------------------------
(* The reader in step with the items.                                      *)

LEMMA Setting ==
  ASSUME NEW s \in BOOLEAN, Header(origin)
  PROVE  /\ Layout(Written(s, origin), s, origin)
         /\ TableLen(origin) \in Nat /\ Size(s, origin) \in Nat
         /\ origin.field["nchans"] \in Nat /\ origin.field["nchans"] > 0
         /\ HasTable(origin) => TableLen(origin) = 2 * origin.field["nchans"] + 2
         /\ ~HasTable(origin) => TableLen(origin) = 0
<1>1. Layout(Written(s, origin), s, origin)
  BY LayoutIs
<1>2. /\ TableLen(origin) \in Nat
      /\ HasTable(origin) => TableLen(origin) = 2 * origin.field["nchans"] + 2
      /\ ~HasTable(origin) => TableLen(origin) = 0
      /\ origin.field["nchans"] \in Nat /\ origin.field["nchans"] > 0
  BY TableLenNat
<1>3. Size(s, origin) \in Nat
  BY <1>2 DEF Size
<1> QED BY ONLY <1>1, <1>2, <1>3

BytesAdd(w, n) == \A p \in Nat : p < n =>
  /\ Bytes(w, p) \in Nat /\ w[p + 1].bytes \in Nat
  /\ Bytes(w, p + 1) = Bytes(w, p) + w[p + 1].bytes

LEMMA BytesGrow ==
  ASSUME NEW s \in BOOLEAN, Header(origin)
  PROVE  /\ BytesAdd(Written(s, origin), Size(s, origin))
         /\ Bytes(Written(s, origin), 0) = 0
         /\ HeaderBytes(Written(s, origin)) = Bytes(Written(s, origin), Size(s, origin))
<1> DEFINE w == Written(s, origin)
           n == Size(s, origin)
<1>1. n \in Nat /\ ItemsOK(w, n)
  BY Setting DEF Layout
<1> HIDE DEF w, n
<1>2. HasBytes(w, 1 .. n) /\ DOMAIN w = 1 .. n
  BY <1>1, LenIs DEF ItemsOK
<1>3. \A p \in 0 .. n : /\ Bytes(w, p) \in Nat
                        /\ p = 0 => Bytes(w, p) = 0
                        /\ p > 0 => Bytes(w, p) = Bytes(w, p - 1) + w[p].bytes
  BY <1>1, <1>2, BytesNext
<1>4. BytesAdd(w, n)
  <2> SUFFICES ASSUME NEW p \in Nat, p < n
               PROVE  /\ Bytes(w, p) \in Nat /\ w[p + 1].bytes \in Nat
                      /\ Bytes(w, p + 1) = Bytes(w, p) + w[p + 1].bytes
    BY DEF BytesAdd
  <2>1. PICK q \in 1 .. n : q = p + 1 /\ q - 1 = p /\ q > 0
    BY <1>1
  <2>2. p \in 0 .. n /\ q \in 0 .. n
    BY <1>1, <2>1
  <2>3. Bytes(w, q) = Bytes(w, p) + w[q].bytes /\ Bytes(w, p) \in Nat
    BY <1>3, <2>1, <2>2
  <2>4. w[q].bytes \in Nat
    BY <1>2 DEF HasBytes
  <2> QED BY <2>1, <2>3, <2>4
<1>5. HeaderBytes(w) = Bytes(w, n)
  BY <1>1, <1>2, HeaderBytesIs
<1>6. Bytes(w, 0) = 0
  BY <1>1, <1>3
<1> QED BY <1>4, <1>5, <1>6 DEF w, n

(* A string of a length that is accepted.                                  *)
LEMMA Heard ==
  ASSUME ~lost, NEW t, disk.items[pos + 1].text = t, Len(t) \in 1 .. MaxString
  PROVE  strtmp = t /\ (get_string => pos' = pos + 1 /\ lost' = FALSE)
<1>1. MaxString \in Nat
  BY StringLengths
<1>2. ~BadLength(t)
  BY ONLY <1>1, Len(t) \in 1 .. MaxString DEF BadLength
<1> QED BY <1>2 DEF strtmp, get_string

(* Which part of the loop takes a string.                                  *)
LEMMA Acts ==
  ASSUME ReadInHeader, rd_pc = "loop", ~AtEnd
  PROVE  /\ strtmp \in {"rawdatafile", "source_name"} => ReadMark
         /\ strtmp = "FREQUENCY_START" => ReadFrequencyStart
         /\ strtmp = "FREQUENCY_END" => ReadFrequencyEnd
         /\ strtmp = "fchannel" => ReadChannel
         /\ strtmp \in Fields => ReadValue
         /\ strtmp = "nsamples" => ReadNsamples
         /\ strtmp = "HEADER_END" => ReadHeaderEnd
         /\ strtmp \notin Keywords \ {"HEADER_START"} /\ expecting # {} => ReadName
         /\ strtmp \notin Keywords \ {"HEADER_START"} /\ expecting = {} => ReadUnknown
<1>1. \/ ReadHeaderEnd \/ ReadMark \/ ReadFrequencyStart \/ ReadFrequencyEnd \/ ReadChannel
      \/ ReadValue \/ ReadNsamples \/ ReadName \/ ReadUnknown
  BY DEF ReadInHeader, ReadEof, ReadStart
<1>2. /\ ReadHeaderEnd => strtmp = "HEADER_END"
      /\ ReadMark => strtmp \in {"rawdatafile", "source_name"}
      /\ ReadFrequencyStart => strtmp = "FREQUENCY_START"
      /\ ReadFrequencyEnd => strtmp = "FREQUENCY_END"
      /\ ReadChannel => strtmp = "fchannel"
      /\ ReadValue => strtmp \in Fields
      /\ ReadNsamples => strtmp = "nsamples"
      /\ ReadName => strtmp \notin Keywords \ {"HEADER_START"} /\ expecting # {}
      /\ ReadUnknown => strtmp \notin Keywords \ {"HEADER_START"} /\ expecting = {}
  BY DEF ReadHeaderEnd, ReadMark, ReadFrequencyStart, ReadFrequencyEnd, ReadChannel, ReadValue,
         ReadNsamples, ReadName, ReadUnknown
<1> DEFINE t == strtmp
<1> HIDE DEF t
<1>3. /\ t \in Fields => t \in Keywords \ {"HEADER_START"}
      /\ t \in Fields => t \notin {"rawdatafile", "source_name", "FREQUENCY_START", "FREQUENCY_END",
                                   "fchannel", "nsamples", "HEADER_END"}
      /\ t \in {"rawdatafile", "source_name", "FREQUENCY_START", "FREQUENCY_END",
                "fchannel", "nsamples", "HEADER_END"} => t \in Keywords \ {"HEADER_START"}
  BY DEF Keywords, Fields, Doubles, Ints
<1> QED BY <1>1, <1>2, <1>3 DEF t

-----------------------------------------------------------------------------
(* Files.                                                                  *)

LEMMA CutItems ==
  ASSUME NEW w, NEW n \in Nat, NEW torn \in BOOLEAN, NEW i \in 1 .. n
  PROVE  /\ torn /\ i = n => /\ CutOff(w, n, torn)[i].text = IF BadLength(w[i].text)
                                                             THEN w[i].text ELSE Torn
                             /\ CutOff(w, n, torn)[i].value = Garbage
                             /\ CutOff(w, n, torn)[i].bytes = w[i].bytes
         /\ ~(torn /\ i = n) => CutOff(w, n, torn)[i] = w[i]
BY DEF CutOff

Ready == rd_pc = "idle" /\ files > 0 /\ AtStart /\ \E s \in BOOLEAN : FileIs(s)

LEMMA SizeNat ==
  ASSUME NEW s \in BOOLEAN, NEW h, Header(h)
  PROVE  /\ Size(s, h) \in Nat /\ IsSeq(Written(s, h), Size(s, h))
         /\ Len(Written(s, h)) = Size(s, h) /\ HeaderBytes(Written(s, h)) \in Nat
<1> DEFINE w == Written(s, h)
           n == Size(s, h)
<1>1. ItemsOK(w, n)
  BY LayoutIs DEF Layout
<1> HIDE DEF w, n
<1>2. n \in Nat /\ IsSeq(w, n) /\ HasBytes(w, 1 .. n)
  BY <1>1 DEF ItemsOK, IsSeq
<1>3. Len(w) = n /\ DOMAIN w = 1 .. n
  BY <1>2, LenIs
<1>4. HeaderBytes(w) = Bytes(w, n) /\ Bytes(w, n) \in Nat
  <2>1. n \in 0 .. n
    BY <1>2
  <2> QED BY <1>2, <1>3, <2>1, HeaderBytesIs, BytesNext
<1> QED BY <1>2, <1>3, <1>4 DEF w, n

LEMMA DataNat ==
  ASSUME NEW h, Header(h), NEW n \in Nat
  PROVE  BytesOfSamples(h, n) \in Nat
<1>1. PICK a \in Nat, b \in Nat, c \in Nat :
        a = h.field["nchans"] /\ b = h.field["nifs"] /\ c = h.field["nbits"]
  BY Bounds DEF Header
<1>2. n * a * b * c \in Nat
  <2>1. PICK x \in Nat : x = n * a
    OBVIOUS
  <2>2. PICK y \in Nat : y = x * b
    OBVIOUS
  <2>3. y * c \in Nat
    OBVIOUS
  <2> QED BY <2>1, <2>2, <2>3
<1>3. (n * a * b * c) \div 8 \in Nat
  BY <1>2
<1> QED BY <1>1, <1>3 DEF BytesOfSamples

LEMMA NewFile ==
  ASSUME NEW s \in BOOLEAN, NEW h, Header(h), s => h.Rawdatafile \in RawNames,
         PutFile(h, Written(s, h)), files \in Nat
  PROVE  Ready'
<1> DEFINE w == Written(s, h)
           n == Size(s, h)
<1>1. n \in Nat /\ IsSeq(w, n) /\ Len(w) = n /\ HeaderBytes(w) \in Nat
  BY SizeNat
<1>2. /\ origin' = h /\ files' = files + 1 /\ rd_pc' = "idle" /\ NoLocals
      /\ \/ \E m \in SampleCounts :
              disk' = [items |-> w, whole |-> TRUE, samples |-> m,
                       size |-> HeaderBytes(w) + BytesOfSamples(h, m)]
         \/ \E m \in 0 .. Len(w), torn \in BOOLEAN :
              /\ m < Len(w) \/ torn
              /\ disk' = [items |-> CutOff(w, m, torn), whole |-> FALSE,
                          samples |-> 0, size |-> 0]
  BY Zenon DEF PutFile
<1> HIDE DEF w, n
<1>3. files' > 0 /\ AtStart' /\ rd_pc' = "idle"
  BY <1>2 DEF AtStart, NoLocals
<1>4. FileIs(s)'
  <2>1. ASSUME NEW m \in SampleCounts,
               disk' = [items |-> w, whole |-> TRUE, samples |-> m,
                        size |-> HeaderBytes(w) + BytesOfSamples(h, m)]
        PROVE  FileIs(s)'
    <3>1. m \in Nat /\ BytesOfSamples(h, m) \in Nat
      BY Bounds, DataNat
    <3>2. PICK d : d = disk' /\ d.items = w /\ d.whole = TRUE /\ d.samples = m
                   /\ d.size = HeaderBytes(w) + BytesOfSamples(h, m)
      BY <2>1
    <3>3. HeaderBytes(w) + BytesOfSamples(h, m) \in Nat
      BY <1>1, <3>1
    <3>4. Len(d.items) = n /\ n <= n
      BY <1>1, <3>2
    <3> QED BY <1>1, <1>2, <3>1, <3>2, <3>3, <3>4, Zenon DEF FileIs, w, n
  <2>2. ASSUME NEW m \in 0 .. Len(w), NEW torn \in BOOLEAN, m < Len(w) \/ torn,
               disk' = [items |-> CutOff(w, m, torn), whole |-> FALSE, samples |-> 0, size |-> 0]
        PROVE  FileIs(s)'
    <3>1. m \in Nat /\ m <= n /\ (m = n => torn) /\ 0 \in Nat
      BY <1>1, <2>2
    <3>2. PICK v : v = CutOff(w, m, torn)
      OBVIOUS
    <3>3. PICK d : d = disk' /\ d.items = v /\ d.whole = FALSE /\ d.size = 0
      BY <2>2, <3>2
    <3>4. IsSeq(v, m)
      BY <3>1, <3>2 DEF CutOff, IsSeq
    <3>5. Len(v) = m
      BY <3>4, LenIs
    <3>6. ASSUME NEW i \in 1 .. m
          PROVE  \/ v[i] = w[i]
                 \/ /\ i = m /\ v[i].value = Garbage /\ v[i].bytes = w[i].bytes
                    /\ v[i].text = IF BadLength(w[i].text) THEN w[i].text ELSE Torn
      BY <3>1, <3>2, CutItems
    <3>7. ASSUME m = n
          PROVE  /\ v[m].value = Garbage /\ v[m].bytes = w[m].bytes
                 /\ v[m].text = IF BadLength(w[m].text) THEN w[m].text ELSE Torn
      <4>1. m \in 1 .. m
        <5>1. n > 0
          BY TableLenNat DEF Size, n
        <5> QED BY <3>1, <3>7, <5>1
      <4>2. torn /\ m = m
        BY <3>1, <3>7
      <4> QED BY ONLY <3>1, <3>2, <4>1, <4>2, CutItems, torn \in BOOLEAN
    <3> QED BY <1>1, <1>2, <3>1, <3>3, <3>4, <3>5, <3>6, <3>7 DEF FileIs, Damaged, w, n
  <2> QED BY <1>2, <2>1, <2>2
<1> QED BY <1>3, <1>4 DEF Ready

(* Whatever is written is a header, an object just read included.          *)
LEMMA RunHeader == Header(WriteHeader)
<1> DEFINE f == WriteHeader.field
<1>1. f["nchans"] = 1 /\ f["nbits"] = 8 /\ f["nifs"] = 1
  BY DEF WriteHeader, FilterBankData, Fields, Doubles, Ints
<1>2. /\ WriteHeader.Source_name = "TianLai_Test" /\ WriteHeader.Rawdatafile = "J0000-0000"
      /\ WriteHeader.UseFrequencyTable = FALSE
  BY DEF WriteHeader, FilterBankData
<1> HIDE DEF f
<1>3. f["nchans"] \in Nat \ {0}
  BY <1>1
<1>4. 8 \in Nat \ {0} /\ 8 % 8 = 0 /\ 1 \in Nat \ {0}
  OBVIOUS
<1> QED BY <1>1, <1>2, <1>3, <1>4, Zenon DEF Header, AllNames, OwnNames, f

LEMMA UserHeaderIs ==
  ASSUME NEW n \in Nat \ {0}, NEW h \in UserHeaders(n)
  PROVE  Header(h) /\ h.Rawdatafile \in RawNames
<1>1. PICK u \in Users : h = UserHeader(n, u)
  BY DEF UserHeaders
<1>2. u.name \in Names /\ u.raw \in RawNames /\ u.chans \in Nat \ {0}
  <2>1. u.chans \in Nat \ {0}
    BY FilAssumption, Zenon
  <2> QED BY <2>1 DEF Names, RawNames
<1>3. /\ h.Source_name = u.name /\ h.Rawdatafile = u.raw
      /\ h.UseFrequencyTable = (u.channels = "table")
      /\ h.field = [k \in Fields |->
                 CASE k = "fch1" -> IF u.channels = "zeros" THEN 0 ELSE 700 + n
                   [] k = "foff" -> IF u.channels = "zeros" THEN 0 ELSE -n
                   [] k = "nchans" -> u.chans
                   [] k = "nbits" -> 8 * n
                   [] OTHER -> n]
  BY <1>1 DEF UserHeader, FilterBankData
<1>4. /\ h.field["nchans"] = u.chans /\ h.field["nbits"] = 8 * n
      /\ h.field["nifs"] = n
  BY <1>3 DEF Fields, Doubles, Ints
<1>5. 8 * n \in Nat \ {0} /\ (8 * n) % 8 = 0
  OBVIOUS
<1>6. h.UseFrequencyTable \in BOOLEAN
  BY <1>3
<1> QED BY <1>2, <1>3, <1>4, <1>5, <1>6, Zenon DEF Header, AllNames

LEMMA CopiedHeader ==
  ASSUME NEW o, ObjOK(o), \A k \in {"nchans", "nbits", "nifs"} : o.field[k] > 0
  PROVE  Header(o)
<1>1. PICK a, b, c : a = o.field["nchans"] /\ b = o.field["nbits"] /\ c = o.field["nifs"]
  OBVIOUS
<1>2. a > 0 /\ b > 0 /\ c > 0
  BY <1>1
<1>3. ~(Garbage > 0)
  BY DEF Garbage
<1>4. /\ a \in {Garbage} \cup Nat /\ c \in {Garbage} \cup (Nat \ {0})
      /\ b = Garbage \/ (b \in Nat \ {0} /\ b % 8 = 0)
  BY <1>1 DEF ObjOK
<1>5. a \in Nat \ {0} /\ b \in Nat \ {0} /\ b % 8 = 0 /\ c \in Nat \ {0}
  BY <1>2, <1>3, <1>4, Bounds
<1> QED BY <1>1, <1>5 DEF Header, ObjOK

LEMMA Writers ==
  ASSUME WriteFile \/ ForeignFile, ObjOK(fil), files \in Nat
  PROVE  Ready' /\ UNCHANGED <<fil, before>> /\ files' \in 1 .. MaxFiles
<1>1. \E s \in BOOLEAN : \E h : /\ Header(h) /\ (s => h.Rawdatafile \in RawNames)
                                 /\ PutFile(h, Written(s, h))
  <2>1. CASE PutFile(WriteHeader, WriteHeaderToFile(WriteHeader))
    BY <2>1, RunHeader DEF Written
  <2>2. CASE \E h \in UserHeaders(files + 1) :
               Fits(h) /\ PutFile(h, WriteHeaderToFile(h))
    <3>1. PICK h \in UserHeaders(files + 1) : PutFile(h, WriteHeaderToFile(h))
      BY <2>2
    <3>2. Header(h)
      <4>1. files + 1 \in Nat \ {0}
        OBVIOUS
      <4> QED BY ONLY <4>1, h \in UserHeaders(files + 1), UserHeaderIs
    <3> QED BY <3>1, <3>2 DEF Written
  <2>3. CASE /\ \A k \in {"nchans", "nbits", "nifs"} : fil.field[k] > 0
             /\ Fits(fil)
             /\ PutFile(fil, WriteHeaderToFile(fil))
    BY <2>3, CopiedHeader DEF Written
  <2>4. CASE \E h \in UserHeaders(files + 1) : PutFile(h, SigprocHeader(h))
    <3>1. PICK h \in UserHeaders(files + 1) : PutFile(h, SigprocHeader(h))
      BY <2>4
    <3>2. Header(h) /\ h.Rawdatafile \in RawNames
      <4>1. files + 1 \in Nat \ {0}
        OBVIOUS
      <4> QED BY ONLY <4>1, h \in UserHeaders(files + 1), UserHeaderIs
    <3> QED BY <3>1, <3>2 DEF Written
  <2> QED BY <2>1, <2>2, <2>3, <2>4 DEF WriteFile, ForeignFile
<1>2. PICK s \in BOOLEAN : \E h : /\ Header(h) /\ (s => h.Rawdatafile \in RawNames)
                                   /\ PutFile(h, Written(s, h))
  BY <1>1
<1>3. Ready'
  BY <1>2, NewFile
<1>4. UNCHANGED <<fil, before>> /\ files < MaxFiles /\ files' = files + 1
  BY <1>2 DEF PutFile
<1>5. files' \in 1 .. MaxFiles
  BY <1>4, Bounds
<1> QED BY <1>3, <1>4, <1>5

-----------------------------------------------------------------------------
(* One turn of the loop.                                                   *)

W(s) == Written(s, origin)
Chans == origin.field["nchans"]

(* The next item is in the file as it was written.                         *)
Ahead(s) == pos + 1 <= Len(disk.items) /\ disk.items[pos + 1] = W(s)[pos + 1]

Stays == disk' = disk /\ origin' = origin /\ files' = files /\ before' = before

ReaderOK ==
  /\ pos \in 0 .. Len(disk.items) /\ lost \in BOOLEAN
  /\ expecting \subseteq {"rawdatafile", "source_name"}
  /\ channel_index \in Nat /\ intTotalHeaderBytes \in Nat

Going(s) ==
  /\ rd_pc = "loop" /\ FileIs(s) /\ InStep(s) /\ ReaderOK
  /\ ObjOK(fil) /\ ObjOK(before)

(* What a turn leads to, if it does not end the reading.                   *)
Turned(s) == /\ Stays /\ rd_pc' = "loop" /\ ReaderOK' /\ ObjOK(fil)'
             /\ InStep(s)' \/ OutOfStep'

PosNat == \A s \in BOOLEAN : FileIs(s) /\ InStep(s) =>
  /\ pos \in Nat /\ pos >= 1 /\ pos <= Len(disk.items) /\ pos < Size(s, origin)
  /\ Len(disk.items) \in Nat /\ Size(s, origin) \in Nat

LEMMA PosIsNat == PosNat
<1> SUFFICES ASSUME NEW s \in BOOLEAN, FileIs(s), InStep(s)
             PROVE  /\ pos \in Nat /\ pos >= 1
                    /\ pos <= Len(disk.items) /\ pos < Size(s, origin)
                    /\ Len(disk.items) \in Nat /\ Size(s, origin) \in Nat
  BY DEF PosNat
<1>1. Header(origin) /\ Len(disk.items) \in Nat
  <2>1. IsSeq(disk.items, Len(disk.items))
    BY DEF FileIs
  <2> QED BY <2>1 DEF FileIs, IsSeq
<1>2. TableLen(origin) \in Nat /\ Size(s, origin) \in Nat
  BY <1>1, Setting
<1>3. Stop(s) /\ pos <= Len(disk.items) /\ pos < Size(s, origin)
  BY DEF InStep
<1>4. pos \in Nat /\ pos >= 1
  <2>1. CASE pos \in 1 .. NameAt(s)
    BY <2>1 DEF NameAt
  <2>2. CASE \E j \in 0 .. Chans : pos = TableAt(s) + 1 + 2 * j
    BY <2>2 DEF TableAt
  <2>3. CASE \E j \in 0 .. NumKeys(s) : pos = FieldsAt(s, origin) + 2 * j
    <3>1. FieldsAt(s, origin) \in Nat /\ FieldsAt(s, origin) >= 1
      BY <1>2 DEF FieldsAt
    <3> QED BY <2>3, <3>1 DEF NumKeys
  <2>4. CASE s /\ pos \in {31, Size(s, origin) - 1}
    <3>1. Size(s, origin) >= 32
      BY <1>2 DEF Size
    <3>2. pos = 31 \/ pos = Size(s, origin) - 1
      BY <2>4
    <3> QED BY <1>2, <3>1, <3>2
  <2> QED BY <1>3, <2>1, <2>2, <2>3, <2>4 DEF Stop, Chans
<1> QED BY <1>1, <1>2, <1>3, <1>4

InStepOK == \A s \in BOOLEAN : FileIs(s) /\ InStep(s) => ReaderOK

LEMMA InStepReader == InStepOK
<1> SUFFICES ASSUME NEW s \in BOOLEAN, FileIs(s), InStep(s) PROVE ReaderOK
  BY DEF InStepOK
<1>1. /\ pos \in Nat /\ pos <= Len(disk.items) /\ Len(disk.items) \in Nat
      /\ pos < Size(s, origin) /\ Size(s, origin) \in Nat
  BY PosIsNat DEF PosNat
<1>2. lost = FALSE /\ expecting \subseteq {"rawdatafile", "source_name"}
  <2>1. expecting = Expected(s) /\ lost = FALSE
    BY DEF InStep, NamesRead
  <2>2. Expected(s) \subseteq {"rawdatafile", "source_name"}
    BY DEF Expected
  <2> QED BY <2>1, <2>2
<1>3. channel_index \in Nat
  <2>1. channel_index \in 0 .. origin.field["nchans"] \/ channel_index = 0
    BY DEF InStep, TableRead
  <2> QED BY <2>1
<1>4. intTotalHeaderBytes \in Nat
  <2>1. Bytes(Written(s, origin), pos) \in Nat
    BY <1>1, BytesGrow DEF FileIs, BytesAdd
  <2>2. \A b \in Nat : b + 5 \in Nat /\ b + 0 \in Nat
    OBVIOUS
  <2>3. intTotalHeaderBytes = Bytes(Written(s, origin), pos) + 5
          \/ intTotalHeaderBytes = Bytes(Written(s, origin), pos) + 0
    BY DEF InStep, BytesRead
  <2> QED BY ONLY <2>1, <2>2, <2>3
<1>5. pos \in 0 .. Len(disk.items)
  BY ONLY <1>1
<1>6. lost \in BOOLEAN
  BY <1>2, Zenon
<1> QED BY ONLY <1>2, <1>3, <1>4, <1>5, <1>6 DEF ReaderOK

AsWritten(s, p) == \A i \in 1 .. p : disk.items[i] = W(s)[i]

(* A string without a value, of a length that is accepted.                 *)
OnePast(s) ==
  /\ pos' = pos + 1 /\ lost' = FALSE
  /\ intTotalHeaderBytes' = intTotalHeaderBytes + W(s)[pos + 1].bytes

Adding == \A a \in Nat, b \in Nat, c \in Nat : a + b + 4 + c = a + (4 + b) + c /\ a + b + 4 + 0 = a + (4 + b)

LEMMA AddingIs == Adding
BY DEF Adding

LEMMA OneItem ==
  ASSUME NEW s \in BOOLEAN, NEW t, FileIs(s), InStep(s), Ahead(s),
         W(s)[pos + 1] = String(t), Len(t) \in 1 .. MaxString
  PROVE  /\ strtmp = t /\ ~AtEnd
         /\ AsWritten(s, pos + 1)
         /\ get_string /\ CountString(0) => OnePast(s)
<1>1. /\ pos \in Nat /\ pos + 1 <= Len(disk.items) /\ lost = FALSE /\ Len(disk.items) \in Nat
      /\ intTotalHeaderBytes \in Nat
  <2>1. intTotalHeaderBytes \in Nat
    BY InStepReader DEF InStepOK, ReaderOK
  <2> QED BY <2>1, PosIsNat DEF PosNat, Ahead, InStep
<1>2. disk.items[pos + 1] = String(t)
  BY DEF Ahead
<1>3. String(t).text = t /\ String(t).bytes = 4 + Len(t)
  BY DEF String
<1>4. disk.items[pos + 1].text = t
  BY ONLY <1>2, <1>3
<1>5. strtmp = t /\ (get_string => pos' = pos + 1 /\ lost' = FALSE)
  <2>1. ~lost
    BY <1>1
  <2> QED BY ONLY <1>4, <2>1, Heard, Len(t) \in 1 .. MaxString
<1>6. ~AtEnd
  BY ONLY <1>1 DEF AtEnd
<1>7. AsWritten(s, pos + 1)
  <2>1. \A i \in 1 .. pos : disk.items[i] = W(s)[i]
    BY DEF InStep, W
  <2>2. disk.items[pos + 1] = W(s)[pos + 1]
    BY DEF Ahead
  <2>3. \A i \in 1 .. pos + 1 : i \in 1 .. pos \/ i = pos + 1
    BY <1>1
  <2> QED BY ONLY <2>1, <2>2, <2>3 DEF AsWritten
<1>8. CountString(0) => intTotalHeaderBytes' = intTotalHeaderBytes + W(s)[pos + 1].bytes
  <2>1. PICK n \in Nat : n = Len(t)
    <3>1. MaxString \in Nat
      BY StringLengths
    <3>2. Len(t) \in Nat
      BY ONLY <3>1, Len(t) \in 1 .. MaxString
    <3> QED BY ONLY <3>2
  <2>2. W(s)[pos + 1].bytes = 4 + n
    BY <1>3, <2>1
  <2>3. CountString(0) => intTotalHeaderBytes' = intTotalHeaderBytes + n + 4 + 0
    BY <1>5, <2>1, Zenon DEF CountString
  <2>4. intTotalHeaderBytes + n + 4 + 0 = intTotalHeaderBytes + (4 + n)
    BY ONLY <1>1, <2>1, AddingIs DEF Adding
  <2> QED BY ONLY <2>2, <2>3, <2>4
<1> QED BY ONLY <1>5, <1>6, <1>7, <1>8 DEF OnePast

(* A keyword and its value.                                                *)
TwoPast(s, v) ==
  /\ pos + 2 <= Len(disk.items) /\ AsWritten(s, pos + 2)
  /\ pos' = pos + 2 /\ lost' = FALSE
  /\ intTotalHeaderBytes' = intTotalHeaderBytes + W(s)[pos + 1].bytes + W(s)[pos + 2].bytes
  /\ \A old : get_value(old) = v

(* The end of the file comes before the end of the value.                  *)
CutPast ==
  /\ ~disk.whole /\ pos' = Len(disk.items) /\ lost' = FALSE
  /\ intTotalHeaderBytes' \in Nat
  /\ \A old : get_value(old) \in {old, Garbage}

LEMMA TwoItems ==
  ASSUME NEW s \in BOOLEAN, NEW t, NEW v, FileIs(s), InStep(s), Ahead(s),
         W(s)[pos + 1] = String(t), Len(t) \in 1 .. MaxString,
         t \in Fields \cup {"fchannel", "nsamples"},
         W(s)[pos + 2] = Value(t, v), pos + 2 <= Size(s, origin),
         SkipValue, CountString(SizeOf[t])
  PROVE  TwoPast(s, v) \/ CutPast
<1>1. /\ pos \in Nat /\ pos + 1 <= Len(disk.items) /\ Len(disk.items) \in Nat
      /\ intTotalHeaderBytes \in Nat
  <2>1. intTotalHeaderBytes \in Nat
    BY InStepReader DEF InStepOK, ReaderOK
  <2> QED BY <2>1, PosIsNat DEF PosNat, Ahead, InStep
<1>2. strtmp = t /\ AsWritten(s, pos + 1)
  BY OneItem
<1>3. PICK n \in Nat, k \in Nat : n = Len(t) /\ k = SizeOf[t]
  <2>1. MaxString \in Nat
    BY StringLengths
  <2>2. Len(t) \in Nat
    BY ONLY <2>1, Len(t) \in 1 .. MaxString
  <2>3. SizeOf[t] \in Nat
    BY DEF SizeOf
  <2> QED BY ONLY <2>2, <2>3
<1>4. /\ W(s)[pos + 1].bytes = 4 + n /\ W(s)[pos + 2].bytes = k
      /\ W(s)[pos + 2].value = v
  <2>1. String(t).bytes = 4 + Len(t)
    BY DEF String
  <2>2. Value(t, v).bytes = SizeOf[t] /\ Value(t, v).value = v
    BY DEF Value
  <2> QED BY ONLY <1>3, <2>1, <2>2, W(s)[pos + 1] = String(t), W(s)[pos + 2] = Value(t, v)
<1>5. intTotalHeaderBytes' = intTotalHeaderBytes + n + 4 + k
  BY <1>2, <1>3, Zenon DEF CountString
<1>6. intTotalHeaderBytes' = intTotalHeaderBytes + (4 + n) + k
  <2>1. intTotalHeaderBytes + n + 4 + k = intTotalHeaderBytes + (4 + n) + k
    BY ONLY <1>1, <1>3, AddingIs DEF Adding
  <2> QED BY ONLY <1>5, <2>1
<1>7. lost' = FALSE /\ pos' = IF pos + 2 <= Len(disk.items) THEN pos + 2 ELSE pos + 1
  BY DEF SkipValue, HasValue
<1>8. CASE pos + 2 <= Len(disk.items) /\ disk.items[pos + 2] = W(s)[pos + 2]
  <2>1. AsWritten(s, pos + 2)
    <3>1. \A i \in 1 .. pos + 2 : i \in 1 .. pos + 1 \/ i = pos + 2
      BY <1>1
    <3> QED BY ONLY <1>2, <1>8, <3>1 DEF AsWritten
  <2>2. \A old : get_value(old) = v
    BY <1>4, <1>8, Zenon DEF get_value, HasValue
  <2> QED BY ONLY <1>4, <1>6, <1>7, <1>8, <2>1, <2>2 DEF TwoPast
<1>9. intTotalHeaderBytes' \in Nat
  BY ONLY <1>1, <1>3, <1>6
<1>10. CASE pos + 2 <= Len(disk.items) /\ disk.items[pos + 2] # W(s)[pos + 2]
  <2>1. pos + 2 \in 1 .. Len(disk.items)
    BY ONLY <1>1, <1>10
  <2>2. ~disk.whole /\ pos + 2 = Len(disk.items) /\ Damaged(pos + 2, s)
    BY ONLY <1>10, <2>1, FileIs(s) DEF FileIs, W
  <2>3. disk.items[pos + 2].value = Garbage
    BY ONLY <2>2 DEF Damaged
  <2>4. \A old : get_value(old) \in {old, Garbage}
    BY ONLY <1>10, <2>3, Zenon DEF get_value, HasValue
  <2> QED BY ONLY <1>7, <1>9, <1>10, <2>2, <2>4 DEF CutPast
<1>11. CASE ~(pos + 2 <= Len(disk.items))
  <2>1. pos + 1 = Len(disk.items)
    BY ONLY <1>1, <1>11
  <2>2. ~disk.whole
    BY ONLY <1>1, <1>11, <2>1, FileIs(s), pos + 2 <= Size(s, origin) DEF FileIs
  <2>3. \A old : get_value(old) \in {old, Garbage}
    BY ONLY <1>11, Zenon DEF get_value, HasValue
  <2> QED BY ONLY <1>7, <1>9, <1>11, <2>1, <2>2, <2>3 DEF CutPast
<1> QED BY ONLY <1>8, <1>10, <1>11

(* What a turn that stays in step has to show.                             *)
LEMMA Onward ==
  ASSUME NEW s \in BOOLEAN, Going(s), Stays, rd_pc' = "loop", lost' = FALSE,
         NEW p, pos' = p, p <= Len(disk.items), p < Size(s, origin), AsWritten(s, p),
         ObjOK(fil)', Stop(s)', NameRead(s)' => ~Long(origin.Source_name) /\ ~NamedEnd,
         NamesRead(s)', TableRead(s)', FieldsRead(s)', BytesRead(s)'
  PROVE  Turned(s)
<1>1. FileIs(s)'
  BY Zenon DEF Going, FileIs, Damaged, Stays
<1>2. InStep(s)'
  <2>1. disk' = disk /\ origin' = origin
    BY DEF Stays
  <2>2. \A i \in 1 .. p : disk.items[i] = Written(s, origin)[i]
    BY DEF AsWritten, W
  <2>3. (NamedEnd <=> NamedEnd') /\ NamedEnd' = NamedEnd
    BY <2>1 DEF NamedEnd
  <2> QED BY <2>1, <2>2, <2>3 DEF InStep
<1>3. ReaderOK'
  <2>1. InStepOK'
    BY InStepReader, PTL
  <2> QED BY ONLY <1>1, <1>2, <2>1, s \in BOOLEAN DEF InStepOK
<1> QED BY <1>2, <1>3 DEF Turned

(* A value that the file does not have, or not all of it.                  *)
LEMMA CutTurn ==
  ASSUME NEW s \in BOOLEAN, Going(s), NameRead(s), CutPast, Stays, rd_pc' = "loop",
         expecting' = expecting, channel_index' \in Nat, ObjOK(fil)'
  PROVE  Turned(s)
<1>1. ~NamedEnd /\ Len(disk.items) \in Nat /\ expecting \subseteq {"rawdatafile", "source_name"}
  BY PosIsNat DEF Going, InStep, PosNat, ReaderOK
<1>2. pos' = Len(disk.items) /\ lost' = FALSE /\ ~disk.whole /\ intTotalHeaderBytes' \in Nat
  BY DEF CutPast
<1>3. disk' = disk /\ origin' = origin
  BY DEF Stays
<1>4. OutOfStep'
  <2>1. NoEnd'
    BY <1>1, <1>3 DEF NoEnd, NamedEnd
  <2> QED BY <1>2, <1>3, <2>1 DEF OutOfStep
<1>5. ReaderOK'
  <2>1. Len(disk.items) \in 0 .. Len(disk.items)
    BY ONLY <1>1
  <2>2. pos' \in 0 .. Len(disk'.items)
    BY ONLY <1>2, <1>3, <2>1
  <2>3. lost' \in BOOLEAN
    BY <1>2, Zenon
  <2> QED BY <1>1, <1>2, <2>2, <2>3, Zenon DEF ReaderOK
<1> QED BY <1>4, <1>5 DEF Turned

LEMMA BytesOn ==
  ASSUME NEW s \in BOOLEAN, Going(s), Stays,
         \/ /\ pos' = pos + 1 /\ pos + 1 <= Size(s, origin)
            /\ intTotalHeaderBytes' = intTotalHeaderBytes + W(s)[pos + 1].bytes
         \/ /\ pos' = pos + 2 /\ pos + 2 <= Size(s, origin)
            /\ intTotalHeaderBytes' = intTotalHeaderBytes + W(s)[pos + 1].bytes
                                                           + W(s)[pos + 2].bytes,
         (NameRead(s)' <=> NameRead(s)) \/ origin.Source_name # ""
  PROVE  BytesRead(s)'
<1>1. /\ pos \in Nat /\ pos + 1 \in Nat /\ pos + 1 + 1 = pos + 2
      /\ Size(s, origin) \in Nat /\ pos < Size(s, origin)
  <2>1. pos \in Nat /\ Size(s, origin) \in Nat /\ pos < Size(s, origin)
    BY PosIsNat DEF Going, PosNat
  <2> QED BY ONLY <2>1
<1>2. BytesAdd(W(s), Size(s, origin))
  BY BytesGrow DEF Going, FileIs, W
<1>3. PICK x : x = IF NameRead(s) /\ origin.Source_name = "" THEN 5 ELSE 0
  OBVIOUS
<1>4. x \in Nat /\ intTotalHeaderBytes = Bytes(W(s), pos) + x
  BY <1>3 DEF Going, InStep, BytesRead, W
<1>5. origin' = origin /\ x = IF NameRead(s)' /\ origin'.Source_name = "" THEN 5 ELSE 0
  BY <1>3 DEF Stays
<1>6. CASE /\ pos' = pos + 1 /\ pos + 1 <= Size(s, origin)
           /\ intTotalHeaderBytes' = intTotalHeaderBytes + W(s)[pos + 1].bytes
  <2>1. PICK b \in Nat, c \in Nat : /\ b = Bytes(W(s), pos) /\ c = W(s)[pos + 1].bytes
                                    /\ Bytes(W(s), pos + 1) = b + c
    BY ONLY <1>1, <1>2 DEF BytesAdd
  <2>2. intTotalHeaderBytes' = (b + c) + x
    BY ONLY <1>4, <1>6, <2>1
  <2> QED BY ONLY <1>5, <1>6, <2>1, <2>2 DEF BytesRead, W
<1>7. CASE /\ pos' = pos + 2 /\ pos + 2 <= Size(s, origin)
           /\ intTotalHeaderBytes' = intTotalHeaderBytes + W(s)[pos + 1].bytes
                                                         + W(s)[pos + 2].bytes
  <2>1. PICK b \in Nat, c \in Nat : /\ b = Bytes(W(s), pos) /\ c = W(s)[pos + 1].bytes
                                    /\ Bytes(W(s), pos + 1) = b + c
    BY ONLY <1>1, <1>2 DEF BytesAdd
  <2>2. PICK d \in Nat : d = W(s)[pos + 2].bytes /\ Bytes(W(s), pos + 2) = b + c + d
    <3>1. pos + 1 < Size(s, origin)
      BY ONLY <1>1, <1>7
    <3>2. /\ Bytes(W(s), pos + 1 + 1) = Bytes(W(s), pos + 1) + W(s)[pos + 1 + 1].bytes
          /\ W(s)[pos + 1 + 1].bytes \in Nat
      BY ONLY <1>1, <1>2, <3>1 DEF BytesAdd
    <3> QED BY ONLY <1>1, <2>1, <3>2
  <2>3. intTotalHeaderBytes' = (b + c + d) + x
    BY ONLY <1>4, <1>7, <2>1, <2>2
  <2> QED BY ONLY <1>5, <1>7, <2>2, <2>3 DEF BytesRead, W
<1> QED BY <1>6, <1>7

LEMMA NamesKept ==
  ASSUME NEW s \in BOOLEAN, NamesRead(s), NameRead(s), Stays, pos \in Nat, pos' \in Nat,
         pos' >= pos, expecting' = expecting,
         fil'.Source_name = fil.Source_name, fil'.Rawdatafile = fil.Rawdatafile
  PROVE  NamesRead(s)' /\ NameRead(s)'
<1>1. NameRead(s)'
  BY DEF NameRead, NameAt
<1>2. origin' = origin /\ before' = before
  BY DEF Stays
<1>3. Expected(s)' = Expected(s)
  BY <1>1, <1>2 DEF Expected
<1>4. NameHeard' = NameHeard
  BY <1>2 DEF NameHeard
<1>5. (s /\ pos >= 3 <=> s /\ pos' >= 3)
  <2>1. pos >= NameAt(s)
    BY DEF NameRead
  <2> QED BY <2>1 DEF NameAt
<1>6. /\ fil'.Rawdatafile = IF s /\ pos' >= 3 THEN origin'.Rawdatafile ELSE before'.Rawdatafile
      /\ s /\ pos' >= 3 => Len(origin'.Rawdatafile) < NameSize
      /\ NameRead(s)' => Len(origin'.Source_name) < NameSize
  BY <1>2, <1>5 DEF NamesRead
<1>7. fil'.Source_name = IF NameRead(s)' THEN NameHeard' ELSE before'.Source_name
  BY <1>1, <1>2, <1>4 DEF NamesRead
<1> QED BY <1>1, <1>3, <1>6, <1>7 DEF NamesRead

LEMMA TableKept ==
  ASSUME NEW s \in BOOLEAN, TableRead(s), NameRead(s), Stays, Header(origin),
         pos \in Nat, pos' \in Nat, pos' >= pos,
         \/ ~HasTable(origin)
         \/ pos' <= TableAt(s)
         \/ pos > TableAt(s) + 1 + 2 * Chans,
         fil'.UseFrequencyTable = fil.UseFrequencyTable,
         fil'.frequency_table = fil.frequency_table, channel_index' = channel_index
  PROVE  TableRead(s)'
<1>1. origin' = origin /\ before' = before /\ Chans' = Chans
  BY DEF Stays, Chans
<1>2. NameRead(s)'
  BY DEF NameRead, NameAt
<1>3. PICK a \in Nat : a = TableAt(s)
  BY DEF TableAt
<1>4. Chans \in Nat /\ Chans > 0
  BY Setting DEF Chans
<1>5. HasTable(origin) /\ pos > TableAt(s) <=> HasTable(origin) /\ pos' > TableAt(s)
  BY <1>3, <1>4
<1>6. fil'.UseFrequencyTable = (\/ before'.UseFrequencyTable
                                \/ NameRead(s)' /\ origin'.Source_name = "FREQUENCY_START"
                                \/ HasTable(origin') /\ pos' > TableAt(s))
  BY <1>1, <1>2, <1>5 DEF TableRead
<1>7. ASSUME HasTable(origin), pos' > TableAt(s)
      PROVE  /\ channel_index \in 0 .. Chans
             /\ pos' > TableAt(s) + 1 + 2 * channel_index /\ channel_index = Chans
  <2>1. pos > a + 1 + 2 * Chans /\ pos > TableAt(s)
    BY <1>3, <1>5, <1>7
  <2>2. /\ channel_index \in 0 .. Chans
        /\ \/ pos = a + 1 + 2 * channel_index
           \/ channel_index = Chans
    BY <1>3, <1>7, <2>1 DEF TableRead, Chans
  <2>3. channel_index = Chans
    BY <1>4, <2>1, <2>2
  <2> QED BY <1>3, <1>4, <2>1, <2>2, <2>3
<1>8. ~(HasTable(origin) /\ pos' > TableAt(s)) => channel_index = 0
  BY <1>5 DEF TableRead
<1>9. \A i \in 0 .. MaxChans - 1 :
        fil'.frequency_table[i] = IF i < channel_index' THEN origin'.frequency_table[i]
                                  ELSE before'.frequency_table[i]
  BY <1>1 DEF TableRead
<1> QED BY <1>1, <1>6, <1>7, <1>8, <1>9 DEF TableRead, Chans

(* Fields an object may have after reading.                                *)
FieldOK(k, x) ==
  /\ k = "nchans" => x \in {Garbage} \cup Nat
  /\ k = "nifs" => x \in {Garbage} \cup (Nat \ {0})
  /\ k = "nbits" => x = Garbage \/ (x \in Nat \ {0} /\ x % 8 = 0)

ObjIs(o, p, g) ==
  /\ ObjOK(p) /\ p.field = g /\ p.Source_name = o.Source_name
  /\ p.Rawdatafile = o.Rawdatafile /\ p.UseFrequencyTable = o.UseFrequencyTable
  /\ p.frequency_table = o.frequency_table

LEMMA ObjField ==
  ASSUME NEW o, ObjOK(o), NEW k \in Fields, NEW x, FieldOK(k, x)
  PROVE  ObjIs(o, [o EXCEPT !.field[k] = x], [o.field EXCEPT ![k] = x])
<1> DEFINE p == [o EXCEPT !.field[k] = x]
<1>1. PICK a, b, c, d, e, f, g :
        o = [Source_name |-> a, Rawdatafile |-> b, UseFrequencyTable |-> c, Headersize |-> d,
             Nsamples |-> e, frequency_table |-> f, field |-> g]
  BY DEF ObjOK
<1>2. PICK h : h = [g EXCEPT ![k] = x]
  OBVIOUS
<1>3. p = [Source_name |-> a, Rawdatafile |-> b, UseFrequencyTable |-> c, Headersize |-> d,
           Nsamples |-> e, frequency_table |-> f, field |-> h]
  BY <1>1, <1>2
<1>4. /\ a \in AllNames /\ b \in AllNames /\ c \in BOOLEAN /\ e \in Int32s
      /\ f = [i \in 0 .. MaxChans - 1 |-> f[i]]
      /\ g = [i \in Fields |-> g[i]]
      /\ FieldOK("nchans", g["nchans"]) /\ FieldOK("nifs", g["nifs"])
      /\ FieldOK("nbits", g["nbits"])
  BY <1>1 DEF ObjOK, FieldOK
<1>5. h = [i \in Fields |-> h[i]] /\ \A i \in Fields : h[i] = IF i = k THEN x ELSE g[i]
  BY <1>2, <1>4
<1>6. FieldOK("nchans", h["nchans"]) /\ FieldOK("nifs", h["nifs"]) /\ FieldOK("nbits", h["nbits"])
  <2>1. "nchans" \in Fields /\ "nifs" \in Fields /\ "nbits" \in Fields
    BY DEF Fields, Ints
  <2> QED BY <1>4, <1>5, <2>1
<1> HIDE DEF p
<1>7. /\ p.Source_name = a /\ p.Rawdatafile = b /\ p.UseFrequencyTable = c /\ p.Headersize = d
      /\ p.Nsamples = e /\ p.frequency_table = f /\ p.field = h
      /\ o.Source_name = a /\ o.Rawdatafile = b /\ o.UseFrequencyTable = c
      /\ o.frequency_table = f /\ o.field = g
  BY <1>1, <1>3
<1>8. ObjOK(p)
  BY ONLY <1>3, <1>4, <1>5, <1>6, <1>7 DEF ObjOK, FieldOK
<1> QED BY <1>2, <1>7, <1>8 DEF p, ObjIs

(* Where the jth field is.                                                 *)
FieldAhead(s, j) == j \in 1 .. NumKeys(s) /\ pos = FieldsAt(s, origin) + 2 * j - 2

LEMMA FieldPlace ==
  ASSUME NEW s \in BOOLEAN, Header(origin), NEW j, FieldAhead(s, j)
  PROVE  /\ pos \in Nat /\ j \in 1 .. NumKeys(s) /\ pos + 2 = FieldsAt(s, origin) + 2 * j
         /\ pos + 2 < Size(s, origin) /\ NameRead(s)
         /\ W(s)[pos + 1] = String(Keys(s)[j])
         /\ W(s)[pos + 2] = Value(Keys(s)[j], origin.field[Keys(s)[j]])
         /\ s => pos + 2 <= 29
         /\ \/ ~HasTable(origin) \/ pos + 2 <= TableAt(s)
            \/ pos > TableAt(s) + 1 + 2 * Chans
<1>1. PICK n \in Nat, c \in Nat : /\ n = TableLen(origin) /\ c = Chans
                                  /\ HasTable(origin) => n = 2 * c + 2
  BY Setting DEF Chans
<1>2. PICK f \in Nat : f = FieldsAt(s, origin) /\ f = (IF s THEN 5 ELSE 3 + n)
  BY <1>1 DEF FieldsAt
<1>3. j \in Nat /\ j >= 1 /\ j <= (IF s THEN 12 ELSE 18) /\ pos = f + 2 * j - 2
  BY <1>2 DEF FieldAhead, NumKeys
<1>4. pos \in Nat /\ pos + 2 = f + 2 * j /\ pos + 1 = f + 2 * j - 1
  BY <1>3
<1>5. pos + 2 < Size(s, origin)
  BY <1>1, <1>2, <1>3, <1>4 DEF Size
<1>6. NameRead(s)
  BY <1>1, <1>2, <1>3, <1>4 DEF NameRead, NameAt
<1>7. s => pos + 2 <= 29
  BY <1>2, <1>3, <1>4
<1>8. /\ W(s)[f + 2 * j - 1] = String(Keys(s)[j])
      /\ W(s)[f + 2 * j] = Value(Keys(s)[j], origin.field[Keys(s)[j]])
  <2>1. FieldsAre(W(s), f, origin, Keys(s), NumKeys(s))
    BY <1>2, Setting DEF Layout, W
  <2>2. j \in 1 .. NumKeys(s)
    BY DEF FieldAhead
  <2> QED BY ONLY <2>1, <2>2 DEF FieldsAre
<1>9. \/ ~HasTable(origin) \/ pos + 2 <= TableAt(s) \/ pos > TableAt(s) + 1 + 2 * Chans
  BY <1>1, <1>2, <1>3, <1>4 DEF TableAt
<1> QED BY ONLY <1>2, <1>4, <1>5, <1>6, <1>7, <1>8, <1>9, FieldAhead(s, j) DEF FieldAhead

LEMMA TakeField ==
  ASSUME NEW s \in BOOLEAN, Going(s), Ahead(s), NEW j, FieldAhead(s, j), ReadInHeader
  PROVE  Turned(s)
<1> DEFINE t == Keys(s)[j]
           v == origin.field[t]
<1>1. Header(origin) /\ FileIs(s) /\ InStep(s) /\ rd_pc = "loop" /\ ObjOK(fil)
  BY DEF Going, FileIs
<1>2. /\ pos \in Nat /\ j \in 1 .. NumKeys(s) /\ pos + 2 = FieldsAt(s, origin) + 2 * j
      /\ pos + 2 < Size(s, origin) /\ NameRead(s) /\ Size(s, origin) \in Nat
      /\ W(s)[pos + 1] = String(t) /\ W(s)[pos + 2] = Value(t, v)
      /\ s => pos + 2 <= 29
      /\ \/ ~HasTable(origin) \/ pos + 2 <= TableAt(s)
         \/ pos > TableAt(s) + 1 + 2 * Chans
  BY <1>1, FieldPlace, Setting
<1>3. t \in Fields
  BY <1>2, KeysAre
<1> HIDE DEF t, v
<1>4. Len(t) \in 1 .. MaxString
  <2>1. t \in Keywords
    BY <1>3 DEF Keywords
  <2> QED BY ONLY <2>1, StringLengths
<1>5. strtmp = t /\ ~AtEnd
  BY ONLY <1>1, <1>2, <1>4, OneItem, s \in BOOLEAN, Ahead(s)
<1>6. ReadValue
  BY ONLY <1>1, <1>3, <1>5, Acts, ReadInHeader
<1>7. /\ SkipValue /\ CountString(SizeOf[t]) /\ rd_pc' = "loop" /\ Stays
      /\ fil' = [fil EXCEPT !.field[t] = get_value(@)]
      /\ expecting' = expecting /\ channel_index' = channel_index
  BY ONLY <1>1, <1>5, <1>6, Zenon DEF ReadValue, InLoop, Stays
<1>8. TwoPast(s, v) \/ CutPast
  <2>1. pos + 2 <= Size(s, origin)
    BY ONLY <1>2
  <2>2. t \in Fields \cup {"fchannel", "nsamples"}
    BY ONLY <1>3
  <2> QED BY ONLY <1>1, <1>2, <1>4, <1>7, <2>1, <2>2, TwoItems, s \in BOOLEAN, Ahead(s)
<1>9. PICK x : x = get_value(fil.field[t]) /\ fil' = [fil EXCEPT !.field[t] = x]
  BY ONLY <1>7
<1>10. ASSUME FieldOK(t, x)
       PROVE  /\ ObjOK(fil)' /\ fil'.field = [fil.field EXCEPT ![t] = x]
              /\ fil'.Source_name = fil.Source_name /\ fil'.Rawdatafile = fil.Rawdatafile
              /\ fil'.UseFrequencyTable = fil.UseFrequencyTable
              /\ fil'.frequency_table = fil.frequency_table
  <2>1. PICK o : o = fil /\ ObjOK(o)
    BY <1>1
  <2>2. PICK p : p = [o EXCEPT !.field[t] = x] /\ p = fil'
    BY <1>9, <2>1
  <2>3. ObjIs(o, p, [o.field EXCEPT ![t] = x])
    BY ONLY <1>3, <1>10, <2>1, <2>2, ObjField
  <2>4. ObjOK(p) => ObjOK(fil)'
    BY ONLY <2>2, Zenon DEF ObjOK
  <2> QED BY ONLY <2>1, <2>2, <2>3, <2>4 DEF ObjIs
<1>11. CASE CutPast
  <2>1. x \in {fil.field[t], Garbage}
    BY ONLY <1>9, <1>11 DEF CutPast
  <2>2. FieldOK(t, x)
    BY ONLY <1>1, <2>1 DEF FieldOK, ObjOK
  <2>3. channel_index' \in Nat
    BY <1>7 DEF Going, ReaderOK
  <2> QED BY ONLY <1>2, <1>7, <1>10, <1>11, <2>2, <2>3, CutTurn, s \in BOOLEAN, Going(s)
<1>12. CASE TwoPast(s, v)
  <2>1. /\ pos + 2 <= Len(disk.items) /\ AsWritten(s, pos + 2)
        /\ pos' = pos + 2 /\ lost' = FALSE /\ x = v
        /\ intTotalHeaderBytes' = intTotalHeaderBytes + W(s)[pos + 1].bytes + W(s)[pos + 2].bytes
    BY ONLY <1>9, <1>12 DEF TwoPast
  <2>2. FieldOK(t, x)
    BY ONLY <1>1, <2>1, Bounds DEF FieldOK, Header, v
  <2>3. pos' \in Nat /\ pos' >= pos
    BY ONLY <1>2, <2>1
  <2>4. NamesRead(s)' /\ NameRead(s)'
    <3>1. NamesRead(s)
      BY <1>1 DEF InStep
    <3> QED BY ONLY <1>2, <1>7, <1>10, <2>2, <2>3, <3>1, NamesKept, s \in BOOLEAN
  <2>5. TableRead(s)'
    <3>1. TableRead(s)
      BY <1>1 DEF InStep
    <3> QED BY ONLY <1>1, <1>2, <1>7, <1>10, <2>1, <2>2, <2>3, <3>1, TableKept, s \in BOOLEAN
  <2>6. Stop(s)'
    <3>1. pos' = FieldsAt(s, origin') + 2 * j /\ j \in 0 .. NumKeys(s)
      BY ONLY <1>2, <1>7, <2>1, s \in BOOLEAN DEF Stays, NumKeys
    <3> QED BY ONLY <3>1 DEF Stop
  <2>7. BytesRead(s)'
    <3>1. pos + 2 <= Size(s, origin) /\ (NameRead(s)' <=> NameRead(s))
      BY ONLY <1>2, <2>4
    <3> QED BY ONLY <1>7, <2>1, <3>1, BytesOn, s \in BOOLEAN, Going(s)
  <2>8. FieldsRead(s)'
    <3>1. /\ fil'.field = [fil.field EXCEPT ![t] = v] /\ origin' = origin /\ before' = before
          /\ fil.field = [k \in Fields |-> fil.field[k]]
      BY <1>1, <1>7, <1>10, <2>1, <2>2 DEF Stays, ObjOK
    <3>2. \A k \in Fields : fil'.field[k] = IF k = t THEN v ELSE fil.field[k]
      BY ONLY <1>3, <3>1
    <3>3. Zeroed(s) = {} /\ Zeroed(s)' = {}
      BY ONLY <1>2, <1>7, <2>1 DEF Zeroed, TableAt, Stays
    <3>4. ASSUME NEW k \in Fields, \A i \in 1 .. NumKeys(s) : Keys(s)[i] # k
          PROVE  fil'.field[k] = before'.field[k]
      <4>1. k # t
        BY <1>2, <3>4 DEF t
      <4>2. fil.field[k] = before.field[k]
        BY ONLY <1>1, <3>4 DEF InStep, FieldsRead
      <4> QED BY ONLY <3>1, <3>2, <4>1, <4>2
    <3>5. ASSUME NEW i \in 1 .. NumKeys(s), pos' >= FieldsAt(s, origin) + 2 * i
          PROVE  fil'.field[Keys(s)[i]] = origin.field[Keys(s)[i]]
      <4>1. Keys(s)[i] \in Fields
        BY KeysAre
      <4>2. CASE Keys(s)[i] = t
        BY ONLY <1>3, <3>2, <4>2 DEF v
      <4>3. CASE Keys(s)[i] # t
        <5>1. i # j
          BY ONLY <4>3 DEF t
        <5>2. pos >= FieldsAt(s, origin) + 2 * i
          <6>1. PICK f \in Nat : f = FieldsAt(s, origin)
            BY <1>1, Setting DEF FieldsAt
          <6>2. i \in Nat /\ j \in Nat
            BY <1>2 DEF NumKeys
          <6> QED BY ONLY <1>2, <2>1, <3>5, <5>1, <6>1, <6>2
        <5>3. fil.field[Keys(s)[i]] = origin.field[Keys(s)[i]]
          BY ONLY <1>1, <3>3, <5>2, i \in 1 .. NumKeys(s) DEF InStep, FieldsRead
        <5> QED BY ONLY <3>2, <4>1, <4>3, <5>3
      <4> QED BY ONLY <4>2, <4>3
    <3> QED BY ONLY <2>4, <3>1, <3>3, <3>4, <3>5 DEF FieldsRead
  <2>9. NameRead(s)' => ~Long(origin.Source_name) /\ ~NamedEnd
    BY <1>1, <1>2 DEF InStep
  <2>10. ObjOK(fil)'
    BY <1>10, <2>2
  <2> QED BY ONLY <1>2, <1>7, <2>1, <2>4, <2>5, <2>6, <2>7, <2>8, <2>9, <2>10, Onward, s \in BOOLEAN, Going(s)
<1> QED BY ONLY <1>8, <1>11, <1>12

LEMMA FieldsKept ==
  ASSUME NEW s \in BOOLEAN, FieldsRead(s), NameRead(s)', Stays, fil'.field = fil.field,
         Zeroed(s)' = Zeroed(s),
         \A i \in 1 .. NumKeys(s) : pos' >= FieldsAt(s, origin) + 2 * i =>
                                      pos >= FieldsAt(s, origin) + 2 * i
  PROVE  FieldsRead(s)'
<1>1. origin' = origin /\ before' = before
  BY DEF Stays
<1> QED BY <1>1 DEF FieldsRead

(* An obsolete field.                                                      *)
LEMMA TakeOld ==
  ASSUME NEW s \in BOOLEAN, Going(s), Ahead(s), s, pos = 29, ReadInHeader
  PROVE  Turned(s)
<1> DEFINE t == "nsamples"
           v == 0
<1>1. Header(origin) /\ FileIs(s) /\ InStep(s) /\ rd_pc = "loop" /\ ObjOK(fil)
  BY DEF Going, FileIs
<1>2. /\ pos + 2 < Size(s, origin) /\ pos + 1 = 30 /\ pos + 2 = 31 /\ NameRead(s)
      /\ Size(s, origin) \in Nat /\ pos \in Nat
      /\ W(s)[pos + 1] = String(t) /\ W(s)[pos + 2] = Value(t, v)
  <2>1. 29 + 1 = 30 /\ 29 + 2 = 31 /\ 29 \in Nat
    OBVIOUS
  <2>2. W(s)[30] = String(t) /\ W(s)[31] = Value(t, v)
    BY <1>1, Setting DEF Layout, W
  <2>3. 31 < Size(s, origin) /\ Size(s, origin) \in Nat
    <3>1. TableLen(origin) \in Nat
      BY <1>1, Setting
    <3> QED BY ONLY <3>1, s DEF Size
  <2>4. NameRead(s)
    BY DEF NameRead, NameAt
  <2> QED BY ONLY <2>1, <2>2, <2>3, <2>4, pos = 29
<1> HIDE DEF t, v
<1>3. t \in Keywords /\ t \in Fields \cup {"fchannel", "nsamples"}
  BY DEF Keywords, t
<1>4. Len(t) \in 1 .. MaxString
  BY ONLY <1>3, StringLengths
<1>5. strtmp = t /\ ~AtEnd
  BY ONLY <1>1, <1>2, <1>4, OneItem, s \in BOOLEAN, Ahead(s)
<1>6. ReadNsamples
  BY ONLY <1>1, <1>5, Acts, ReadInHeader DEF t
<1>7. /\ SkipValue /\ CountString(SizeOf[t]) /\ rd_pc' = "loop" /\ Stays
      /\ fil' = fil /\ expecting' = expecting /\ channel_index' = channel_index
  BY ONLY <1>1, <1>6, Zenon DEF ReadNsamples, InLoop, Stays, t
<1>8. TwoPast(s, v) \/ CutPast
  <2>1. pos + 2 <= Size(s, origin)
    BY ONLY <1>2
  <2> QED BY ONLY <1>1, <1>2, <1>3, <1>4, <1>7, <2>1, TwoItems, s \in BOOLEAN, Ahead(s)
<1>9. ObjOK(fil)' /\ channel_index' \in Nat
  BY <1>1, <1>7 DEF ObjOK, Going, ReaderOK
<1>10. CASE CutPast
  BY ONLY <1>2, <1>7, <1>9, <1>10, CutTurn, s \in BOOLEAN, Going(s)
<1>11. CASE TwoPast(s, v)
  <2>1. /\ pos + 2 <= Len(disk.items) /\ AsWritten(s, pos + 2)
        /\ pos' = pos + 2 /\ lost' = FALSE
        /\ intTotalHeaderBytes' = intTotalHeaderBytes + W(s)[pos + 1].bytes + W(s)[pos + 2].bytes
    BY ONLY <1>11 DEF TwoPast
  <2>2. pos' = 31 /\ pos' \in Nat /\ pos' >= pos /\ pos + 2 <= Size(s, origin)
    BY ONLY <1>2, <2>1
  <2>3. NamesRead(s)' /\ NameRead(s)'
    <3>1. NamesRead(s)
      BY <1>1 DEF InStep
    <3> QED BY ONLY <1>2, <1>7, <2>2, <3>1, NamesKept, s \in BOOLEAN
  <2>4. TableRead(s)'
    <3>1. TableRead(s)
      BY <1>1 DEF InStep
    <3>2. pos' <= TableAt(s)
      BY ONLY <2>2, s DEF TableAt
    <3> QED BY ONLY <1>1, <1>2, <1>7, <2>2, <3>1, <3>2, TableKept, s \in BOOLEAN
  <2>5. Stop(s)'
    BY ONLY <2>2, s DEF Stop
  <2>6. BytesRead(s)'
    BY ONLY <1>2, <1>7, <2>1, <2>2, <2>3, BytesOn, s \in BOOLEAN, Going(s)
  <2>7. FieldsRead(s)'
    <3>1. FieldsRead(s)
      BY <1>1 DEF InStep
    <3>2. Zeroed(s)' = Zeroed(s)
      BY ONLY <2>2, pos = 29, s DEF Zeroed, TableAt
    <3>3. \A i \in 1 .. NumKeys(s) : pos >= FieldsAt(s, origin) + 2 * i
      BY ONLY pos = 29, s DEF NumKeys, FieldsAt
    <3> QED BY ONLY <1>7, <2>3, <3>1, <3>2, <3>3, FieldsKept, s \in BOOLEAN
  <2>8. NameRead(s)' => ~Long(origin.Source_name) /\ ~NamedEnd
    BY <1>1, <1>2 DEF InStep
  <2> QED BY ONLY <1>2, <1>7, <1>9, <2>1, <2>3, <2>4, <2>5, <2>6, <2>7, <2>8, Onward, s \in BOOLEAN, Going(s)
<1> QED BY ONLY <1>8, <1>10, <1>11

(* The channel with the next index.                                        *)
ChannelAhead(s) ==
  /\ HasTable(origin) /\ channel_index \in 0 .. Chans - 1
  /\ pos = TableAt(s) + 1 + 2 * channel_index

ChannelIs(o, p, i, x) ==
  /\ ObjOK(p) /\ p.field = ChannelFields(o.field) /\ p.Source_name = o.Source_name
  /\ p.Rawdatafile = o.Rawdatafile /\ p.UseFrequencyTable = TRUE
  /\ \A k \in 0 .. MaxChans - 1 :
       p.frequency_table[k] = IF k = i THEN x ELSE o.frequency_table[k]

LEMMA ObjChannel ==
  ASSUME NEW o, ObjOK(o), NEW i \in Nat, NEW x
  PROVE  ChannelIs(o, [o EXCEPT !.frequency_table[i] = x, !.field = ChannelFields(@),
                                !.UseFrequencyTable = TRUE], i, x)
<1> DEFINE p == [o EXCEPT !.frequency_table[i] = x, !.field = ChannelFields(@),
                          !.UseFrequencyTable = TRUE]
<1>1. PICK a, b, c, d, e, f, g :
        o = [Source_name |-> a, Rawdatafile |-> b, UseFrequencyTable |-> c, Headersize |-> d,
             Nsamples |-> e, frequency_table |-> f, field |-> g]
  BY DEF ObjOK
<1>2. PICK h, k : h = ChannelFields(g) /\ k = [f EXCEPT ![i] = x]
  OBVIOUS
<1>9. o.field = g /\ o.frequency_table = f
  BY <1>1
<1>10. p = [o EXCEPT !.frequency_table = k, !.field = h, !.UseFrequencyTable = TRUE]
  BY <1>1, <1>2, <1>9
<1> HIDE DEF p
<1>3. p = [Source_name |-> a, Rawdatafile |-> b, UseFrequencyTable |-> TRUE, Headersize |-> d,
           Nsamples |-> e, frequency_table |-> k, field |-> h]
  BY ONLY <1>1, <1>10
<1>4. /\ a \in AllNames /\ b \in AllNames /\ e \in Int32s
      /\ f = [n \in 0 .. MaxChans - 1 |-> f[n]]
      /\ g = [n \in Fields |-> g[n]]
      /\ FieldOK("nchans", g["nchans"]) /\ FieldOK("nifs", g["nifs"])
      /\ FieldOK("nbits", g["nbits"])
  BY <1>1 DEF ObjOK, FieldOK
<1>5. /\ h = [n \in Fields |-> h[n]] /\ h["nchans"] = g["nchans"] /\ h["nifs"] = g["nifs"]
      /\ h["nbits"] = g["nbits"]
  BY <1>2, <1>4 DEF ChannelFields, Fields, Doubles, Ints
<1>6. /\ k = [n \in 0 .. MaxChans - 1 |-> k[n]]
      /\ \A n \in 0 .. MaxChans - 1 : k[n] = IF n = i THEN x ELSE f[n]
  BY <1>2, <1>4
<1>7. /\ p.Source_name = a /\ p.Rawdatafile = b /\ p.UseFrequencyTable = TRUE /\ p.Headersize = d
      /\ p.Nsamples = e /\ p.frequency_table = k /\ p.field = h
      /\ o.Source_name = a /\ o.Rawdatafile = b /\ o.frequency_table = f /\ o.field = g
  BY <1>1, <1>3
<1>8. ObjOK(p)
  BY ONLY <1>3, <1>4, <1>5, <1>6, <1>7 DEF ObjOK, FieldOK
<1> QED BY <1>2, <1>6, <1>7, <1>8 DEF p, ChannelIs

LEMMA ZeroedKeys ==
  ASSUME NEW s \in BOOLEAN
  PROVE  /\ \E i \in 1 .. NumKeys(s) : Keys(s)[i] = "fch1"
         /\ \E i \in 1 .. NumKeys(s) : Keys(s)[i] = "foff"
         /\ \E i \in 1 .. NumKeys(s) : Keys(s)[i] = "nchans"
<1>1. /\ WrittenKeys[7] = "fch1" /\ WrittenKeys[8] = "foff" /\ WrittenKeys[9] = "nchans"
      /\ SigprocKeys[6] = "fch1" /\ SigprocKeys[7] = "foff" /\ SigprocKeys[8] = "nchans"
  BY DEF WrittenKeys, SigprocKeys
<1>2. 6 \in 1 .. 12 /\ 7 \in 1 .. 12 /\ 8 \in 1 .. 12 /\ 7 \in 1 .. 18 /\ 8 \in 1 .. 18 /\ 9 \in 1 .. 18
  OBVIOUS
<1> QED BY ONLY <1>1, <1>2, s \in BOOLEAN DEF Keys, NumKeys

LEMMA ChannelPlace ==
  ASSUME NEW s \in BOOLEAN, Header(origin), ChannelAhead(s), InStep(s)
  PROVE  /\ pos \in Nat /\ pos + 2 < Size(s, origin) /\ Size(s, origin) \in Nat /\ NameRead(s)
         /\ channel_index + 1 \in 0 .. Chans /\ channel_index \in Nat
         /\ pos + 2 = TableAt(s) + 1 + 2 * (channel_index + 1) /\ pos + 2 > TableAt(s) + 1
         /\ W(s)[pos + 1] = String("fchannel")
         /\ W(s)[pos + 2] = Value("fchannel", origin.frequency_table[channel_index])
         /\ s => pos >= 32
         /\ ~s => pos + 2 < FieldsAt(s, origin) + 2
<1>1. PICK c \in Nat : c = Chans /\ c > 0 /\ TableLen(origin) = 2 * c + 2
  BY Setting DEF ChannelAhead, Chans
<1>2. PICK i \in Nat, a \in Nat : /\ i = channel_index /\ i < c /\ a = TableAt(s)
                                  /\ a = (IF s THEN 31 ELSE 3) /\ pos = a + 1 + 2 * i
  BY <1>1 DEF ChannelAhead, TableAt
<1>3. Size(s, origin) = (IF s THEN 32 ELSE 40) + 2 * c + 2
  BY <1>1 DEF Size
<1>4. FieldsAt(s, origin) = (IF s THEN 5 ELSE 3 + 2 * c + 2)
  BY <1>1 DEF FieldsAt
<1>5. /\ W(s)[a + 2 * (i + 1)] = String("fchannel")
      /\ W(s)[a + 2 * (i + 1) + 1] = Value("fchannel", origin.frequency_table[i])
  <2>1. TableIs(W(s), a, origin)
    BY <1>2, Setting DEF Layout, W
  <2>2. PICK j \in 1 .. c : j = i + 1 /\ j - 1 = i
    BY <1>2
  <2>3. \A k \in 1 .. c : /\ W(s)[a + 2 * k] = String("fchannel")
                          /\ W(s)[a + 2 * k + 1] = Value("fchannel", origin.frequency_table[k - 1])
    BY ONLY <1>1, <2>1, ChannelAhead(s) DEF TableIs, Chans, ChannelAhead
  <2> QED BY ONLY <2>2, <2>3
<1>6. pos + 1 = a + 2 * (i + 1) /\ pos + 2 = a + 2 * (i + 1) + 1 /\ pos \in Nat
  BY <1>2
<1>7. NameRead(s)
  BY <1>2 DEF NameRead, NameAt
<1>9. /\ pos + 2 < Size(s, origin) /\ Size(s, origin) \in Nat
      /\ channel_index + 1 \in 0 .. Chans /\ channel_index \in Nat
      /\ pos + 2 = TableAt(s) + 1 + 2 * (channel_index + 1) /\ pos + 2 > TableAt(s) + 1
      /\ s => pos >= 32
      /\ ~s => pos + 2 < FieldsAt(s, origin) + 2
  BY ONLY <1>1, <1>2, <1>3, <1>4, <1>6, s \in BOOLEAN
<1> QED BY ONLY <1>2, <1>5, <1>6, <1>7, <1>9

LEMMA TakeChannel ==
  ASSUME NEW s \in BOOLEAN, Going(s), Ahead(s), ChannelAhead(s), ReadInHeader,
         rd_pc' # "undefined"
  PROVE  Turned(s)
<1> DEFINE t == "fchannel"
           i == channel_index
           v == origin.frequency_table[i]
<1>1. Header(origin) /\ FileIs(s) /\ InStep(s) /\ rd_pc = "loop" /\ ObjOK(fil)
  BY DEF Going, FileIs
<1>2. /\ pos \in Nat /\ pos + 2 < Size(s, origin) /\ Size(s, origin) \in Nat /\ NameRead(s)
      /\ i + 1 \in 0 .. Chans /\ i \in Nat
      /\ pos + 2 = TableAt(s) + 1 + 2 * (i + 1) /\ pos + 2 > TableAt(s) + 1
      /\ W(s)[pos + 1] = String(t) /\ W(s)[pos + 2] = Value(t, v)
      /\ s => pos >= 32
      /\ ~s => pos + 2 < FieldsAt(s, origin) + 2
  BY <1>1, ChannelPlace
<1> HIDE DEF t, v, i
<1>3. t \in Keywords /\ t \in Fields \cup {"fchannel", "nsamples"}
  BY DEF Keywords, t
<1>4. Len(t) \in 1 .. MaxString
  BY ONLY <1>3, StringLengths
<1>5. strtmp = t /\ ~AtEnd
  BY ONLY <1>1, <1>2, <1>4, OneItem, s \in BOOLEAN, Ahead(s)
<1>6. ReadChannel
  BY ONLY <1>1, <1>5, Acts, ReadInHeader DEF t
<1>7. /\ SkipValue /\ CountString(SizeOf[t]) /\ rd_pc' = "loop" /\ Stays
      /\ ~(HasValue /\ i >= MaxChans)
      /\ fil' = [fil EXCEPT !.frequency_table[i] = get_value(@), !.field = ChannelFields(@),
                            !.UseFrequencyTable = TRUE]
      /\ expecting' = expecting /\ channel_index' = i + 1
  <2>1. /\ SkipValue /\ CountString(SizeOf[t]) /\ Stays
        /\ rd_pc' = IF HasValue /\ i >= MaxChans THEN "undefined" ELSE "loop"
        /\ fil' = [fil EXCEPT !.frequency_table[i] = get_value(@), !.field = ChannelFields(@),
                              !.UseFrequencyTable = TRUE]
        /\ expecting' = expecting /\ channel_index' = i + 1
    BY ONLY <1>1, <1>6, Zenon DEF ReadChannel, InLoop, Stays, t, i
  <2> QED BY ONLY <2>1, rd_pc' # "undefined", Zenon
<1>8. TwoPast(s, v) \/ CutPast
  <2>1. pos + 2 <= Size(s, origin)
    BY ONLY <1>2
  <2> QED BY ONLY <1>1, <1>2, <1>3, <1>4, <1>7, <2>1, TwoItems, s \in BOOLEAN, Ahead(s)
<1>9. PICK x : /\ x = get_value(fil.frequency_table[i])
               /\ fil' = [fil EXCEPT !.frequency_table[i] = x, !.field = ChannelFields(@),
                                     !.UseFrequencyTable = TRUE]
  BY ONLY <1>7
<1>10. /\ ObjOK(fil)' /\ fil'.field = ChannelFields(fil.field)
       /\ fil'.Source_name = fil.Source_name /\ fil'.Rawdatafile = fil.Rawdatafile
       /\ fil'.UseFrequencyTable = TRUE
       /\ \A k \in 0 .. MaxChans - 1 :
            fil'.frequency_table[k] = IF k = i THEN x ELSE fil.frequency_table[k]
  <2>1. PICK o : o = fil /\ ObjOK(o)
    BY <1>1
  <2>2. PICK p : /\ p = [o EXCEPT !.frequency_table[i] = x, !.field = ChannelFields(@),
                                  !.UseFrequencyTable = TRUE]
                 /\ p = fil'
    BY <1>9, <2>1
  <2>3. ChannelIs(o, p, i, x)
    <3>1. ChannelIs(o, [o EXCEPT !.frequency_table[i] = x, !.field = ChannelFields(@),
                                 !.UseFrequencyTable = TRUE], i, x)
      BY ONLY <1>2, <2>1, ObjChannel, Zenon
    <3> QED BY ONLY <2>2, <3>1, Zenon
  <2>4. ObjOK(p) => ObjOK(fil)'
    BY ONLY <2>2, Zenon DEF ObjOK
  <2> QED BY ONLY <2>1, <2>2, <2>3, <2>4 DEF ChannelIs
<1>11. channel_index' \in Nat
  BY ONLY <1>2, <1>7
<1>12. CASE CutPast
  BY ONLY <1>2, <1>7, <1>10, <1>11, <1>12, CutTurn, s \in BOOLEAN, Going(s)
<1>13. CASE TwoPast(s, v)
  <2>1. /\ pos + 2 <= Len(disk.items) /\ AsWritten(s, pos + 2)
        /\ pos' = pos + 2 /\ lost' = FALSE /\ x = v
        /\ intTotalHeaderBytes' = intTotalHeaderBytes + W(s)[pos + 1].bytes + W(s)[pos + 2].bytes
    BY ONLY <1>9, <1>13 DEF TwoPast
  <2>2. pos' \in Nat /\ pos' >= pos /\ pos + 2 <= Size(s, origin)
    BY ONLY <1>2, <2>1
  <2>3. NamesRead(s)' /\ NameRead(s)'
    <3>1. NamesRead(s)
      BY <1>1 DEF InStep
    <3> QED BY ONLY <1>2, <1>7, <1>10, <2>2, <3>1, NamesKept, s \in BOOLEAN
  <2>4. HasTable(origin) /\ Chans \in Nat /\ origin' = origin /\ before' = before /\ i \in Nat
    BY <1>1, <1>7, Setting DEF ChannelAhead, Chans, Stays, i
  <2>5. TableRead(s)'
    <3>1. /\ pos' = TableAt(s) + 1 + 2 * channel_index' /\ pos' > TableAt(s)
          /\ channel_index' \in 0 .. Chans /\ channel_index' <= MaxChans
      <4>1. TableAt(s) \in Nat /\ MaxChans \in Nat
        BY Bounds DEF TableAt
      <4>2. ~(i >= MaxChans)
        BY ONLY <1>7, <2>1 DEF HasValue
      <4> QED BY ONLY <1>2, <1>7, <2>1, <2>4, <4>1, <4>2
    <3>2. \A k \in 0 .. MaxChans - 1 :
            fil.frequency_table[k] = IF k < i THEN origin.frequency_table[k]
                                     ELSE before.frequency_table[k]
      BY ONLY <1>1 DEF InStep, TableRead, i
    <3>3. ASSUME NEW k \in 0 .. MaxChans - 1
          PROVE  fil'.frequency_table[k] = IF k < i + 1 THEN origin.frequency_table[k]
                                           ELSE before.frequency_table[k]
      <4>1. CASE k = i
        <5>1. k < i + 1
          BY ONLY <2>4, <4>1
        <5> QED BY ONLY <1>10, <2>1, <4>1, <5>1, k \in 0 .. MaxChans - 1 DEF v
      <4>2. CASE k # i
        <5>1. k < i + 1 <=> k < i
          BY ONLY <2>4, <4>2, k \in 0 .. MaxChans - 1
        <5> QED BY ONLY <1>10, <3>2, <4>2, <5>1, k \in 0 .. MaxChans - 1
      <4> QED BY <4>1, <4>2
    <3> QED BY ONLY <1>7, <1>10, <2>4, <3>1, <3>3 DEF TableRead, Chans
  <2>6. Stop(s)'
    <3>1. pos' = TableAt(s) + 1 + 2 * (i + 1)
      BY ONLY <1>2, <2>1
    <3> QED BY ONLY <1>2, <2>4, <3>1 DEF Stop, Chans
  <2>7. BytesRead(s)'
    BY ONLY <1>2, <1>7, <2>1, <2>2, <2>3, BytesOn, s \in BOOLEAN, Going(s)
  <2>8. FieldsRead(s)'
    <3>1. \A k \in Fields : fil'.field[k] = IF k \in {"fch1", "foff"} THEN 0 ELSE fil.field[k]
      <4>1. fil.field = [k \in Fields |-> fil.field[k]]
        BY <1>1 DEF ObjOK
      <4> QED BY <1>10, <4>1 DEF ChannelFields
    <3>2. ASSUME NEW k \in Fields, \A m \in 1 .. NumKeys(s) : Keys(s)[m] # k
          PROVE  fil'.field[k] = before'.field[k]
      <4>1. k \notin {"fch1", "foff"}
        BY ONLY <3>2, ZeroedKeys, s \in BOOLEAN
      <4>2. fil.field[k] = before.field[k]
        BY ONLY <1>1, <3>2 DEF InStep, FieldsRead
      <4> QED BY ONLY <2>4, <3>1, <4>1, <4>2, k \in Fields
    <3>3. ASSUME NEW m \in 1 .. NumKeys(s), pos' >= FieldsAt(s, origin) + 2 * m
          PROVE  fil'.field[Keys(s)[m]] = IF Keys(s)[m] \in Zeroed(s)' THEN 0
                                          ELSE origin.field[Keys(s)[m]]
      <4>1. m \in Nat /\ m >= 1 /\ m <= NumKeys(s)
        BY DEF NumKeys
      <4>2. s
        <5>1. PICK f \in Nat : f = FieldsAt(s, origin)
          BY <1>1, Setting DEF FieldsAt
        <5> QED BY ONLY <1>2, <2>1, <3>3, <4>1, <5>1, s \in BOOLEAN
      <4>3. pos >= FieldsAt(s, origin) + 2 * m
        BY ONLY <1>2, <4>1, <4>2 DEF FieldsAt, NumKeys
      <4>4. fil.field[Keys(s)[m]] = IF Keys(s)[m] \in Zeroed(s) THEN 0
                                    ELSE origin.field[Keys(s)[m]]
        BY ONLY <1>1, <4>3, m \in 1 .. NumKeys(s) DEF InStep, FieldsRead
      <4>5. Zeroed(s)' = {"fch1", "foff"} /\ Zeroed(s) \subseteq {"fch1", "foff"}
        BY ONLY <1>2, <2>1, <2>4, <4>2 DEF Zeroed
      <4>6. Keys(s)[m] \in Fields
        BY KeysAre
      <4> QED BY ONLY <3>1, <4>4, <4>5, <4>6
    <3> QED BY ONLY <2>3, <2>4, <3>2, <3>3 DEF FieldsRead
  <2>9. NameRead(s)' => ~Long(origin.Source_name) /\ ~NamedEnd
    BY <1>1, <1>2 DEF InStep
  <2> QED BY ONLY <1>2, <1>7, <1>10, <2>1, <2>3, <2>5, <2>6, <2>7, <2>8, <2>9, Onward, s \in BOOLEAN, Going(s)
<1> QED BY ONLY <1>8, <1>12, <1>13

(* The beginning of the table.                                             *)
FlagIs(o, p) ==
  /\ ObjOK(p) /\ p.field = o.field /\ p.Source_name = o.Source_name
  /\ p.Rawdatafile = o.Rawdatafile /\ p.UseFrequencyTable = TRUE
  /\ p.frequency_table = o.frequency_table

LEMMA ObjFlag ==
  ASSUME NEW o, ObjOK(o)
  PROVE  FlagIs(o, [o EXCEPT !.UseFrequencyTable = TRUE])
<1> DEFINE p == [o EXCEPT !.UseFrequencyTable = TRUE]
<1>1. PICK a, b, c, d, e, f, g :
        o = [Source_name |-> a, Rawdatafile |-> b, UseFrequencyTable |-> c, Headersize |-> d,
             Nsamples |-> e, frequency_table |-> f, field |-> g]
  BY DEF ObjOK
<1>5. PICK u : u = TRUE
  OBVIOUS
<1>6. p = [o EXCEPT !.UseFrequencyTable = u]
  BY ONLY <1>5
<1> HIDE DEF p
<1>7. p = [Source_name |-> a, Rawdatafile |-> b, UseFrequencyTable |-> u, Headersize |-> d,
           Nsamples |-> e, frequency_table |-> f, field |-> g]
  BY ONLY <1>1, <1>6
<1>2. p = [Source_name |-> a, Rawdatafile |-> b, UseFrequencyTable |-> TRUE, Headersize |-> d,
           Nsamples |-> e, frequency_table |-> f, field |-> g]
  BY ONLY <1>5, <1>7
<1>3. /\ p.Source_name = a /\ p.Rawdatafile = b /\ p.UseFrequencyTable = TRUE /\ p.Headersize = d
      /\ p.Nsamples = e /\ p.frequency_table = f /\ p.field = g
      /\ o.Source_name = a /\ o.Rawdatafile = b /\ o.frequency_table = f /\ o.field = g
      /\ o.Nsamples = e
  BY <1>1, <1>2
<1>4. ObjOK(p)
  BY <1>2, <1>3 DEF ObjOK
<1> QED BY <1>3, <1>4 DEF p, FlagIs

LEMMA TakeTable ==
  ASSUME NEW s \in BOOLEAN, Going(s), Ahead(s), HasTable(origin), pos = TableAt(s), ReadInHeader
  PROVE  Turned(s)
<1> DEFINE t == "FREQUENCY_START"
<1>1. Header(origin) /\ FileIs(s) /\ InStep(s) /\ rd_pc = "loop" /\ ObjOK(fil)
  BY DEF Going, FileIs
<1>2. PICK c \in Nat, a \in Nat : /\ c = Chans /\ c > 0 /\ TableLen(origin) = 2 * c + 2
                                  /\ a = TableAt(s) /\ a = (IF s THEN 31 ELSE 3)
  BY <1>1, Setting DEF Chans, TableAt
<1>3. /\ pos \in Nat /\ pos = a /\ pos + 1 < Size(s, origin) /\ pos + 1 <= Size(s, origin)
      /\ Size(s, origin) \in Nat
      /\ ~s => pos + 1 < FieldsAt(s, origin) + 2
  BY <1>2 DEF Size, FieldsAt
<1>4. W(s)[pos + 1] = String(t)
  <2>1. TableIs(W(s), a, origin)
    BY <1>1, <1>2, Setting DEF Layout, W
  <2> QED BY <1>3, <2>1 DEF TableIs
<1>5. NameRead(s)
  BY <1>2 DEF NameRead, NameAt
<1> HIDE DEF t
<1>6. t \in Keywords
  BY DEF Keywords, t
<1>7. Len(t) \in 1 .. MaxString
  BY ONLY <1>6, StringLengths
<1>8. /\ strtmp = t /\ ~AtEnd /\ AsWritten(s, pos + 1)
      /\ get_string /\ CountString(0) => OnePast(s)
  BY ONLY <1>1, <1>4, <1>7, OneItem, s \in BOOLEAN, Ahead(s)
<1>9. ReadFrequencyStart
  BY ONLY <1>1, <1>8, Acts, ReadInHeader DEF t
<1>10. /\ get_string /\ CountString(0) /\ rd_pc' = "loop" /\ Stays
       /\ fil' = [fil EXCEPT !.UseFrequencyTable = TRUE]
       /\ expecting' = expecting /\ channel_index' = 0
  BY ONLY <1>1, <1>9, Zenon DEF ReadFrequencyStart, InLoop, Stays
<1>11. /\ ObjOK(fil)' /\ fil'.field = fil.field
       /\ fil'.Source_name = fil.Source_name /\ fil'.Rawdatafile = fil.Rawdatafile
       /\ fil'.UseFrequencyTable = TRUE /\ fil'.frequency_table = fil.frequency_table
  <2>1. PICK p : p = [fil EXCEPT !.UseFrequencyTable = TRUE] /\ p = fil'
    BY <1>10
  <2>2. FlagIs(fil, p)
    BY ONLY <1>1, <2>1, ObjFlag
  <2>3. ObjOK(p) => ObjOK(fil)'
    BY ONLY <2>1, Zenon DEF ObjOK
  <2> QED BY ONLY <2>1, <2>2, <2>3 DEF FlagIs
<1>12. /\ pos' = pos + 1 /\ lost' = FALSE
       /\ intTotalHeaderBytes' = intTotalHeaderBytes + W(s)[pos + 1].bytes
  BY ONLY <1>8, <1>10 DEF OnePast
<1>13. pos' \in Nat /\ pos' >= pos /\ pos' = a + 1
  BY ONLY <1>3, <1>12
<1>14. NamesRead(s)' /\ NameRead(s)'
  <2>1. NamesRead(s)
    BY <1>1 DEF InStep
  <2> QED BY ONLY <1>3, <1>5, <1>10, <1>11, <1>13, <2>1, NamesKept, s \in BOOLEAN
<1>15. origin' = origin /\ before' = before
  BY <1>10 DEF Stays
<1>16. TableRead(s)'
  <2>1. ~(pos > TableAt(s))
    BY ONLY <1>2, <1>3
  <2>2. \A i \in 0 .. MaxChans - 1 : fil'.frequency_table[i] = before.frequency_table[i]
    <3>1. channel_index = 0 /\ \A i \in 0 .. MaxChans - 1 : ~(i < 0)
      BY <1>1, <2>1 DEF InStep, TableRead
    <3> QED BY ONLY <1>1, <1>11, <3>1 DEF InStep, TableRead
  <2>3. /\ pos' = TableAt(s) + 1 + 2 * channel_index' /\ pos' > TableAt(s)
        /\ channel_index' \in 0 .. Chans /\ channel_index' <= MaxChans
    <3>1. MaxChans \in Nat
      BY Bounds
    <3> QED BY ONLY <1>2, <1>10, <1>13, <3>1
  <2>4. \A i \in 0 .. MaxChans - 1 : ~(i < 0)
    OBVIOUS
  <2> QED BY ONLY <1>10, <1>11, <1>15, <2>2, <2>3, <2>4, HasTable(origin) DEF TableRead, Chans
<1>17. Stop(s)'
  <2>1. pos' = TableAt(s) + 1 + 2 * 0 /\ 0 \in 0 .. Chans
    BY ONLY <1>2, <1>13
  <2> QED BY ONLY <1>15, <2>1, HasTable(origin) DEF Stop, Chans
<1>18. BytesRead(s)'
  BY ONLY <1>3, <1>5, <1>10, <1>12, <1>14, BytesOn, s \in BOOLEAN, Going(s)
<1>19. FieldsRead(s)'
  <2>1. FieldsRead(s)
    BY <1>1 DEF InStep
  <2>2. Zeroed(s)' = Zeroed(s)
    BY ONLY <1>2, <1>3, <1>13, <1>15 DEF Zeroed
  <2>3. ASSUME NEW i \in 1 .. NumKeys(s), pos' >= FieldsAt(s, origin) + 2 * i
        PROVE  pos >= FieldsAt(s, origin) + 2 * i
    <3>1. i \in Nat /\ i >= 1
      BY DEF NumKeys
    <3>2. s
      <4>1. PICK f \in Nat : f = FieldsAt(s, origin)
        BY <1>1, Setting DEF FieldsAt
      <4>2. pos' = pos + 1 /\ pos \in Nat
        BY <1>3, <1>12
      <4>3. pos' >= f + 2 * i /\ (~s => pos + 1 < f + 2)
        BY ONLY <1>3, <2>3, <4>1
      <4> QED BY ONLY <3>1, <4>1, <4>2, <4>3, s \in BOOLEAN
    <3> QED BY ONLY <1>2, <1>3, <3>1, <3>2, i \in 1 .. NumKeys(s) DEF FieldsAt, NumKeys
  <2> QED BY ONLY <1>10, <1>11, <1>14, <2>1, <2>2, <2>3, FieldsKept, s \in BOOLEAN
<1>20. NameRead(s)' => ~Long(origin.Source_name) /\ ~NamedEnd
  BY <1>1, <1>5 DEF InStep
<1>21. pos + 1 <= Len(disk.items)
  BY DEF Ahead
<1> QED BY ONLY <1>3, <1>8, <1>10, <1>11, <1>12, <1>14, <1>16, <1>17, <1>18, <1>19, <1>20, <1>21, Onward, s \in BOOLEAN, Going(s)

(* The end of the table.                                                   *)
LEMMA TakeTableEnd ==
  ASSUME NEW s \in BOOLEAN, Going(s), Ahead(s), HasTable(origin), channel_index = Chans,
         pos = TableAt(s) + 1 + 2 * Chans, ReadInHeader
  PROVE  Turned(s)
<1> DEFINE t == "FREQUENCY_END"
<1>1. Header(origin) /\ FileIs(s) /\ InStep(s) /\ rd_pc = "loop" /\ ObjOK(fil)
  BY DEF Going, FileIs
<1>2. PICK c \in Nat, a \in Nat : /\ c = Chans /\ c > 0
                                  /\ TableLen(origin) = 2 * c + 2
                                  /\ a = TableAt(s) /\ a = (IF s THEN 31 ELSE 3)
  BY <1>1, Setting DEF Chans, TableAt
<1>3. /\ pos \in Nat /\ pos = a + 1 + 2 * c /\ pos + 1 < Size(s, origin)
      /\ pos + 1 <= Size(s, origin) /\ Size(s, origin) \in Nat
      /\ ~s => pos + 1 = FieldsAt(s, origin)
      /\ s => pos + 1 = Size(s, origin) - 1
  BY <1>2 DEF Size, FieldsAt
<1>4. W(s)[pos + 1] = String(t)
  <2>1. TableIs(W(s), a, origin)
    BY <1>1, <1>2, Setting DEF Layout, W
  <2>2. W(s)[a + 2 * c + 2] = String(t)
    BY ONLY <1>2, <2>1, HasTable(origin) DEF TableIs, Chans
  <2>3. pos + 1 = a + 2 * c + 2
    BY ONLY <1>2, <1>3
  <2> QED BY ONLY <2>2, <2>3
<1>5. NameRead(s)
  BY <1>2, <1>3 DEF NameRead, NameAt
<1> HIDE DEF t
<1>6. t \in Keywords
  BY DEF Keywords, t
<1>7. Len(t) \in 1 .. MaxString
  BY ONLY <1>6, StringLengths
<1>8. /\ strtmp = t /\ ~AtEnd /\ AsWritten(s, pos + 1)
      /\ get_string /\ CountString(0) => OnePast(s)
  BY ONLY <1>1, <1>4, <1>7, OneItem, s \in BOOLEAN, Ahead(s)
<1>9. ReadFrequencyEnd
  BY ONLY <1>1, <1>8, Acts, ReadInHeader DEF t
<1>10. /\ get_string /\ CountString(0) /\ rd_pc' = "loop" /\ Stays
       /\ fil' = [fil EXCEPT !.field["nchans"] = channel_index]
       /\ expecting' = expecting /\ channel_index' = channel_index
  BY ONLY <1>1, <1>9, Zenon DEF ReadFrequencyEnd, InLoop, Stays
<1>22. "nchans" \in Fields
  BY DEF Fields, Ints
<1>11. /\ ObjOK(fil)' /\ fil'.field = [fil.field EXCEPT !["nchans"] = c]
       /\ fil'.Source_name = fil.Source_name /\ fil'.Rawdatafile = fil.Rawdatafile
       /\ fil'.UseFrequencyTable = fil.UseFrequencyTable
       /\ fil'.frequency_table = fil.frequency_table
  <2>1. PICK p : p = [fil EXCEPT !.field["nchans"] = c] /\ p = fil'
    BY ONLY <1>2, <1>10, channel_index = Chans
  <2>2. FieldOK("nchans", c)
    BY <1>2 DEF FieldOK
  <2>3. ObjIs(fil, p, [fil.field EXCEPT !["nchans"] = c])
    BY ONLY <1>1, <1>22, <2>1, <2>2, ObjField
  <2>4. ObjOK(p) => ObjOK(fil)'
    BY ONLY <2>1, Zenon DEF ObjOK
  <2> QED BY ONLY <2>1, <2>3, <2>4 DEF ObjIs
<1>12. /\ pos' = pos + 1 /\ lost' = FALSE
       /\ intTotalHeaderBytes' = intTotalHeaderBytes + W(s)[pos + 1].bytes
  BY ONLY <1>8, <1>10 DEF OnePast
<1>13. pos' \in Nat /\ pos' >= pos /\ pos' = a + 2 + 2 * c
  BY ONLY <1>3, <1>12
<1>14. NamesRead(s)' /\ NameRead(s)'
  <2>1. NamesRead(s)
    BY <1>1 DEF InStep
  <2> QED BY ONLY <1>3, <1>5, <1>10, <1>11, <1>13, <2>1, NamesKept, s \in BOOLEAN
<1>15. origin' = origin /\ before' = before
  BY <1>10 DEF Stays
<1>16. TableRead(s)'
  <2>1. pos > TableAt(s)
    BY ONLY <1>2, <1>3
  <2>2. /\ pos' > TableAt(s) + 1 + 2 * channel_index' /\ pos' > TableAt(s)
        /\ channel_index' \in 0 .. Chans /\ channel_index' = Chans
    BY ONLY <1>2, <1>10, <1>13, channel_index = Chans
  <2>3. TableRead(s)
    BY <1>1 DEF InStep
  <2> QED BY ONLY <1>5, <1>10, <1>11, <1>14, <1>15, <2>1, <2>2, <2>3, HasTable(origin) DEF TableRead, Chans
<1>17. Stop(s)'
  <2>1. CASE s
    BY ONLY <1>3, <1>12, <1>15, <2>1 DEF Stop
  <2>2. CASE ~s
    <3>1. pos' = FieldsAt(s, origin') + 2 * 0 /\ 0 \in 0 .. NumKeys(s)
      BY ONLY <1>3, <1>12, <1>15, <2>2 DEF NumKeys
    <3> QED BY ONLY <3>1 DEF Stop
  <2> QED BY <2>1, <2>2
<1>18. BytesRead(s)'
  BY ONLY <1>3, <1>5, <1>10, <1>12, <1>14, BytesOn, s \in BOOLEAN, Going(s)
<1>19. FieldsRead(s)'
  <2>1. FieldsRead(s)
    BY <1>1 DEF InStep
  <2>2. Zeroed(s)' = Zeroed(s) /\ "nchans" \notin Zeroed(s)
    BY ONLY <1>2, <1>3, <1>13, <1>15 DEF Zeroed
  <2>3. \A k \in Fields : fil'.field[k] = IF k = "nchans" THEN c ELSE fil.field[k]
    <3>1. fil.field = [k \in Fields |-> fil.field[k]]
      BY <1>1 DEF ObjOK
    <3> QED BY ONLY <1>11, <1>22, <3>1
  <2>4. ASSUME NEW k \in Fields, \A i \in 1 .. NumKeys(s) : Keys(s)[i] # k
        PROVE  fil'.field[k] = before'.field[k]
    <3>1. k # "nchans"
      BY ONLY <2>4, ZeroedKeys, s \in BOOLEAN
    <3>2. fil.field[k] = before.field[k]
      BY ONLY <2>1, <2>4 DEF FieldsRead
    <3> QED BY ONLY <1>15, <2>3, <3>1, <3>2, k \in Fields
  <2>5. ASSUME NEW i \in 1 .. NumKeys(s), pos' >= FieldsAt(s, origin) + 2 * i
        PROVE  fil'.field[Keys(s)[i]] = IF Keys(s)[i] \in Zeroed(s)' THEN 0
                                        ELSE origin.field[Keys(s)[i]]
    <3>1. i \in Nat /\ i >= 1
      BY DEF NumKeys
    <3>2. s
      <4>1. PICK f \in Nat : f = FieldsAt(s, origin)
        BY <1>1, Setting DEF FieldsAt
      <4> QED BY ONLY <1>3, <1>12, <2>5, <3>1, <4>1, s \in BOOLEAN
    <3>3. pos >= FieldsAt(s, origin) + 2 * i
      BY ONLY <1>2, <1>3, <3>1, <3>2, i \in 1 .. NumKeys(s) DEF FieldsAt, NumKeys
    <3>4. fil.field[Keys(s)[i]] = IF Keys(s)[i] \in Zeroed(s) THEN 0
                                  ELSE origin.field[Keys(s)[i]]
      BY ONLY <2>1, <3>3, i \in 1 .. NumKeys(s) DEF FieldsRead
    <3>5. Keys(s)[i] \in Fields
      BY KeysAre
    <3> QED BY ONLY <1>2, <2>2, <2>3, <3>4, <3>5 DEF Chans
  <2> QED BY ONLY <1>14, <1>15, <2>4, <2>5 DEF FieldsRead
<1>20. NameRead(s)' => ~Long(origin.Source_name) /\ ~NamedEnd
  BY <1>1, <1>5 DEF InStep
<1>21. pos + 1 <= Len(disk.items)
  BY DEF Ahead
<1> QED BY ONLY <1>3, <1>8, <1>10, <1>11, <1>12, <1>14, <1>16, <1>17, <1>18, <1>19, <1>20, <1>21, Onward, s \in BOOLEAN, Going(s)

(* A name that was read.                                                   *)
LEMMA ObjNames ==
  ASSUME ObjOK(fil), NEW t \in AllNames
  PROVE  /\ fil' = [fil EXCEPT !.Rawdatafile = t] =>
              /\ ObjOK(fil)' /\ fil'.field = fil.field
              /\ fil'.UseFrequencyTable = fil.UseFrequencyTable
              /\ fil'.frequency_table = fil.frequency_table
              /\ fil'.Source_name = fil.Source_name /\ fil'.Rawdatafile = t
         /\ fil' = [fil EXCEPT !.Source_name = t] =>
              /\ ObjOK(fil)' /\ fil'.field = fil.field
              /\ fil'.UseFrequencyTable = fil.UseFrequencyTable
              /\ fil'.frequency_table = fil.frequency_table
              /\ fil'.Source_name = t /\ fil'.Rawdatafile = fil.Rawdatafile
<1>1. PICK a, b, c, d, e, f, g :
        fil = [Source_name |-> a, Rawdatafile |-> b, UseFrequencyTable |-> c, Headersize |-> d,
               Nsamples |-> e, frequency_table |-> f, field |-> g]
  BY DEF ObjOK
<1>2. ASSUME NEW p, p = [fil EXCEPT !.Rawdatafile = t]
      PROVE  /\ ObjOK(p) /\ p.field = fil.field
             /\ p.UseFrequencyTable = fil.UseFrequencyTable
             /\ p.frequency_table = fil.frequency_table
             /\ p.Source_name = fil.Source_name /\ p.Rawdatafile = t
  <2>1. p = [Source_name |-> a, Rawdatafile |-> t, UseFrequencyTable |-> c, Headersize |-> d,
             Nsamples |-> e, frequency_table |-> f, field |-> g]
    BY ONLY <1>1, <1>2
  <2> QED BY <1>1, <2>1 DEF ObjOK
<1>3. ASSUME NEW p, p = [fil EXCEPT !.Source_name = t]
      PROVE  /\ ObjOK(p) /\ p.field = fil.field
             /\ p.UseFrequencyTable = fil.UseFrequencyTable
             /\ p.frequency_table = fil.frequency_table
             /\ p.Source_name = t /\ p.Rawdatafile = fil.Rawdatafile
  <2>1. p = [Source_name |-> t, Rawdatafile |-> b, UseFrequencyTable |-> c, Headersize |-> d,
             Nsamples |-> e, frequency_table |-> f, field |-> g]
    BY ONLY <1>1, <1>3
  <2> QED BY <1>1, <2>1 DEF ObjOK
<1>4. PICK q : q = fil'
  OBVIOUS
<1>5. ObjOK(q) => ObjOK(fil)'
  BY ONLY <1>4, Zenon DEF ObjOK
<1> QED BY ONLY <1>2, <1>3, <1>4, <1>5

(* Before the name.                                                        *)
LEMMA EarlyTurn ==
  ASSUME NEW s \in BOOLEAN, Going(s), Ahead(s), AsWritten(s, pos + 1), pos + 1 < NameAt(s),
         OnePast(s), Stays, rd_pc' = "loop", ObjOK(fil)', NamesRead(s)',
         fil'.field = fil.field, fil'.UseFrequencyTable = fil.UseFrequencyTable,
         fil'.frequency_table = fil.frequency_table, channel_index' = channel_index
  PROVE  Turned(s)
<1>1. Header(origin) /\ FileIs(s) /\ InStep(s)
  BY DEF Going, FileIs
<1>2. pos \in Nat /\ pos >= 1 /\ Size(s, origin) \in Nat
  BY <1>1, PosIsNat DEF PosNat
<1>3. /\ pos' = pos + 1 /\ lost' = FALSE
      /\ intTotalHeaderBytes' = intTotalHeaderBytes + W(s)[pos + 1].bytes
  BY DEF OnePast
<1>4. origin' = origin /\ before' = before
  BY DEF Stays
<1>5. ~NameRead(s) /\ ~NameRead(s)'
  BY <1>2, <1>3 DEF NameRead, NameAt
<1>6. pos + 1 < Size(s, origin) /\ pos + 1 <= Size(s, origin)
  <2>1. TableLen(origin) \in Nat
    BY <1>1, Setting
  <2>2. pos + 1 < 5
    BY <1>2 DEF NameAt
  <2> QED BY <1>2, <2>1, <2>2 DEF Size
<1>7. Stop(s)'
  <2>1. pos + 1 \in 1 .. NameAt(s)
    BY <1>2 DEF NameAt
  <2> QED BY <1>3, <2>1 DEF Stop
<1>8. ~(pos > TableAt(s)) /\ ~(pos' > TableAt(s))
  BY <1>2, <1>3 DEF NameAt, TableAt
<1>9. TableRead(s)'
  <2>1. TableRead(s)
    BY <1>1 DEF InStep
  <2> QED BY <1>4, <1>5, <1>8, <2>1 DEF TableRead
<1>10. FieldsRead(s)'
  <2>1. FieldsRead(s)
    BY <1>1 DEF InStep
  <2>2. ASSUME NEW i \in 1 .. NumKeys(s) PROVE ~(pos' >= FieldsAt(s, origin) + 2 * i)
    <3>1. PICK f \in Nat : f = FieldsAt(s, origin) /\ f >= NameAt(s)
      <4>1. TableLen(origin) \in Nat
        BY <1>1, Setting
      <4> QED BY <4>1 DEF FieldsAt, NameAt
    <3>2. NameAt(s) \in Nat /\ i \in Nat /\ i >= 1
      BY DEF NameAt, NumKeys
    <3>3. pos' < NameAt(s) /\ pos' \in Nat
      BY <1>2, <1>3
    <3> QED BY ONLY <3>1, <3>2, <3>3
  <2> QED BY <1>4, <1>5, <2>1, <2>2 DEF FieldsRead
<1>11. BytesRead(s)'
  BY ONLY <1>3, <1>5, <1>6, BytesOn, s \in BOOLEAN, Going(s), Stays
<1>12. pos + 1 <= Len(disk.items)
  BY DEF Ahead
<1> QED BY <1>3, <1>5, <1>6, <1>7, <1>9, <1>10, <1>11, <1>12, Onward

(* A name that is copied has room.                                         *)
LEMMA NameCopied ==
  ASSUME ReadName, rd_pc' # "undefined", NEW t, strtmp = t, Len(t) \in Nat
  PROVE  rd_pc' = "loop" /\ Len(t) < NameSize
<1>1. rd_pc' \in Copied(t)
  BY DEF ReadName
<1>2. CASE Len(t) >= NameSize
  <2>1. Copied(t) = {"undefined"}
    BY <1>2, Zenon DEF Copied
  <2> QED BY ONLY <1>1, <2>1, rd_pc' # "undefined"
<1>3. CASE ~(Len(t) >= NameSize)
  <2>1. Copied(t) \subseteq {"loop", "undefined"}
    BY <1>3, Zenon DEF Copied
  <2>2. rd_pc' = "loop"
    BY ONLY <1>1, <2>1, rd_pc' # "undefined"
  <2>3. Len(t) < NameSize
    <3>1. NameSize \in Nat
      BY NameRoom
    <3> QED BY ONLY <1>3, <3>1, Len(t) \in Nat
  <2> QED BY ONLY <2>2, <2>3
<1> QED BY ONLY <1>2, <1>3

LEMMA TakeFirst ==
  ASSUME NEW s \in BOOLEAN, Going(s), Ahead(s), pos + 1 < NameAt(s), ReadInHeader,
         rd_pc' # "undefined"
  PROVE  Turned(s)
<1>1. Header(origin) /\ FileIs(s) /\ InStep(s) /\ rd_pc = "loop" /\ ObjOK(fil)
      /\ (s => origin.Rawdatafile \in RawNames) /\ NamesRead(s)
  BY DEF Going, FileIs, InStep
<1>2. pos \in Nat /\ pos >= 1 /\ ~NameRead(s)
  BY <1>1, PosIsNat DEF PosNat, NameRead, NameAt
<1>3. (~s /\ pos = 1) \/ (s /\ pos = 1) \/ (s /\ pos = 2) \/ (s /\ pos = 3)
  BY <1>2 DEF NameAt
<1>4. /\ s /\ pos = 1 => W(s)[pos + 1] = String("rawdatafile")
      /\ s /\ pos = 2 => W(s)[pos + 1] = String(origin.Rawdatafile)
      /\ s /\ pos = 3 => W(s)[pos + 1] = String("source_name")
      /\ ~s /\ pos = 1 => W(s)[pos + 1] = String("source_name")
  <2>1. Layout(W(s), s, origin)
    BY <1>1, Setting DEF W
  <2>2. /\ s => /\ W(s)[2] = String("rawdatafile") /\ W(s)[3] = String(origin.Rawdatafile)
                /\ W(s)[4] = String("source_name")
        /\ ~s => W(s)[2] = String("source_name")
    <3>1. 5 - 1 = 4 /\ 3 - 1 = 2
      OBVIOUS
    <3>2. W(s)[NameAt(s) - 1] = String("source_name")
      BY <2>1 DEF Layout
    <3> QED BY <2>1, <3>1, <3>2 DEF Layout, NameAt
  <2>3. 1 + 1 = 2 /\ 2 + 1 = 3 /\ 3 + 1 = 4
    OBVIOUS
  <2> QED BY ONLY <1>1, <2>2, <2>3
<1>5. /\ origin' = origin /\ before' = before => NameHeard' = NameHeard
  BY DEF NameHeard
<1>6. ASSUME NEW t \in {"rawdatafile", "source_name"}, W(s)[pos + 1] = String(t),
             pos' = pos + 1 /\ origin' = origin => Expected(s)' = Expected(s) \cup {t},
             s => pos # 2
      PROVE  Turned(s)
  <2>1. t \in Keywords
    BY DEF Keywords
  <2>2. Len(t) \in 1 .. MaxString
    BY ONLY <2>1, StringLengths
  <2>3. /\ strtmp = t /\ ~AtEnd /\ AsWritten(s, pos + 1)
        /\ get_string /\ CountString(0) => OnePast(s)
    BY ONLY <1>1, <1>6, <2>2, OneItem, s \in BOOLEAN, Ahead(s)
  <2>4. ReadMark
    BY ONLY <1>1, <1>6, <2>3, Acts, ReadInHeader
  <2>5. /\ get_string /\ CountString(0) /\ rd_pc' = "loop" /\ Stays /\ fil' = fil
        /\ expecting' = expecting \cup {t} /\ channel_index' = channel_index
    BY ONLY <1>1, <2>3, <2>4, Zenon DEF ReadMark, InLoop, Stays
  <2>6. OnePast(s) /\ pos' = pos + 1 /\ origin' = origin /\ before' = before
    BY ONLY <2>3, <2>5 DEF OnePast, Stays
  <2>7. ObjOK(fil)'
    BY ONLY <1>1, <2>5, Zenon DEF ObjOK
  <2>8. NamesRead(s)'
    <3>1. ~NameRead(s)'
      BY ONLY <1>2, <2>6, s \in BOOLEAN, pos + 1 < NameAt(s) DEF NameRead, NameAt
    <3>2. s /\ pos + 1 >= 3 <=> s /\ pos >= 3
      BY ONLY <1>2, <1>6
    <3> QED BY ONLY <1>1, <1>2, <1>6, <2>5, <2>6, <3>1, <3>2 DEF NamesRead
  <2> QED BY ONLY <2>3, <2>5, <2>6, <2>7, <2>8, EarlyTurn, s \in BOOLEAN, Going(s), Ahead(s), pos + 1 < NameAt(s)
<1>7. CASE ~s /\ pos = 1
  <2>1. pos' = pos + 1 => Expected(s)' = Expected(s) \cup {"source_name"}
    BY ONLY <1>7 DEF Expected, NameRead, NameAt
  <2> QED BY ONLY <1>4, <1>6, <1>7, <2>1
<1>8. CASE s /\ pos = 1
  <2>1. pos' = pos + 1 => Expected(s)' = Expected(s) \cup {"rawdatafile"}
    BY ONLY <1>8 DEF Expected, NameRead, NameAt
  <2>2. s => pos # 2
    BY <1>8
  <2>3. W(s)[pos + 1] = String("rawdatafile")
    BY ONLY <1>4, <1>8
  <2> QED BY ONLY <1>6, <2>1, <2>2, <2>3
<1>9. CASE s /\ pos = 3
  <2>1. pos' = pos + 1 => Expected(s)' = Expected(s) \cup {"source_name"}
    BY ONLY <1>9 DEF Expected, NameRead, NameAt
  <2>2. s => pos # 2
    BY <1>9
  <2>3. W(s)[pos + 1] = String("source_name")
    BY ONLY <1>4, <1>9
  <2> QED BY ONLY <1>6, <2>1, <2>2, <2>3
<1>10. CASE s /\ pos = 2
  <2> DEFINE t == origin.Rawdatafile
  <2>1. t \in RawNames /\ t \notin Keywords \ {"HEADER_START"} /\ t \in AllNames
    <3>1. RawNames \cap Keywords = {}
      BY FilAssumption, Zenon
    <3>2. t \in RawNames
      BY ONLY <1>1, <1>10
    <3> QED BY ONLY <3>1, <3>2 DEF AllNames
  <2>2. W(s)[pos + 1] = String(t) /\ expecting = {"rawdatafile"}
    <3>1. W(s)[pos + 1] = String(t)
      BY ONLY <1>4, <1>10
    <3>2. Expected(s) = {"rawdatafile"}
      BY ONLY <1>10 DEF Expected, NameRead, NameAt
    <3> QED BY ONLY <1>1, <3>1, <3>2 DEF NamesRead
  <2> HIDE DEF t
  <2>3. Len(t) \in 1 .. MaxString
    BY ONLY <2>1, StringLengths
  <2>4. /\ strtmp = t /\ ~AtEnd /\ AsWritten(s, pos + 1)
        /\ get_string /\ CountString(0) => OnePast(s)
    BY ONLY <1>1, <2>2, <2>3, OneItem, s \in BOOLEAN, Ahead(s)
  <2>5. ReadName
    BY ONLY <1>1, <2>1, <2>2, <2>4, Acts, ReadInHeader
  <2>10. rd_pc' = "loop" /\ Len(t) < NameSize
    <3>1. MaxString \in Nat
      BY StringLengths
    <3>2. Len(t) \in Nat
      BY ONLY <2>3, <3>1
    <3> QED BY ONLY <2>4, <2>5, <3>2, NameCopied, rd_pc' # "undefined"
  <2>6. /\ get_string /\ CountString(0) /\ rd_pc' = "loop" /\ Stays
        /\ fil' = [fil EXCEPT !.Rawdatafile = t]
        /\ expecting' = expecting \ {"rawdatafile"} /\ channel_index' = channel_index
    BY ONLY <1>1, <2>2, <2>4, <2>5, <2>10 DEF ReadName, InLoop, Stays
  <2>7. /\ ObjOK(fil)' /\ fil'.field = fil.field
        /\ fil'.UseFrequencyTable = fil.UseFrequencyTable
        /\ fil'.frequency_table = fil.frequency_table
        /\ fil'.Source_name = fil.Source_name /\ fil'.Rawdatafile = t
    BY ONLY <1>1, <2>1, <2>6, ObjNames
  <2>8. OnePast(s) /\ pos' = 3 /\ origin' = origin /\ before' = before
    <3>1. OnePast(s)
      BY ONLY <2>4, <2>6
    <3>2. pos' = pos + 1 /\ pos = 2
      BY ONLY <1>10, <3>1 DEF OnePast
    <3>3. pos' = 3
      BY ONLY <3>2
    <3> QED BY ONLY <2>6, <3>1, <3>3 DEF Stays
  <2>9. NamesRead(s)'
    <3>1. Expected(s)' = {}
      BY ONLY <1>10, <2>8 DEF Expected, NameRead, NameAt
    <3>2. ~NameRead(s)'
      BY ONLY <1>10, <2>8 DEF NameRead, NameAt
    <3>3. t = origin.Rawdatafile /\ s /\ 3 >= 3
      BY <1>10 DEF t
    <3>4. expecting' = {}
      BY ONLY <2>2, <2>6
    <3>5. fil'.Source_name = before.Source_name
      BY ONLY <1>1, <1>2, <2>7 DEF NamesRead
    <3> QED BY ONLY <2>7, <2>8, <2>10, <3>1, <3>2, <3>3, <3>4, <3>5 DEF NamesRead
  <2> QED BY ONLY <2>4, <2>6, <2>7, <2>8, <2>9, EarlyTurn, s \in BOOLEAN, Going(s), Ahead(s), pos + 1 < NameAt(s)
<1> QED BY ONLY <1>3, <1>7, <1>8, <1>9, <1>10

(* The name, whatever it is taken for.                                     *)
NameTaken(s) ==
  /\ Len(origin.Source_name) < NameSize
  /\ Stays /\ rd_pc' = "loop" /\ pos' = pos + 1 /\ lost' = FALSE /\ ObjOK(fil)'
  /\ intTotalHeaderBytes' = intTotalHeaderBytes + W(s)[pos + 1].bytes
                              + (IF origin.Source_name = "" THEN 5 ELSE 0)
  /\ expecting' = IF origin.Source_name \in Marks \ {"HEADER_START"}
                  THEN {"source_name"} \cup ({origin.Source_name} \cap {"rawdatafile"})
                  ELSE {}
  /\ fil'.Source_name = NameHeard /\ fil'.Rawdatafile = fil.Rawdatafile
  /\ fil'.UseFrequencyTable = (fil.UseFrequencyTable
                                  \/ origin.Source_name = "FREQUENCY_START")
  /\ fil'.frequency_table = fil.frequency_table /\ channel_index' = 0
  /\ \A k \in Fields \ {"nchans"} : fil'.field[k] = fil.field[k]

LEMMA NameTurn ==
  ASSUME NEW s \in BOOLEAN, Going(s), Ahead(s), pos = NameAt(s) - 1, AsWritten(s, pos + 1),
         ~Long(origin.Source_name), ~NamedEnd, NameTaken(s)
  PROVE  Turned(s)
<1>0. Stays /\ rd_pc' = "loop" /\ pos' = pos + 1 /\ lost' = FALSE /\ ObjOK(fil)'
  BY DEF NameTaken
<1>1. Header(origin) /\ FileIs(s) /\ InStep(s)
  BY DEF Going, FileIs
<1>2. pos \in Nat /\ pos >= 1 /\ Size(s, origin) \in Nat
  BY <1>1, PosIsNat DEF PosNat
<1>3. origin' = origin /\ before' = before /\ NameHeard' = NameHeard
  BY <1>0 DEF Stays, NameHeard
<1>4. ~NameRead(s) /\ NameRead(s)' /\ pos' = NameAt(s)
  BY <1>0, <1>2 DEF NameRead, NameAt
<1>5. pos + 1 < Size(s, origin) /\ pos + 1 <= Size(s, origin)
  <2>1. TableLen(origin) \in Nat
    BY <1>1, Setting
  <2>2. pos + 1 <= 5
    BY <1>2 DEF NameAt
  <2> QED BY <1>2, <2>1, <2>2 DEF Size
<1>6. Stop(s)'
  <2>1. pos + 1 \in 1 .. NameAt(s)
    BY <1>2 DEF NameAt
  <2> QED BY <1>0, <2>1 DEF Stop
<1>7. ~(pos > TableAt(s)) /\ ~(pos' > TableAt(s))
  BY <1>0, <1>2 DEF NameAt, TableAt
<1>8. TableRead(s)'
  <2>1. /\ fil.UseFrequencyTable = before.UseFrequencyTable /\ before.UseFrequencyTable \in BOOLEAN
        /\ channel_index = 0
        /\ \A i \in 0 .. MaxChans - 1 : fil.frequency_table[i] = before.frequency_table[i]
    <3>1. TableRead(s)
      BY <1>1 DEF InStep
    <3>2. channel_index = 0
      BY <1>7, <3>1 DEF TableRead
    <3>3. \A i \in 0 .. MaxChans - 1 : ~(i < 0)
      OBVIOUS
    <3>4. before.UseFrequencyTable \in BOOLEAN
      BY DEF Going, ObjOK
    <3> QED BY <1>4, <1>7, <3>1, <3>2, <3>3, <3>4 DEF TableRead
  <2>2. \A i \in 0 .. MaxChans - 1 : ~(i < 0)
    OBVIOUS
  <2>3. fil'.UseFrequencyTable = (\/ before'.UseFrequencyTable
                                  \/ NameRead(s)' /\ origin'.Source_name = "FREQUENCY_START"
                                  \/ HasTable(origin') /\ pos' > TableAt(s))
    BY ONLY <1>3, <1>4, <1>7, <2>1, NameTaken(s) DEF NameTaken
  <2>4. \A i \in 0 .. MaxChans - 1 : fil'.frequency_table[i] = before'.frequency_table[i]
    BY ONLY <1>3, <2>1, NameTaken(s) DEF NameTaken
  <2>5. 0 <= MaxChans
    BY Bounds
  <2> QED BY ONLY <1>7, <2>2, <2>3, <2>4, <2>5, NameTaken(s) DEF TableRead, NameTaken
<1>9. NamesRead(s)'
  <2>1. Expected(s)' = expecting'
    BY ONLY <1>3, <1>4, NameTaken(s) DEF Expected, NameTaken
  <2>2. /\ fil.Rawdatafile = IF s /\ pos >= 3 THEN origin.Rawdatafile ELSE before.Rawdatafile
        /\ s /\ pos >= 3 => Len(origin.Rawdatafile) < NameSize
    BY <1>1 DEF InStep, NamesRead
  <2>3. s /\ pos >= 3 <=> s /\ pos' >= 3
    BY <1>0, <1>2 DEF NameAt
  <2> QED BY ONLY <1>3, <1>4, <2>1, <2>2, <2>3, NameTaken(s) DEF NamesRead, NameTaken
<1>10. FieldsRead(s)'
  <2>1. ASSUME NEW k \in Fields, \A i \in 1 .. NumKeys(s) : Keys(s)[i] # k
        PROVE  fil'.field[k] = before'.field[k]
    <3>1. k # "nchans"
      BY ONLY <2>1, ZeroedKeys, s \in BOOLEAN
    <3>2. fil.field = before.field
      BY <1>1, <1>4 DEF InStep, FieldsRead
    <3> QED BY ONLY <1>3, <3>1, <3>2, k \in Fields, NameTaken(s) DEF NameTaken
  <2>2. ASSUME NEW i \in 1 .. NumKeys(s) PROVE ~(pos' >= FieldsAt(s, origin) + 2 * i)
    <3>1. PICK f \in Nat : f = FieldsAt(s, origin) /\ f >= NameAt(s)
      <4>1. TableLen(origin) \in Nat
        BY <1>1, Setting
      <4> QED BY <4>1 DEF FieldsAt, NameAt
    <3>2. NameAt(s) \in Nat /\ i \in Nat /\ i >= 1
      BY DEF NameAt, NumKeys
    <3> QED BY ONLY <1>4, <3>1, <3>2
  <2> QED BY ONLY <1>3, <1>4, <2>1, <2>2 DEF FieldsRead
<1>11. BytesRead(s)'
  <2>1. BytesAdd(W(s), Size(s, origin))
    BY <1>1, BytesGrow DEF W
  <2>2. PICK b \in Nat, c \in Nat : /\ b = Bytes(W(s), pos) /\ c = W(s)[pos + 1].bytes
                                    /\ Bytes(W(s), pos + 1) = b + c
    BY ONLY <1>2, <1>5, <2>1 DEF BytesAdd
  <2>3. intTotalHeaderBytes = b + 0
    BY <1>1, <1>4, <2>2 DEF InStep, BytesRead, W
  <2>4. PICK x \in Nat : x = IF origin.Source_name = "" THEN 5 ELSE 0
    OBVIOUS
  <2>5. intTotalHeaderBytes' = intTotalHeaderBytes + c + x
    BY ONLY <2>2, <2>4, NameTaken(s) DEF NameTaken
  <2>6. intTotalHeaderBytes' = b + c + x
    <3>1. intTotalHeaderBytes' = b + 0 + c + x
      BY ONLY <2>3, <2>5, Zenon
    <3>2. b + 0 = b
      OBVIOUS
    <3> QED BY ONLY <3>1, <3>2, Zenon
  <2> QED BY ONLY <1>3, <1>4, <2>2, <2>4, <2>6, <1>0 DEF BytesRead, W
<1>12. pos + 1 <= Len(disk.items)
  BY DEF Ahead
<1> QED BY <1>0, <1>5, <1>6, <1>8, <1>9, <1>10, <1>11, <1>12, Onward

(* The name is next.                                                       *)
NameNext(s) ==
  /\ W(s)[pos + 1] = String(origin.Source_name) /\ expecting = {"source_name"}
  /\ channel_index = 0 /\ fil.Source_name = before.Source_name
  /\ origin.Source_name \in AllNames /\ pos \in Nat

LEMMA NamePlace ==
  ASSUME NEW s \in BOOLEAN, Going(s), pos = NameAt(s) - 1
  PROVE  NameNext(s)
<1>1. Header(origin) /\ FileIs(s) /\ InStep(s) /\ NamesRead(s) /\ TableRead(s)
  BY DEF Going, FileIs, InStep
<1>2. pos \in Nat /\ pos >= 1
  BY <1>1, PosIsNat DEF PosNat
<1>3. pos + 1 = NameAt(s) /\ ~NameRead(s) /\ ~(pos > TableAt(s))
  BY <1>2 DEF NameRead, NameAt, TableAt
<1>4. W(s)[pos + 1] = String(origin.Source_name)
  <2>1. W(s)[NameAt(s)] = String(origin.Source_name)
    BY <1>1, Setting DEF W, Layout
  <2> QED BY ONLY <1>3, <2>1
<1>5. Expected(s) = {"source_name"}
  BY <1>3 DEF Expected
<1>6. channel_index = 0 /\ fil.Source_name = before.Source_name /\ expecting = {"source_name"}
  BY <1>1, <1>3, <1>5 DEF TableRead, NamesRead
<1> QED BY <1>1, <1>2, <1>4, <1>6 DEF NameNext, Header

(* Names that are keywords have no value.                                  *)
LEMMA NameKinds ==
  ASSUME NEW t \in AllNames
  PROVE  t \in Marks \/ t \notin Keywords
<1>1. Names \cap (Keywords \ Marks) = {} /\ RawNames \cap Keywords = {}
  BY FilAssumption, Zenon
<1>2. OwnNames \cap Keywords = {}
  BY DEF OwnNames, Torn, Keywords, Fields, Doubles, Ints
<1> QED BY ONLY <1>1, <1>2, t \in AllNames DEF AllNames

ErrorIs == "ERROR" \in AllNames /\ "ERROR" \notin Keywords /\ Torn \in AllNames /\ Torn \notin Keywords
           /\ Torn # "HEADER_END" /\ Torn # "" /\ Torn # "HEADER_START"

LEMMA ErrorName == ErrorIs
BY DEF ErrorIs, AllNames, OwnNames, Torn, Keywords, Fields, Doubles, Ints

(* A string with a refused length.                                         *)
LEMMA BadItem ==
  ASSUME NEW n, disk.items[pos + 1].text = n, lost = FALSE, NEW l \in Nat, Len(n) = l,
         l < 1 \/ l > MaxString
  PROVE  /\ strtmp = "ERROR"
         /\ get_string => /\ pos' = pos + 1
                          /\ (l > 0 => lost' = TRUE) /\ (~(l > 0) => lost' = FALSE)
<1>1. BadLength(n) /\ (Len(n) > 0 <=> l > 0)
  BY ONLY Len(n) = l, l < 1 \/ l > MaxString DEF BadLength
<1>2. strtmp = "ERROR"
  BY <1>1, Zenon DEF strtmp
<1>3. get_string => /\ pos' = pos + 1
                    /\ (l > 0 => lost' = TRUE) /\ (~(l > 0) => lost' = FALSE)
  <2>1. get_string => /\ pos' = IF lost THEN pos ELSE pos + 1
                      /\ lost' = (lost \/ (BadLength(n) /\ Len(n) > 0))
    BY Zenon DEF get_string
  <2>2. PICK k : k = Len(n)
    OBVIOUS
  <2>3. k = l
    BY ONLY <2>2, Len(n) = l
  <2>4. ASSUME get_string
        PROVE  (l > 0 => lost' = TRUE) /\ (~(l > 0) => lost' = FALSE)
    <3>1. lost' = (lost \/ (BadLength(n) /\ k > 0))
      BY ONLY <2>1, <2>2, <2>4
    <3> QED BY ONLY <1>1, <2>3, <3>1, lost = FALSE
  <2> QED BY ONLY <2>1, <2>4, lost = FALSE
<1> QED BY <1>2, <1>3

CountsError == Len("ERROR") = 5 /\ \A a \in Nat : a + 5 + 4 + 0 = a + 9 /\ a + (4 + 0) + 5 = a + 9
LEMMA CountsErrorIs == CountsError
<1>1. Len("ERROR") = 5
  BY FilAssumption, Zenon
<1>2. \A a \in Nat : a + 5 + 4 + 0 = a + 9 /\ a + (4 + 0) + 5 = a + 9
  OBVIOUS
<1> QED BY <1>1, <1>2, Zenon DEF CountsError

Nameless == origin.Source_name = ""

LEMMA ErrorCopied ==
  ASSUME ReadName, rd_pc' # "undefined", strtmp = "ERROR"
  PROVE  rd_pc' = "loop"
<1>1. Len("ERROR") \in Nat
  BY CountsErrorIs DEF CountsError
<1>2. PICK t : t = "ERROR"
  OBVIOUS
<1>3. Len(t) \in Nat
  BY ONLY <1>1, <1>2, Zenon
<1>4. strtmp = t
  BY ONLY <1>2, strtmp = "ERROR", Zenon
<1> QED BY ONLY <1>3, <1>4, NameCopied, ReadName, rd_pc' # "undefined"

LEMMA TakeEmptyName ==
  ASSUME NEW s \in BOOLEAN, Going(s), Ahead(s), pos = NameAt(s) - 1,
         Nameless, ReadInHeader, rd_pc' # "undefined"
  PROVE  Turned(s)
<1>1. Header(origin) /\ FileIs(s) /\ InStep(s) /\ rd_pc = "loop" /\ ObjOK(fil) /\ lost = FALSE
      /\ intTotalHeaderBytes \in Nat /\ NameNext(s)
  BY NamePlace DEF Going, FileIs, InStep, ReaderOK
<1>3. PICK n : n = "" /\ n = origin.Source_name /\ Len(n) = 0
  BY FilAssumption, Zenon DEF Nameless
<1>4. n = origin.Source_name /\ Len(n) = 0
  BY <1>3, Zenon
<1>2. /\ W(s)[pos + 1] = String(n) /\ expecting = {"source_name"} /\ channel_index = 0
      /\ pos \in Nat /\ pos + 1 <= Len(disk.items) /\ disk.items[pos + 1] = W(s)[pos + 1]
  BY <1>1, <1>4 DEF NameNext, Ahead
<1>5. disk.items[pos + 1].text = n /\ W(s)[pos + 1].bytes = 4 + 0
  <2>1. String(n).text = n /\ String(n).bytes = 4 + Len(n)
    BY DEF String
  <2> QED BY ONLY <1>2, <1>4, <2>1, Zenon
<1>6. strtmp = "ERROR" /\ (get_string => pos' = pos + 1 /\ lost' = FALSE)
  <2>1. 0 < 1 \/ 0 > MaxString
    OBVIOUS
  <2>3. 0 \in Nat /\ ~(0 > 0)
    OBVIOUS
  <2>4. /\ strtmp = "ERROR"
        /\ get_string => /\ pos' = pos + 1
                         /\ (0 > 0 => lost' = TRUE) /\ (~(0 > 0) => lost' = FALSE)
    BY ONLY <1>1, <1>4, <1>5, <2>1, <2>3, BadItem
  <2> QED BY ONLY <2>3, <2>4
<1>7. ~AtEnd
  <2>1. Len(disk.items) \in Nat
    BY <1>1, PosIsNat DEF PosNat
  <2> QED BY ONLY <1>2, <2>1 DEF AtEnd
<1>8. ReadName
  <2>1. strtmp \notin Keywords \ {"HEADER_START"} /\ expecting # {}
    BY ONLY <1>2, <1>6, ErrorName DEF ErrorIs
  <2> QED BY ONLY <1>1, <1>7, <2>1, Acts, ReadInHeader
<1>9. /\ get_string /\ CountString(0) /\ rd_pc' = "loop" /\ Stays
      /\ fil' = [fil EXCEPT !.Source_name = "ERROR"]
      /\ expecting' = expecting \ {"source_name"} /\ channel_index' = channel_index
  <2>1. "rawdatafile" \notin expecting
    BY <1>2
  <2>2. rd_pc' = "loop"
    BY ONLY <1>6, <1>8, ErrorCopied, rd_pc' # "undefined"
  <2> QED BY ONLY <1>1, <1>6, <1>8, <2>1, <2>2, Zenon DEF ReadName, InLoop, Stays
<1>10. /\ ObjOK(fil)' /\ fil'.field = fil.field
       /\ fil'.UseFrequencyTable = fil.UseFrequencyTable
       /\ fil'.frequency_table = fil.frequency_table
       /\ fil'.Source_name = "ERROR" /\ fil'.Rawdatafile = fil.Rawdatafile
  <2>1. "ERROR" \in AllNames
    BY ErrorName DEF ErrorIs
  <2> QED BY ONLY <1>1, <1>9, <2>1, ObjNames
<1>11. intTotalHeaderBytes' = intTotalHeaderBytes + W(s)[pos + 1].bytes + 5
  <2>1. intTotalHeaderBytes' = intTotalHeaderBytes + Len("ERROR") + 4 + 0
    BY <1>6, <1>9, Zenon DEF CountString
  <2>2. intTotalHeaderBytes' = intTotalHeaderBytes + 5 + 4 + 0
    BY <2>1, CountsErrorIs, Zenon DEF CountsError
  <2>3. intTotalHeaderBytes' = intTotalHeaderBytes + (4 + 0) + 5
    BY ONLY <1>1, <2>2, CountsErrorIs, Zenon DEF CountsError
  <2> QED BY ONLY <1>5, <2>3, Zenon
<1>12. origin.Source_name \notin Marks /\ NameHeard = "ERROR" /\ ~NamedEnd
  BY Zenon DEF Marks, NameHeard, NamedEnd, Nameless
<1>13. ~Long(origin.Source_name)
  <2>1. MaxString \in Nat
    BY StringLengths
  <2>2. ~(0 > MaxString)
    BY ONLY <2>1
  <2> QED BY ONLY <1>4, <2>2, Zenon DEF Long
<1>14. NameTaken(s)
  <2>1. fil.UseFrequencyTable \in BOOLEAN
    BY <1>1 DEF ObjOK
  <2>2. fil'.UseFrequencyTable = (fil.UseFrequencyTable \/ origin.Source_name = "FREQUENCY_START")
    <3>1. origin.Source_name # "FREQUENCY_START"
      BY Zenon DEF Nameless
    <3> QED BY ONLY <1>10, <2>1, <3>1
  <2>3. expecting' = IF origin.Source_name \in Marks \ {"HEADER_START"}
                     THEN {"source_name"} \cup ({origin.Source_name} \cap {"rawdatafile"})
                     ELSE {}
    BY ONLY <1>2, <1>9, <1>12
  <2>4. intTotalHeaderBytes' = intTotalHeaderBytes + W(s)[pos + 1].bytes
                              + (IF origin.Source_name = "" THEN 5 ELSE 0)
    BY ONLY <1>11, Nameless, Zenon DEF Nameless
  <2>5. channel_index' = 0 /\ fil'.Source_name = NameHeard /\ pos' = pos + 1 /\ lost' = FALSE
    BY ONLY <1>2, <1>6, <1>9, <1>10, <1>12
  <2>6. Len(origin.Source_name) < NameSize
    <3>1. Len("") < NameSize
      BY NameRoom
    <3> QED BY ONLY <3>1, Nameless, Zenon DEF Nameless
  <2> QED BY ONLY <1>9, <1>10, <2>2, <2>3, <2>4, <2>5, <2>6, Zenon DEF NameTaken
<1>15. AsWritten(s, pos + 1)
  <2>1. \A i \in 1 .. pos : disk.items[i] = W(s)[i]
    BY <1>1 DEF InStep, W
  <2>2. \A i \in 1 .. pos + 1 : i \in 1 .. pos \/ i = pos + 1
    BY <1>2
  <2> QED BY ONLY <1>2, <2>1, <2>2 DEF AsWritten
<1> QED BY ONLY <1>12, <1>13, <1>14, <1>15, NameTurn, s \in BOOLEAN, Going(s), Ahead(s), pos = NameAt(s) - 1

(* A name that is too long: the reader is lost behind it, for good.        *)
LEMMA LongTurn ==
  ASSUME NEW s \in BOOLEAN, Going(s), pos = NameAt(s) - 1, pos + 1 <= Len(disk.items),
         disk.items[pos + 1].text = origin.Source_name, Long(origin.Source_name),
         ReadInHeader, rd_pc' # "undefined"
  PROVE  Turned(s)
<1>1. /\ rd_pc = "loop" /\ ObjOK(fil) /\ lost = FALSE /\ intTotalHeaderBytes \in Nat
      /\ NameNext(s) /\ channel_index \in Nat
  BY NamePlace DEF Going, InStep, ReaderOK
<1>14. PICK n : n = origin.Source_name
  OBVIOUS
<1>15. Len(n) \in Nat
  BY ONLY <1>1, <1>14, StringLengths DEF NameNext
<1>16. PICK l \in Nat : l = Len(n)
  BY ONLY <1>15
<1>2. n = origin.Source_name /\ Len(n) = l /\ l > MaxString /\ MaxString \in Nat
  <2>1. Len(n) > MaxString
    BY ONLY <1>14, Long(origin.Source_name), Zenon DEF Long
  <2> QED BY ONLY <2>1, <1>14, <1>16, StringLengths
<1>3. expecting = {"source_name"} /\ pos \in Nat
  BY <1>1 DEF NameNext
<1>4. strtmp = "ERROR" /\ (get_string => pos' = pos + 1 /\ lost' = TRUE)
  <2>1. l > 0
    BY ONLY <1>2
  <2>2. disk.items[pos + 1].text = n
    BY <1>2
  <2> QED BY ONLY <1>1, <1>2, <2>1, <2>2, BadItem
<1>5. ~AtEnd
  <2>1. Len(disk.items) \in Nat
    BY PosIsNat DEF PosNat, Going
  <2> QED BY ONLY <1>3, <2>1, pos + 1 <= Len(disk.items) DEF AtEnd
<1>6. ReadName
  <2>1. strtmp \notin Keywords \ {"HEADER_START"} /\ expecting # {}
    BY ONLY <1>3, <1>4, ErrorName DEF ErrorIs
  <2> QED BY ONLY <1>1, <1>5, <2>1, Acts, ReadInHeader
<1>7. /\ get_string /\ CountString(0) /\ rd_pc' = "loop" /\ Stays
      /\ fil' = [fil EXCEPT !.Source_name = "ERROR"]
      /\ expecting' = expecting \ {"source_name"} /\ channel_index' = channel_index
  <2>1. "rawdatafile" \notin expecting
    BY <1>3
  <2>2. rd_pc' = "loop"
    BY ONLY <1>4, <1>6, ErrorCopied, rd_pc' # "undefined"
  <2> QED BY ONLY <1>1, <1>4, <1>6, <2>1, <2>2, Zenon DEF ReadName, InLoop, Stays
<1>8. ObjOK(fil)'
  <2>1. "ERROR" \in AllNames
    BY ErrorName DEF ErrorIs
  <2> QED BY ONLY <1>1, <1>7, <2>1, ObjNames
<1>9. intTotalHeaderBytes' \in Nat
  <2>1. intTotalHeaderBytes' = intTotalHeaderBytes + Len("ERROR") + 4 + 0
    BY <1>4, <1>7, Zenon DEF CountString
  <2>2. intTotalHeaderBytes' = intTotalHeaderBytes + 5 + 4 + 0
    BY <2>1, CountsErrorIs, Zenon DEF CountsError
  <2> QED BY ONLY <1>1, <2>2
<1>10. expecting' = {} /\ lost' = TRUE /\ pos' = pos + 1 /\ disk' = disk /\ origin' = origin
  BY ONLY <1>3, <1>4, <1>7 DEF Stays
<1>11. ~NamedEnd
  <2>1. "HEADER_END" \in Keywords
    BY DEF Keywords
  <2>2. PICK m : m = "HEADER_END"
    OBVIOUS
  <2>3. Len(m) \in 1 .. MaxString
    BY ONLY <2>1, <2>2, StringLengths
  <2>4. n # m
    BY ONLY <1>2, <2>3
  <2> QED BY ONLY <1>2, <2>2, <2>4 DEF NamedEnd
<1>12. OutOfStep'
  BY ONLY <1>10, <1>11, Long(origin.Source_name) DEF OutOfStep, NamedEnd
<1>13. ReaderOK'
  <2>1. pos' \in 0 .. Len(disk'.items)
    <3>1. Len(disk.items) \in Nat
      BY PosIsNat DEF PosNat, Going
    <3>2. pos + 1 \in 0 .. Len(disk.items)
      BY ONLY <1>3, <3>1, pos + 1 <= Len(disk.items)
    <3> QED BY ONLY <1>10, <3>2
  <2>2. lost' \in BOOLEAN
    BY ONLY <1>10, Zenon
  <2> QED BY ONLY <1>1, <1>7, <1>9, <1>10, <2>1, <2>2 DEF ReaderOK
<1> QED BY <1>7, <1>8, <1>12, <1>13 DEF Turned

(* Any other name but that of the end of the header.                       *)
LEMMA TakeGoodName ==
  ASSUME NEW s \in BOOLEAN, Going(s), Ahead(s), pos = NameAt(s) - 1,
         ~Nameless, ~Long(origin.Source_name), ~NamedEnd, ReadInHeader,
         rd_pc' # "undefined"
  PROVE  Turned(s)
<1> DEFINE t == origin.Source_name
<1>1. /\ Header(origin) /\ FileIs(s) /\ InStep(s) /\ rd_pc = "loop" /\ ObjOK(fil)
      /\ intTotalHeaderBytes \in Nat /\ NameNext(s)
  BY NamePlace DEF Going, FileIs, InStep, ReaderOK
<1>2. /\ W(s)[pos + 1] = String(t) /\ expecting = {"source_name"} /\ channel_index = 0
      /\ fil.Source_name = before.Source_name /\ t \in AllNames
  BY <1>1 DEF NameNext
<1>3. /\ t \in Marks \/ t \notin Keywords
      /\ t # "HEADER_END"
  BY <1>2, NameKinds DEF NamedEnd
<1>4. Len(t) \in 1 .. MaxString
  <2>1. t # ""
    BY Zenon DEF Nameless
  <2>2. Len(t) \in Nat /\ Len(t) # 0 /\ MaxString \in Nat
    <3>1. Len(t) = 0 <=> t = ""
      BY ONLY <1>2, StringLengths, Zenon
    <3>2. Len(t) # 0
      BY ONLY <2>1, <3>1, Zenon
    <3> QED BY ONLY <1>2, <3>2, StringLengths
  <2>3. ~(Len(t) > MaxString)
    BY Zenon DEF Long
  <2> QED BY ONLY <2>2, <2>3
<1>5. /\ strtmp = t /\ ~AtEnd /\ AsWritten(s, pos + 1)
      /\ get_string /\ CountString(0) => OnePast(s)
  BY ONLY <1>1, <1>2, <1>4, OneItem, s \in BOOLEAN, Ahead(s)
<1>6. fil.UseFrequencyTable \in BOOLEAN /\ fil.UseFrequencyTable = (fil.UseFrequencyTable \/ FALSE)
  BY <1>1 DEF ObjOK
<1>7. ASSUME get_string, CountString(0), rd_pc' = "loop", Stays, ObjOK(fil)',
             Len(t) < NameSize,
             expecting' = IF t \in Marks \ {"HEADER_START"}
                          THEN {"source_name"} \cup ({t} \cap {"rawdatafile"}) ELSE {},
             fil'.Source_name = NameHeard, fil'.Rawdatafile = fil.Rawdatafile,
             fil'.UseFrequencyTable = (fil.UseFrequencyTable \/ t = "FREQUENCY_START"),
             fil'.frequency_table = fil.frequency_table, channel_index' = 0,
             \A k \in Fields \ {"nchans"} : fil'.field[k] = fil.field[k]
      PROVE  Turned(s)
  <2>1. /\ pos' = pos + 1 /\ lost' = FALSE
        /\ intTotalHeaderBytes' = intTotalHeaderBytes + W(s)[pos + 1].bytes
    BY ONLY <1>5, <1>7 DEF OnePast
  <2>2. intTotalHeaderBytes' = intTotalHeaderBytes + W(s)[pos + 1].bytes
                                 + (IF origin.Source_name = "" THEN 5 ELSE 0)
    <3>1. W(s)[pos + 1].bytes = 4 + Len(t)
      BY ONLY <1>2 DEF String
    <3>2. Len(t) \in Nat
      BY ONLY <1>2, StringLengths
    <3>3. PICK b \in Nat : b = W(s)[pos + 1].bytes
      BY ONLY <3>1, <3>2
    <3>4. intTotalHeaderBytes + b = intTotalHeaderBytes + b + 0
      BY ONLY <1>1, <3>3
    <3>5. intTotalHeaderBytes' = intTotalHeaderBytes + W(s)[pos + 1].bytes + 0
      BY ONLY <2>1, <3>3, <3>4, Zenon
    <3> QED BY ONLY <3>5, ~Nameless, Zenon DEF Nameless
  <2>3. NameTaken(s)
    BY ONLY <1>7, <2>1, <2>2, Zenon DEF NameTaken
  <2> QED BY ONLY <1>5, <2>3, NameTurn, s \in BOOLEAN, Going(s), Ahead(s),
                  pos = NameAt(s) - 1, ~Long(origin.Source_name), ~NamedEnd
<1> HIDE DEF t
<1>15. t \in Keywords => Len(t) < NameSize
  BY NameRoom
<1>8. t # "FREQUENCY_START" => (fil.UseFrequencyTable = (fil.UseFrequencyTable \/ t = "FREQUENCY_START"))
  BY ONLY <1>6
<1>9. NameHeard = IF t \in Marks \ {"HEADER_START"} THEN before.Source_name ELSE t
  <2>1. t # ""
    BY Zenon DEF Nameless, t
  <2> QED BY ONLY <2>1, Zenon DEF NameHeard, t
<1>10. CASE t \in {"rawdatafile", "source_name"}
  <2>1. ReadMark
    BY ONLY <1>1, <1>5, <1>10, Acts, ReadInHeader
  <2>2. /\ get_string /\ CountString(0) /\ rd_pc' = "loop" /\ Stays /\ fil' = fil
        /\ expecting' = expecting \cup {t} /\ channel_index' = channel_index
    BY ONLY <1>1, <1>5, <2>1, Zenon DEF ReadMark, InLoop, Stays
  <2>3. t \in Marks \ {"HEADER_START"} /\ t # "FREQUENCY_START" /\ Len(t) < NameSize
    BY ONLY <1>10, <1>15 DEF Marks, Keywords
  <2>4. expecting' = {"source_name"} \cup ({t} \cap {"rawdatafile"})
    BY ONLY <1>2, <1>10, <2>2
  <2>5. ObjOK(fil)'
    BY ONLY <1>1, <2>2, Zenon DEF ObjOK
  <2> QED BY ONLY <1>2, <1>7, <1>8, <1>9, <2>2, <2>3, <2>4, <2>5
<1>11. CASE t = "FREQUENCY_START"
  <2>1. ReadFrequencyStart
    BY ONLY <1>1, <1>5, <1>11, Acts, ReadInHeader
  <2>2. /\ get_string /\ CountString(0) /\ rd_pc' = "loop" /\ Stays
        /\ fil' = [fil EXCEPT !.UseFrequencyTable = TRUE]
        /\ expecting' = expecting /\ channel_index' = 0
    BY ONLY <1>1, <2>1, Zenon DEF ReadFrequencyStart, InLoop, Stays
  <2>3. t \in Marks \ {"HEADER_START"} /\ Len(t) < NameSize
    BY ONLY <1>11, <1>15 DEF Marks, Keywords
  <2>4. expecting' = {"source_name"} \cup ({t} \cap {"rawdatafile"})
    BY ONLY <1>2, <1>11, <2>2
  <2>5. PICK p : p = [fil EXCEPT !.UseFrequencyTable = TRUE] /\ p = fil'
    BY ONLY <2>2
  <2>6. FlagIs(fil, p)
    BY ONLY <1>1, <2>5, ObjFlag
  <2>7. ObjOK(p) => ObjOK(fil)'
    BY ONLY <2>5, Zenon DEF ObjOK
  <2>8. fil'.UseFrequencyTable = (fil.UseFrequencyTable \/ t = "FREQUENCY_START")
    BY ONLY <1>11, <2>5, <2>6 DEF FlagIs
  <2>9. /\ ObjOK(fil)' /\ fil'.field = fil.field /\ fil'.Source_name = fil.Source_name
        /\ fil'.Rawdatafile = fil.Rawdatafile /\ fil'.frequency_table = fil.frequency_table
    BY ONLY <2>5, <2>6, <2>7 DEF FlagIs
  <2> QED BY ONLY <1>2, <1>7, <1>9, <2>2, <2>3, <2>4, <2>8, <2>9
<1>12. CASE t = "FREQUENCY_END"
  <2>1. ReadFrequencyEnd
    BY ONLY <1>1, <1>5, <1>12, Acts, ReadInHeader
  <2>2. /\ get_string /\ CountString(0) /\ rd_pc' = "loop" /\ Stays
        /\ fil' = [fil EXCEPT !.field["nchans"] = 0]
        /\ expecting' = expecting /\ channel_index' = 0
    BY ONLY <1>1, <1>2, <2>1 DEF ReadFrequencyEnd, InLoop, Stays
  <2>3. t \in Marks \ {"HEADER_START"} /\ t # "FREQUENCY_START" /\ Len(t) < NameSize
    BY ONLY <1>12, <1>15 DEF Marks, Keywords
  <2>4. expecting' = {"source_name"} \cup ({t} \cap {"rawdatafile"})
    BY ONLY <1>2, <1>12, <2>2
  <2>5. PICK p : p = [fil EXCEPT !.field["nchans"] = 0] /\ p = fil'
    BY ONLY <2>2
  <2>6. "nchans" \in Fields /\ FieldOK("nchans", 0)
    BY Bounds DEF Fields, Ints, FieldOK
  <2>7. ObjIs(fil, p, [fil.field EXCEPT !["nchans"] = 0])
    BY ONLY <1>1, <2>5, <2>6, ObjField
  <2>8. ObjOK(p) => ObjOK(fil)'
    BY ONLY <2>5, Zenon DEF ObjOK
  <2>9. /\ ObjOK(fil)' /\ fil'.field = [fil.field EXCEPT !["nchans"] = 0]
        /\ fil'.Source_name = fil.Source_name /\ fil'.Rawdatafile = fil.Rawdatafile
        /\ fil'.UseFrequencyTable = fil.UseFrequencyTable
        /\ fil'.frequency_table = fil.frequency_table
    BY ONLY <2>5, <2>7, <2>8 DEF ObjIs
  <2>10. \A k \in Fields \ {"nchans"} : fil'.field[k] = fil.field[k]
    <3>1. fil.field = [k \in Fields |-> fil.field[k]]
      BY <1>1 DEF ObjOK
    <3> QED BY ONLY <2>9, <3>1
  <2> QED BY ONLY <1>2, <1>7, <1>8, <1>9, <2>2, <2>3, <2>4, <2>9, <2>10
<1>13. CASE t \notin Keywords \ {"HEADER_START"}
  <2>1. ReadName
    BY ONLY <1>1, <1>2, <1>5, <1>13, Acts, ReadInHeader
  <2>2. "rawdatafile" \notin expecting /\ expecting \ {"source_name"} = {}
    BY ONLY <1>2
  <2>6. rd_pc' = "loop" /\ Len(t) < NameSize
    <3>1. MaxString \in Nat
      BY StringLengths
    <3>2. Len(t) \in Nat
      BY ONLY <1>4, <3>1
    <3> QED BY ONLY <1>5, <2>1, <3>2, NameCopied, rd_pc' # "undefined"
  <2>3. /\ get_string /\ CountString(0) /\ rd_pc' = "loop" /\ Stays
        /\ fil' = [fil EXCEPT !.Source_name = t]
        /\ expecting' = expecting \ {"source_name"} /\ channel_index' = channel_index
    BY ONLY <1>1, <1>5, <2>1, <2>2, <2>6, Zenon DEF ReadName, InLoop, Stays
  <2>4. /\ ObjOK(fil)' /\ fil'.field = fil.field
        /\ fil'.UseFrequencyTable = fil.UseFrequencyTable
        /\ fil'.frequency_table = fil.frequency_table
        /\ fil'.Source_name = t /\ fil'.Rawdatafile = fil.Rawdatafile
    BY ONLY <1>1, <1>2, <2>3, ObjNames
  <2>5. t \notin Marks \ {"HEADER_START"} /\ t # "FREQUENCY_START"
    BY ONLY <1>13 DEF Marks, Keywords
  <2> QED BY ONLY <1>2, <1>7, <1>8, <1>9, <2>2, <2>3, <2>4, <2>5, <2>6
<1>14. t \in {"rawdatafile", "source_name"} \/ t = "FREQUENCY_START" \/ t = "FREQUENCY_END"
         \/ t \notin Keywords \ {"HEADER_START"}
  BY ONLY <1>3 DEF Marks, t
<1> QED BY ONLY <1>10, <1>11, <1>12, <1>13, <1>14

(* Where the reader can be.                                                *)
TableEndAhead(s) ==
  HasTable(origin) /\ channel_index = Chans /\ pos = TableAt(s) + 1 + 2 * Chans

Place(s) ==
  \/ pos + 1 < NameAt(s)
  \/ pos = NameAt(s) - 1
  \/ HasTable(origin) /\ pos = TableAt(s)
  \/ ChannelAhead(s)
  \/ TableEndAhead(s)
  \/ \E j \in 1 .. NumKeys(s) : FieldAhead(s, j)
  \/ s /\ pos = 29
  \/ pos = Size(s, origin) - 1

(* At the end of the table, or of the fields, or inside of either.         *)
LEMMA FieldKind ==
  ASSUME NEW s \in BOOLEAN, Header(origin), NEW j \in 0 .. NumKeys(s),
         pos = FieldsAt(s, origin) + 2 * j
  PROVE  Place(s)
<1>1. CASE j < NumKeys(s)
  <2>1. PICK i \in Int : i = j + 1
    OBVIOUS
  <2>2. NumKeys(s) \in Nat /\ FieldsAt(s, origin) \in Nat
    BY TableLenNat DEF NumKeys, FieldsAt
  <2>3. i \in 1 .. NumKeys(s) /\ pos = FieldsAt(s, origin) + 2 * i - 2
    BY ONLY <1>1, <2>1, <2>2, j \in 0 .. NumKeys(s), pos = FieldsAt(s, origin) + 2 * j
  <2>4. FieldAhead(s, i)
    BY ONLY <2>3 DEF FieldAhead
  <2> QED BY ONLY <2>3, <2>4 DEF Place
<1>2. CASE j >= NumKeys(s)
  <2>1. TableLen(origin) \in Nat
    BY TableLenNat
  <2>2. CASE s = TRUE
    <3>1. pos = 29
      BY ONLY <1>2, <2>2, j \in 0 .. NumKeys(s), pos = FieldsAt(s, origin) + 2 * j
         DEF NumKeys, FieldsAt
    <3> QED BY ONLY <2>2, <3>1 DEF Place
  <2>3. CASE s = FALSE
    <3>1. pos = 3 + TableLen(origin) + 36
      BY ONLY <1>2, <2>1, <2>3, j \in 0 .. NumKeys(s), pos = FieldsAt(s, origin) + 2 * j
         DEF NumKeys, FieldsAt
    <3>2. pos = Size(s, origin) - 1
      BY ONLY <2>1, <2>3, <3>1 DEF Size
    <3> QED BY ONLY <3>2 DEF Place
  <2> QED BY <2>2, <2>3
<1> QED BY <1>1, <1>2 DEF NumKeys

LEMMA Kinds == ASSUME NEW s \in BOOLEAN, Going(s) PROVE Place(s)
<1>1. Header(origin) /\ Stop(s) /\ TableRead(s)
  BY DEF Going, FileIs, InStep
<1>2. pos \in Nat /\ pos < Size(s, origin) /\ Size(s, origin) \in Nat
  BY PosIsNat DEF PosNat, Going
<1>3. Chans \in Nat /\ Chans > 0 /\ TableLen(origin) \in Nat
      /\ (HasTable(origin) => TableLen(origin) = 2 * Chans + 2)
      /\ (~HasTable(origin) => TableLen(origin) = 0)
  BY <1>1, Setting DEF Chans
<1>4. CASE pos \in 1 .. NameAt(s)
  <2>1. CASE pos + 1 < NameAt(s) \/ pos = NameAt(s) - 1
    BY ONLY <2>1 DEF Place
  <2>2. CASE pos = NameAt(s)
    <3>1. CASE HasTable(origin) /\ s = FALSE
      <4>1. pos = TableAt(s)
        BY ONLY <2>2, <3>1 DEF TableAt, NameAt
      <4> QED BY ONLY <3>1, <4>1 DEF Place
    <3>2. CASE ~HasTable(origin) \/ s = TRUE
      <4>1. pos = FieldsAt(s, origin) + 2 * 0
        BY ONLY <1>3, <2>2, <3>2, s \in BOOLEAN DEF FieldsAt, NameAt
      <4>2. 0 \in 0 .. NumKeys(s)
        BY DEF NumKeys
      <4> QED BY ONLY <1>1, <4>1, <4>2, FieldKind, s \in BOOLEAN
    <3> QED BY <3>1, <3>2
  <2> QED BY ONLY <1>2, <1>4, <2>1, <2>2 DEF NameAt
<1>5. CASE HasTable(origin) /\ \E j \in 0 .. Chans : pos = TableAt(s) + 1 + 2 * j
  <2>1. PICK j \in 0 .. Chans : pos = TableAt(s) + 1 + 2 * j
    BY ONLY <1>5
  <2>2. TableAt(s) \in Nat
    BY DEF TableAt
  <2>3. pos > TableAt(s)
    BY ONLY <1>3, <2>1, <2>2
  <2>4. /\ channel_index \in 0 .. Chans
        /\ \/ pos = TableAt(s) + 1 + 2 * channel_index
           \/ /\ pos > TableAt(s) + 1 + 2 * channel_index
              /\ channel_index = Chans
    BY ONLY <1>1, <1>5, <2>3 DEF TableRead, Chans
  <2>5. pos = TableAt(s) + 1 + 2 * channel_index
    BY ONLY <1>3, <2>1, <2>2, <2>4
  <2>6. CASE channel_index = Chans
    BY ONLY <1>5, <2>5, <2>6 DEF Place, TableEndAhead
  <2>7. CASE channel_index # Chans
    <3>1. channel_index \in 0 .. Chans - 1
      BY ONLY <1>3, <2>4, <2>7
    <3> QED BY ONLY <1>5, <2>5, <3>1 DEF Place, ChannelAhead
  <2> QED BY <2>6, <2>7
<1>6. CASE \E j \in 0 .. NumKeys(s) : pos = FieldsAt(s, origin) + 2 * j
  BY ONLY <1>1, <1>6, FieldKind, s \in BOOLEAN
<1>7. CASE s /\ pos \in {31, Size(s, origin) - 1}
  <2>1. CASE pos = Size(s, origin) - 1
    BY ONLY <2>1 DEF Place
  <2>2. CASE pos = 31
    <3>1. s = TRUE
      BY <1>7
    <3>2. CASE HasTable(origin)
      BY ONLY <2>2, <3>1, <3>2 DEF Place, TableAt
    <3>3. CASE ~HasTable(origin)
      <4>1. pos = Size(s, origin) - 1
        BY ONLY <1>3, <2>2, <3>1, <3>3 DEF Size
      <4> QED BY ONLY <4>1 DEF Place
    <3> QED BY <3>2, <3>3
  <2> QED BY <1>7, <2>1, <2>2
<1> QED BY <1>1, <1>4, <1>5, <1>6, <1>7 DEF Stop, Chans

(* Every item but the name is of a length that is accepted: a keyword, or  *)
(* the name of the raw data file.                                          *)
ItemIs(s, t) ==
  /\ W(s)[pos + 1] = String(t)
  /\ t \in Keywords \/ (s /\ pos = 2 /\ t = origin.Rawdatafile /\ t \in RawNames)
  /\ t = "fchannel" => ChannelAhead(s)
  /\ t = "HEADER_END" => pos = Size(s, origin) - 1

LEMMA PlaceItem ==
  ASSUME NEW s \in BOOLEAN, Going(s), pos # NameAt(s) - 1
  PROVE  \E t : ItemIs(s, t)
<1>1. Header(origin) /\ InStep(s) /\ (s => origin.Rawdatafile \in RawNames)
  BY DEF Going, FileIs, Header
<1>2. /\ Layout(W(s), s, origin) /\ Chans \in Nat /\ Chans > 0
  BY <1>1, Setting DEF W, Chans
<1>3. pos \in Nat /\ pos >= 1
  BY PosIsNat DEF PosNat, Going
<1>4. ASSUME NEW t \in Keywords \ {"fchannel", "HEADER_END"}, W(s)[pos + 1] = String(t)
      PROVE  \E u : ItemIs(s, u)
  BY ONLY <1>4 DEF ItemIs
<1>5. Place(s)
  BY Kinds
<1>6. CASE pos + 1 < NameAt(s)
  <2>1. CASE s = FALSE
    <3>1. pos + 1 = NameAt(s) - 1
      BY ONLY <1>3, <1>6, <2>1 DEF NameAt
    <3>2. W(s)[pos + 1] = String("source_name")
      BY ONLY <1>2, <3>1 DEF Layout
    <3>3. "source_name" \in Keywords \ {"fchannel", "HEADER_END"}
      BY DEF Keywords
    <3> QED BY ONLY <1>4, <3>2, <3>3
  <2>2. CASE s = TRUE
    <3>1. pos + 1 = 2 \/ (pos = 2 /\ pos + 1 = 3) \/ pos + 1 = NameAt(s) - 1
      BY ONLY <1>3, <1>6, <2>2 DEF NameAt
    <3>2. \/ W(s)[pos + 1] = String("rawdatafile")
          \/ pos = 2 /\ W(s)[pos + 1] = String(origin.Rawdatafile)
          \/ W(s)[pos + 1] = String("source_name")
      BY ONLY <1>1, <1>2, <2>2, <3>1 DEF Layout
    <3>3. {"source_name", "rawdatafile"} \subseteq Keywords \ {"fchannel", "HEADER_END"}
      BY DEF Keywords
    <3>4. CASE pos = 2 /\ W(s)[pos + 1] = String(origin.Rawdatafile)
      <4>1. RawNames \cap Keywords = {}
        BY FilAssumption, Zenon
      <4>2. {"fchannel", "HEADER_END"} \subseteq Keywords
        BY DEF Keywords
      <4>3. ItemIs(s, origin.Rawdatafile)
        BY ONLY <1>1, <2>2, <3>4, <4>1, <4>2 DEF ItemIs
      <4> QED BY ONLY <4>3
    <3> QED BY ONLY <1>4, <3>2, <3>3, <3>4
  <2> QED BY <2>1, <2>2
<1>7. CASE HasTable(origin) /\ pos = TableAt(s)
  <2>1. W(s)[pos + 1] = String("FREQUENCY_START")
    BY ONLY <1>2, <1>7 DEF Layout, TableIs
  <2>2. "FREQUENCY_START" \in Keywords \ {"fchannel", "HEADER_END"}
    BY DEF Keywords
  <2> QED BY ONLY <1>4, <2>1, <2>2
<1>8. CASE ChannelAhead(s)
  <2>1. W(s)[pos + 1] = String("fchannel")
    BY ONLY <1>1, <1>8, ChannelPlace, s \in BOOLEAN
  <2>2. ItemIs(s, "fchannel")
    BY ONLY <1>8, <2>1 DEF ItemIs, Keywords
  <2> QED BY ONLY <2>2
<1>9. CASE TableEndAhead(s)
  <2>1. W(s)[TableAt(s) + 2 * Chans + 2] = String("FREQUENCY_END")
    BY ONLY <1>2, <1>9 DEF Layout, TableIs, TableEndAhead, Chans
  <2>2. pos + 1 = TableAt(s) + 2 * Chans + 2
    BY ONLY <1>2, <1>9 DEF TableEndAhead, TableAt
  <2>3. "FREQUENCY_END" \in Keywords \ {"fchannel", "HEADER_END"}
    BY DEF Keywords
  <2> QED BY ONLY <1>4, <2>1, <2>2, <2>3
<1>10. CASE \E j \in 1 .. NumKeys(s) : FieldAhead(s, j)
  <2>1. PICK j \in 1 .. NumKeys(s) : FieldAhead(s, j)
    BY ONLY <1>10
  <2>2. W(s)[pos + 1] = String(Keys(s)[j])
    BY ONLY <1>1, <2>1, FieldPlace, s \in BOOLEAN
  <2>3. Keys(s)[j] \in Keywords \ {"fchannel", "HEADER_END"}
    <3>1. Keys(s)[j] \in Fields
      BY ONLY <2>1, KeysAre, s \in BOOLEAN
    <3>2. Fields \subseteq Keywords \ {"fchannel", "HEADER_END"}
      BY DEF Keywords, Fields, Doubles, Ints
    <3> QED BY ONLY <3>1, <3>2
  <2> QED BY ONLY <1>4, <2>2, <2>3
<1>11. CASE s /\ pos = 29
  <2>1. W(s)[30] = String("nsamples")
    BY ONLY <1>2, <1>11 DEF Layout
  <2>2. "nsamples" \in Keywords \ {"fchannel", "HEADER_END"}
    BY DEF Keywords
  <2>3. pos + 1 = 30
    BY ONLY <1>11
  <2> QED BY ONLY <1>4, <2>1, <2>2, <2>3
<1>12. CASE pos = Size(s, origin) - 1
  <2>1. pos + 1 = Size(s, origin)
    <3>1. Size(s, origin) \in Nat
      BY <1>1, Setting
    <3> QED BY ONLY <1>12, <3>1
  <2>2. W(s)[pos + 1] = String("HEADER_END")
    BY ONLY <1>2, <2>1 DEF Layout
  <2>3. ItemIs(s, "HEADER_END")
    BY ONLY <1>12, <2>2 DEF ItemIs, Keywords
  <2> QED BY ONLY <2>3
<1> QED BY ONLY <1>5, <1>6, <1>7, <1>8, <1>9, <1>10, <1>11, <1>12, pos # NameAt(s) - 1 DEF Place

LEMMA PlaceLength ==
  ASSUME NEW s \in BOOLEAN, Going(s), pos # NameAt(s) - 1
  PROVE  \E t : W(s)[pos + 1] = String(t) /\ Len(t) \in 1 .. MaxString
<1>1. PICK t : ItemIs(s, t)
  BY PlaceItem
<1>2. t \in Keywords \cup OwnNames \cup RawNames
  BY ONLY <1>1 DEF ItemIs
<1>3. Len(t) \in 1 .. MaxString
  BY ONLY <1>2, StringLengths
<1> QED BY ONLY <1>1, <1>3 DEF ItemIs

(* Every turn but the last.                                                *)
LastItem(s) == pos = Size(s, origin) - 1 \/ (pos = NameAt(s) - 1 /\ NamedEnd)

LEMMA TakeAhead ==
  ASSUME NEW s \in BOOLEAN, Going(s), Ahead(s), ReadInHeader, ~LastItem(s),
         rd_pc' # "undefined"
  PROVE  Turned(s)
<1>1. Place(s) /\ pos # Size(s, origin) - 1
  BY Kinds DEF LastItem
<1>2. CASE pos = NameAt(s) - 1
  <2>1. ~NamedEnd
    BY <1>2 DEF LastItem
  <2>2. CASE Nameless
    BY ONLY <1>2, <2>2, TakeEmptyName, s \in BOOLEAN, Going(s), Ahead(s), ReadInHeader,
          rd_pc' # "undefined"
  <2>3. CASE ~Nameless /\ Long(origin.Source_name)
    <3>1. disk.items[pos + 1].text = origin.Source_name
      <4>1. disk.items[pos + 1] = String(origin.Source_name)
        BY <1>2, NamePlace DEF Ahead, NameNext
      <4> QED BY ONLY <4>1 DEF String
    <3>2. pos + 1 <= Len(disk.items)
      BY DEF Ahead
    <3> QED BY ONLY <1>2, <2>3, <3>1, <3>2, LongTurn, s \in BOOLEAN, Going(s), ReadInHeader,
                    rd_pc' # "undefined"
  <2>4. CASE ~Nameless /\ ~Long(origin.Source_name)
    BY ONLY <1>2, <2>1, <2>4, TakeGoodName, s \in BOOLEAN, Going(s), Ahead(s), ReadInHeader,
          rd_pc' # "undefined"
  <2> QED BY ONLY <2>2, <2>3, <2>4
<1>3. CASE \E j \in 1 .. NumKeys(s) : FieldAhead(s, j)
  BY ONLY <1>3, TakeField, s \in BOOLEAN, Going(s), Ahead(s), ReadInHeader
<1>4. CASE TableEndAhead(s)
  BY ONLY <1>4, TakeTableEnd, s \in BOOLEAN, Going(s), Ahead(s), ReadInHeader DEF TableEndAhead
<1>5. CASE ChannelAhead(s)
  BY ONLY <1>5, TakeChannel, s \in BOOLEAN, Going(s), Ahead(s), ReadInHeader,
          rd_pc' # "undefined"
<1>6. CASE HasTable(origin) /\ pos = TableAt(s)
  BY ONLY <1>6, TakeTable, s \in BOOLEAN, Going(s), Ahead(s), ReadInHeader
<1>7. CASE s /\ pos = 29
  BY ONLY <1>7, TakeOld, s \in BOOLEAN, Going(s), Ahead(s), ReadInHeader
<1>8. CASE pos + 1 < NameAt(s)
  BY ONLY <1>8, TakeFirst, s \in BOOLEAN, Going(s), Ahead(s), ReadInHeader,
          rd_pc' # "undefined"
<1> QED BY ONLY <1>1, <1>2, <1>3, <1>4, <1>5, <1>6, <1>7, <1>8 DEF Place

(* The end of the header was not among the items up to here.               *)
LEMMA NoEndYet ==
  ASSUME NEW s \in BOOLEAN, Going(s),
         \/ pos = Len(disk.items)
         \/ pos + 1 = Len(disk.items) /\ disk.items[pos + 1].text # "HEADER_END"
  PROVE  NoEnd
<1> SUFFICES ASSUME NamedEnd, NEW i \in DOMAIN disk.items
             PROVE  disk.items[i].text # "HEADER_END"
  BY DEF NoEnd
<1>1. /\ Header(origin) /\ InStep(s) /\ (s => origin.Rawdatafile # "HEADER_END")
      /\ IsSeq(disk.items, Len(disk.items))
  <2>1. RawNames \cap Keywords = {}
    BY FilAssumption, Zenon
  <2>2. "HEADER_END" \notin RawNames
    BY <2>1 DEF Keywords
  <2> QED BY <2>2 DEF Going, FileIs
<1>2. i \in 1 .. Len(disk.items)
  <2>1. DOMAIN disk.items = 1 .. Len(disk.items)
    BY ONLY <1>1, LenIs
  <2> QED BY ONLY <2>1, i \in DOMAIN disk.items
<1>3. pos \in Nat /\ pos < NameAt(s) /\ Len(disk.items) \in Nat
  <2>1. ~(pos >= NameAt(s)) /\ pos \in Nat /\ Len(disk.items) \in Nat
    BY <1>1, PosIsNat DEF InStep, NameRead, PosNat, Going
  <2> QED BY ONLY <2>1 DEF NameAt
<1>4. Layout(W(s), s, origin)
  BY <1>1, Setting DEF W
<1>5. CASE i <= pos
  <2>1. disk.items[i] = W(s)[i]
    <3>1. i \in 1 .. pos
      BY ONLY <1>2, <1>3, <1>5
    <3> QED BY ONLY <1>1, <3>1 DEF InStep, W
  <2>2. CASE s = FALSE
    <3>1. i = 1 \/ i = NameAt(s) - 1
      BY ONLY <1>2, <1>3, <1>5, <2>2 DEF NameAt
    <3>2. W(s)[i] = String("HEADER_START") \/ W(s)[i] = String("source_name")
      BY ONLY <1>4, <3>1 DEF Layout
    <3> QED BY ONLY <2>1, <3>2 DEF String
  <2>3. CASE s = TRUE
    <3>1. i = 1 \/ i = 2 \/ i = 3 \/ i = NameAt(s) - 1
      BY ONLY <1>2, <1>3, <1>5, <2>3 DEF NameAt
    <3>2. \/ W(s)[i] = String("HEADER_START") \/ W(s)[i] = String("rawdatafile")
          \/ W(s)[i] = String(origin.Rawdatafile) \/ W(s)[i] = String("source_name")
      BY ONLY <1>1, <1>4, <2>3, <3>1 DEF Layout
    <3>3. PICK r : r = origin.Rawdatafile /\ r # "HEADER_END"
      BY ONLY <1>1, <2>3
    <3> QED BY ONLY <2>1, <3>2, <3>3 DEF String
  <2> QED BY <2>2, <2>3
<1>6. CASE i > pos
  <2>1. i = pos + 1 /\ disk.items[pos + 1].text # "HEADER_END"
    <3>1. pos # Len(disk.items)
      BY ONLY <1>2, <1>3, <1>6
    <3>2. pos + 1 = Len(disk.items) /\ disk.items[pos + 1].text # "HEADER_END"
      BY <3>1
    <3>3. i = pos + 1
      BY ONLY <1>2, <1>3, <1>6, <3>2
    <3> QED BY ONLY <3>2, <3>3
  <2> QED BY ONLY <2>1
<1> QED BY ONLY <1>2, <1>3, <1>5, <1>6

LEMMA CutHere ==
  ASSUME NEW s \in BOOLEAN, Going(s)
  PROVE  /\ pos = Len(disk.items) => ~disk.whole
         /\ pos + 1 <= Len(disk.items) /\ ~Ahead(s) =>
              ~disk.whole /\ pos + 1 = Len(disk.items) /\ Damaged(pos + 1, s)
<1>1. FileIs(s) /\ InStep(s)
  BY DEF Going
<1>2. pos \in Nat /\ Len(disk.items) \in Nat /\ pos < Size(s, origin) /\ Size(s, origin) \in Nat
  BY PosIsNat DEF PosNat, Going
<1>3. ASSUME pos = Len(disk.items), disk.whole PROVE FALSE
  <2>1. Len(disk.items) = Size(s, origin)
    BY ONLY <1>1, <1>3 DEF FileIs
  <2> QED BY ONLY <1>2, <1>3, <2>1
<1>4. ASSUME pos + 1 <= Len(disk.items), ~Ahead(s)
      PROVE  ~disk.whole /\ pos + 1 = Len(disk.items) /\ Damaged(pos + 1, s)
  <2>1. disk.items[pos + 1] # W(s)[pos + 1]
    BY ONLY <1>4 DEF Ahead
  <2>2. pos + 1 \in 1 .. Len(disk.items)
    BY ONLY <1>2, <1>4
  <2> QED BY ONLY <1>1, <2>1, <2>2 DEF FileIs, W
<1> QED BY <1>3, <1>4

(* A string that is no keyword, at the very end of the file.               *)
Failed == /\ Stays /\ rd_pc' = "false" /\ ReaderOK' /\ fil' = fil
          /\ ~disk.whole /\ NoEnd

Unheard(t) == /\ t \in {"ERROR", Torn} /\ strtmp = t
              /\ get_string => pos' = pos + 1 /\ lost' = FALSE

LEMMA UnheardTurn ==
  ASSUME NEW s \in BOOLEAN, Going(s), pos + 1 = Len(disk.items), ~disk.whole,
         disk.items[pos + 1].text # "HEADER_END", NEW t, Unheard(t), ReadInHeader,
         rd_pc' # "undefined"
  PROVE  Turned(s) \/ Failed
<1>1. /\ rd_pc = "loop" /\ ObjOK(fil) /\ lost = FALSE /\ intTotalHeaderBytes \in Nat
      /\ channel_index \in Nat /\ expecting \subseteq {"rawdatafile", "source_name"}
      /\ pos \in Nat /\ Len(disk.items) \in Nat
  BY PosIsNat DEF Going, InStep, ReaderOK, PosNat
<1>2. NoEnd
  BY ONLY NoEndYet, s \in BOOLEAN, Going(s), pos + 1 = Len(disk.items),
          disk.items[pos + 1].text # "HEADER_END"
<1>3. ~AtEnd
  BY ONLY <1>1, pos + 1 = Len(disk.items) DEF AtEnd
<1>4. strtmp \notin Keywords \ {"HEADER_START"} /\ t \in AllNames /\ strtmp = t
  BY ErrorName DEF ErrorIs, Unheard
<1>5. Len(t) \in Nat
  BY ONLY <1>4, StringLengths
<1>6. CountString(0) => intTotalHeaderBytes' \in Nat
  <2>1. CountString(0) => intTotalHeaderBytes' = intTotalHeaderBytes + Len(t) + 4 + 0
    BY ONLY <1>4, Zenon DEF CountString
  <2> QED BY ONLY <1>1, <1>5, <2>1
<1>7. get_string => pos' = pos + 1 /\ lost' = FALSE
  BY DEF Unheard
<1>8. ASSUME get_string, CountString(0), Stays, expecting' \subseteq expecting,
             channel_index' = channel_index
      PROVE  ReaderOK'
  <2>1. pos' \in 0 .. Len(disk'.items)
    <3>1. disk' = disk
      BY ONLY <1>8 DEF Stays
    <3>2. pos + 1 \in 0 .. Len(disk.items)
      BY ONLY <1>1, pos + 1 = Len(disk.items)
    <3> QED BY ONLY <1>7, <1>8, <3>1, <3>2
  <2>2. lost' \in BOOLEAN
    BY ONLY <1>7, <1>8, Zenon
  <2>3. expecting' \subseteq {"rawdatafile", "source_name"}
    BY ONLY <1>1, <1>8
  <2> QED BY ONLY <1>1, <1>6, <1>8, <2>1, <2>2, <2>3 DEF ReaderOK
<1>9. CASE expecting = {}
  <2>1. ReadUnknown
    BY ONLY <1>1, <1>3, <1>4, <1>9, Acts, ReadInHeader
  <2>2. /\ get_string /\ CountString(0) /\ rd_pc' = "false" /\ Stays /\ fil' = fil
        /\ expecting' = expecting /\ channel_index' = channel_index
    BY ONLY <2>1, Zenon DEF ReadUnknown, InLoop, Stays
  <2>3. expecting' \subseteq expecting
    BY ONLY <2>2
  <2> QED BY ONLY <1>2, <1>8, <2>2, <2>3, ~disk.whole DEF Failed
<1>10. CASE expecting # {}
  <2>1. ReadName
    BY ONLY <1>1, <1>3, <1>4, <1>10, Acts, ReadInHeader
  <2>2. /\ get_string /\ CountString(0) /\ rd_pc' = "loop" /\ Stays
        /\ channel_index' = channel_index
        /\ \/ fil' = [fil EXCEPT !.Rawdatafile = t] /\ expecting' = expecting \ {"rawdatafile"}
           \/ fil' = [fil EXCEPT !.Source_name = t] /\ expecting' = expecting \ {"source_name"}
    <3>1. rd_pc' = "loop"
      BY ONLY <1>4, <1>5, <2>1, NameCopied, rd_pc' # "undefined"
    <3> QED BY ONLY <1>1, <1>4, <2>1, <3>1, Zenon DEF ReadName, InLoop, Stays
  <2>3. ObjOK(fil)'
    BY ONLY <1>1, <1>4, <2>2, ObjNames
  <2>4. expecting' \subseteq expecting
    BY ONLY <2>2
  <2>5. OutOfStep'
    <3>1. disk' = disk /\ origin' = origin /\ pos' = pos + 1 /\ lost' = FALSE
      BY ONLY <1>7, <2>2 DEF Stays
    <3>2. NoEnd'
      BY ONLY <1>2, <3>1 DEF NoEnd, NamedEnd
    <3> QED BY ONLY <3>1, <3>2, ~disk.whole, pos + 1 = Len(disk.items) DEF OutOfStep
  <2> QED BY ONLY <1>8, <2>2, <2>3, <2>4, <2>5 DEF Turned
<1> QED BY <1>9, <1>10

(* The last item of a file that was cut off inside it.                     *)
LEMMA TakeDamaged ==
  ASSUME NEW s \in BOOLEAN, Going(s), pos + 1 <= Len(disk.items), ~Ahead(s), ReadInHeader,
         rd_pc' # "undefined"
  PROVE  Turned(s) \/ Failed
<1>1. /\ ~disk.whole /\ pos + 1 = Len(disk.items)
      /\ disk.items[pos + 1].text = IF BadLength(W(s)[pos + 1].text)
                                    THEN W(s)[pos + 1].text ELSE Torn
  BY CutHere DEF Damaged, W
<1>2. lost = FALSE
  BY DEF Going, InStep
<1>3. ErrorIs /\ MaxString \in Nat /\ Len(Torn) \in 1 .. MaxString
  <2>1. Torn \in OwnNames
    BY DEF OwnNames
  <2> QED BY ONLY <2>1, ErrorName, StringLengths
<1>4. ASSUME disk.items[pos + 1].text = Torn PROVE Turned(s) \/ Failed
  <2>1. strtmp = Torn /\ (get_string => pos' = pos + 1 /\ lost' = FALSE)
    BY ONLY <1>2, <1>3, <1>4, Heard
  <2>2. Unheard(Torn)
    BY ONLY <2>1 DEF Unheard
  <2>3. disk.items[pos + 1].text # "HEADER_END"
    BY ONLY <1>3, <1>4 DEF ErrorIs
  <2> QED BY ONLY <1>1, <2>2, <2>3, UnheardTurn, s \in BOOLEAN, Going(s), ReadInHeader,
                    rd_pc' # "undefined"
<1>5. CASE pos # NameAt(s) - 1
  <2>1. PICK t : W(s)[pos + 1] = String(t) /\ Len(t) \in 1 .. MaxString
    BY ONLY <1>5, PlaceLength, s \in BOOLEAN, Going(s)
  <2>2. W(s)[pos + 1].text = t
    BY ONLY <2>1 DEF String
  <2>3. ~BadLength(W(s)[pos + 1].text)
    BY ONLY <1>3, <2>1, <2>2 DEF BadLength
  <2> QED BY ONLY <1>1, <1>4, <2>3
<1>6. CASE pos = NameAt(s) - 1
  <2>1. W(s)[pos + 1].text = origin.Source_name /\ origin.Source_name \in AllNames
    <3>1. W(s)[pos + 1] = String(origin.Source_name) /\ origin.Source_name \in AllNames
      BY <1>6, NamePlace DEF NameNext
    <3> QED BY ONLY <3>1 DEF String
  <2>2. PICK n : n = origin.Source_name
    OBVIOUS
  <2>3. n \in AllNames /\ Len(n) \in Nat
    BY ONLY <2>1, <2>2, StringLengths
  <2>4. CASE Len(n) > MaxString
    <3>1. Long(origin.Source_name)
      BY ONLY <2>2, <2>4, Zenon DEF Long
    <3>2. BadLength(W(s)[pos + 1].text)
      BY ONLY <2>1, <2>2, <2>4, Zenon DEF BadLength
    <3>3. disk.items[pos + 1].text = origin.Source_name
      BY ONLY <1>1, <2>1, <3>2
    <3> QED BY ONLY <1>6, <3>1, <3>3, LongTurn, s \in BOOLEAN, Going(s),
                    pos + 1 <= Len(disk.items), ReadInHeader, rd_pc' # "undefined"
  <2>5. CASE Len(n) < 1
    <3>1. BadLength(W(s)[pos + 1].text)
      BY ONLY <2>1, <2>2, <2>5, Zenon DEF BadLength
    <3>2. disk.items[pos + 1].text = n
      BY ONLY <1>1, <2>1, <2>2, <3>1
    <3>3. strtmp = "ERROR" /\ (get_string => pos' = pos + 1 /\ lost' = FALSE)
      <4>1. PICK l \in Nat : l = Len(n)
        BY ONLY <2>3
      <4>2. l < 1 /\ ~(l > 0)
        BY ONLY <2>5, <4>1
      <4> QED BY ONLY <1>2, <3>2, <4>1, <4>2, BadItem
    <3>4. Unheard("ERROR")
      BY ONLY <3>3 DEF Unheard
    <3>5. n # "HEADER_END"
      <4>1. "HEADER_END" \in Keywords
        BY DEF Keywords
      <4>2. PICK m : m = "HEADER_END"
        OBVIOUS
      <4>3. Len(m) \in 1 .. MaxString
        BY ONLY <4>1, <4>2, StringLengths
      <4>4. n # m
        BY ONLY <1>3, <2>5, <4>3
      <4> QED BY ONLY <4>2, <4>4
    <3> QED BY ONLY <1>1, <3>2, <3>4, <3>5, UnheardTurn, s \in BOOLEAN, Going(s), ReadInHeader,
                    rd_pc' # "undefined"
  <2>6. CASE ~(Len(n) > MaxString) /\ ~(Len(n) < 1)
    <3>1. ~BadLength(W(s)[pos + 1].text)
      BY ONLY <2>1, <2>2, <2>6, Zenon DEF BadLength
    <3> QED BY ONLY <1>1, <1>4, <3>1
  <2> QED BY ONLY <2>4, <2>5, <2>6
<1> QED BY <1>5, <1>6

-----------------------------------------------------------------------------
(* Where the reading begins, and where it fails.                           *)
Unread == /\ Stays /\ rd_pc' \in {"false", "exit"} /\ ReaderOK' /\ fil' = fil
          /\ (~disk.whole /\ NoEnd) \/ Long(origin.Source_name)

(* Before the first item.                                                  *)
Opened(s) ==
  rd_pc = "start" /\ FileIs(s) /\ AtStart /\ ReaderOK /\ ObjOK(fil) /\ ObjOK(before)

Begun(s) == Opened(s) /\ Stays /\ fil' = fil /\ pos' = 1 /\ lost' = FALSE /\ expecting' = {}
            /\ channel_index' = 0 /\ 1 <= Len(disk.items) /\ disk.items[1] = W(s)[1]
            /\ intTotalHeaderBytes' = W(s)[1].bytes

LEMMA BegunInStep == ASSUME NEW s \in BOOLEAN, Begun(s) PROVE InStep(s)' /\ ReaderOK'
<1>1. /\ Header(origin) /\ fil = before /\ fil' = before /\ before' = before
      /\ disk' = disk /\ origin' = origin
  BY DEF Begun, Opened, AtStart, FileIs, Stays
<1>2. pos' = 1 /\ lost' = FALSE /\ expecting' = {} /\ channel_index' = 0
      /\ disk.items[1] = W(s)[1] /\ intTotalHeaderBytes' = W(s)[1].bytes
      /\ pos = 0
  BY DEF Begun, Opened, AtStart
<1>3. /\ TableLen(origin) \in Nat /\ Size(s, origin) \in Nat
      /\ TableAt(s) >= 1 /\ TableAt(s) \in Nat /\ FieldsAt(s, origin) \in Nat
      /\ FieldsAt(s, origin) >= 1
  <2>1. TableLen(origin) \in Nat /\ Size(s, origin) \in Nat
    BY <1>1, Setting
  <2> QED BY ONLY <2>1, s \in BOOLEAN DEF TableAt, FieldsAt
<1>4. ~NameRead(s)' /\ 1 \in 1 .. NameAt(s)
  BY <1>2 DEF NameRead, NameAt
<1>5. Stop(s)'
  BY <1>2, <1>4 DEF Stop
<1>6. 1 < Size(s, origin)
  BY ONLY <1>3, s \in BOOLEAN DEF Size
<1>7. NamesRead(s)'
  <2>1. Expected(s)' = {}
    <3>1. 1 # NameAt(s) - 1
      BY DEF NameAt
    <3> QED BY ONLY <1>2, <1>4, <3>1 DEF Expected, NameAt
  <2>2. ~(1 >= 3)
    OBVIOUS
  <2> QED BY ONLY <1>1, <1>2, <1>4, <2>1, <2>2 DEF NamesRead
<1>8. TableRead(s)'
  <2>1. fil.UseFrequencyTable \in BOOLEAN
    BY DEF Begun, Opened, ObjOK
  <2>2. ~(pos' > TableAt(s))
    BY ONLY <1>2, <1>3
  <2>3. 0 <= MaxChans /\ \A i \in 0 .. MaxChans - 1 : ~(i < 0)
    BY Bounds
  <2> QED BY ONLY <1>1, <1>2, <1>4, <2>1, <2>2, <2>3 DEF TableRead
<1>9. FieldsRead(s)'
  <2>1. \A j \in 1 .. NumKeys(s) : ~(pos' >= FieldsAt(s, origin) + 2 * j)
    BY ONLY <1>2, <1>3 DEF NumKeys
  <2> QED BY ONLY <1>1, <2>1 DEF FieldsRead
<1>10. BytesRead(s)' /\ intTotalHeaderBytes' \in Nat
  <2>1. /\ BytesAdd(W(s), Size(s, origin)) /\ Bytes(W(s), 0) = 0
    BY <1>1, BytesGrow DEF W
  <2>2. /\ W(s)[0 + 1].bytes \in Nat /\ Bytes(W(s), 0 + 1) = Bytes(W(s), 0) + W(s)[0 + 1].bytes
    BY ONLY <1>3, <1>6, <2>1 DEF BytesAdd
  <2>3. 0 + 1 = 1
    OBVIOUS
  <2>4. W(s)[1].bytes \in Nat /\ Bytes(W(s), 1) = W(s)[1].bytes
    BY ONLY <2>1, <2>2, <2>3
  <2>5. intTotalHeaderBytes' = Bytes(W(s), 1) + 0
    BY ONLY <1>2, <2>4
  <2> QED BY ONLY <1>1, <1>2, <1>4, <2>4, <2>5 DEF BytesRead, W
<1>11. /\ pos' <= Len(disk'.items)
       /\ \A i \in 1 .. pos' : disk'.items[i] = Written(s, origin')[i]
  <2>1. 1 <= Len(disk.items)
    BY DEF Begun
  <2>2. \A i \in 1 .. 1 : i = 1
    OBVIOUS
  <2> QED BY ONLY <1>1, <1>2, <2>1, <2>2 DEF W
<1>12. InStep(s)'
  BY ONLY <1>1, <1>2, <1>4, <1>5, <1>6, <1>7, <1>8, <1>9, <1>10, <1>11 DEF InStep
<1>13. ReaderOK'
  <2>1. pos' \in 0 .. Len(disk'.items) /\ 0 \in 0 .. MaxChans
    <3>1. Len(disk.items) \in Nat
      BY DEF Begun, Opened, ReaderOK
    <3> QED BY ONLY <1>1, <1>2, <1>11, <3>1, Bounds
  <2>2. lost' \in BOOLEAN
    BY ONLY <1>2, Zenon
  <2> QED BY ONLY <1>2, <1>10, <2>1, <2>2 DEF ReaderOK
<1> QED BY <1>12, <1>13

LEMMA StartTurn ==
  ASSUME NEW s \in BOOLEAN, Opened(s), ReadStart
  PROVE  (Stays /\ fil' = fil /\ rd_pc' = "loop" /\ ReaderOK' /\ InStep(s)') \/ Unread
<1>1. /\ FileIs(s) /\ Header(origin) /\ IsSeq(disk.items, Len(disk.items))
      /\ pos = 0 /\ lost = FALSE /\ expecting = {} /\ channel_index = 0
      /\ intTotalHeaderBytes = 0 /\ ReaderOK
  BY DEF Opened, FileIs, AtStart
<1>2. /\ ~AtEnd /\ get_string /\ Stays /\ fil' = fil /\ expecting' = expecting
      /\ channel_index' = channel_index
      /\ \/ strtmp = "HEADER_START" /\ rd_pc' = "loop"
            /\ intTotalHeaderBytes' = Len(strtmp) + 4
         \/ strtmp # "HEADER_START" /\ rd_pc' = "false"
            /\ intTotalHeaderBytes' = intTotalHeaderBytes
  BY Zenon DEF ReadStart, Stays
<1>3. Len(disk.items) \in Nat /\ 1 <= Len(disk.items) /\ 0 + 1 = 1
      /\ 1 \in 1 .. Len(disk.items)
  <2>1. Len(disk.items) \in Nat
    BY <1>1 DEF IsSeq
  <2>2. Len(disk.items) # 0
    BY ONLY <1>1, <1>2 DEF AtEnd
  <2> QED BY ONLY <2>1, <2>2
<1>4. W(s)[1] = String("HEADER_START") /\ Len("HEADER_START") \in 1 .. MaxString
  <2>1. Layout(W(s), s, origin)
    BY <1>1, Setting DEF W
  <2>2. "HEADER_START" \in Keywords \cup OwnNames
    BY DEF Keywords
  <2> QED BY ONLY <2>1, <2>2, StringLengths DEF Layout
<1>5. PICK t : t = "HEADER_START"
  OBVIOUS
<1>6. CASE disk.items[1] = W(s)[1]
  <2>1. disk.items[pos + 1].text = t
    BY ONLY <1>1, <1>3, <1>4, <1>5, <1>6 DEF String
  <2>2. Len(t) \in 1 .. MaxString
    BY ONLY <1>4, <1>5, Zenon
  <2>3. strtmp = t /\ pos' = pos + 1 /\ lost' = FALSE
    BY ONLY <1>1, <1>2, <2>1, <2>2, Heard
  <2>4. rd_pc' = "loop" /\ intTotalHeaderBytes' = Len(t) + 4
    BY ONLY <1>2, <1>5, <2>3
  <2>5. intTotalHeaderBytes' = W(s)[1].bytes
    <3>1. W(s)[1].bytes = 4 + Len(t)
      BY ONLY <1>4, <1>5 DEF String
    <3>2. Len(t) + 4 = 4 + Len(t)
      BY ONLY <2>2
    <3> QED BY ONLY <2>4, <3>1, <3>2
  <2>6. Begun(s)
    <3>1. pos' = 1
      BY ONLY <1>1, <2>3
    <3> QED BY ONLY <1>1, <1>2, <1>3, <1>6, <2>3, <2>5, <3>1, Opened(s) DEF Begun
  <2> QED BY ONLY <1>2, <2>4, <2>6, BegunInStep, s \in BOOLEAN
<1>7. CASE disk.items[1] # W(s)[1]
  <2>1. ~disk.whole /\ 1 = Len(disk.items) /\ Damaged(1, s)
    BY ONLY <1>1, <1>3, <1>7 DEF FileIs, W
  <2>2. MaxString \in Nat /\ Len(Torn) \in 1 .. MaxString
    <3>1. Torn \in OwnNames
      BY DEF OwnNames
    <3> QED BY ONLY <3>1, StringLengths
  <2>3. disk.items[1].text = Torn
    <3>1. W(s)[1].text = t
      BY ONLY <1>4, <1>5 DEF String
    <3>2. ~BadLength(W(s)[1].text)
      <4>1. Len(t) \in 1 .. MaxString
        BY ONLY <1>4, <1>5, Zenon
      <4> QED BY ONLY <2>2, <3>1, <4>1 DEF BadLength
    <3> QED BY ONLY <2>1, <3>2 DEF Damaged, W
  <2>4. strtmp = Torn /\ pos' = pos + 1 /\ lost' = FALSE
    <3>1. disk.items[pos + 1].text = Torn
      BY ONLY <1>1, <1>3, <2>3
    <3> QED BY ONLY <1>1, <1>2, <2>2, <3>1, Heard
  <2>5. rd_pc' = "false" /\ intTotalHeaderBytes' = intTotalHeaderBytes
    <3>1. Torn # "HEADER_START"
      BY ErrorName DEF ErrorIs
    <3> QED BY ONLY <1>2, <2>4, <3>1
  <2>6. ReaderOK'
    <3>1. pos' \in 0 .. Len(disk'.items)
      <4>1. disk' = disk
        BY ONLY <1>2 DEF Stays
      <4> QED BY ONLY <1>1, <1>3, <2>4, <4>1
    <3>2. lost' \in BOOLEAN
      BY ONLY <2>4, Zenon
    <3> QED BY ONLY <1>1, <1>2, <2>5, <3>1, <3>2 DEF ReaderOK
  <2>7. NoEnd
    <3>1. DOMAIN disk.items = 1 .. Len(disk.items)
      BY ONLY <1>1, LenIs
    <3>2. \A i \in DOMAIN disk.items : i = 1
      <4>1. DOMAIN disk.items = 1 .. 1
        BY ONLY <2>1, <3>1, Zenon
      <4>2. \A i \in 1 .. 1 : i = 1
        OBVIOUS
      <4> QED BY ONLY <4>1, <4>2, Zenon
    <3>3. Torn # "HEADER_END"
      BY ErrorName DEF ErrorIs
    <3> QED BY ONLY <2>3, <3>2, <3>3 DEF NoEnd
  <2> QED BY ONLY <1>2, <2>1, <2>5, <2>6, <2>7 DEF Unread
<1> QED BY <1>6, <1>7

LEMMA StartEof == ASSUME NEW s \in BOOLEAN, Opened(s), ReadEof PROVE Unread
<1>1. /\ FileIs(s) /\ Header(origin) /\ IsSeq(disk.items, Len(disk.items))
      /\ pos = 0 /\ lost = FALSE /\ ReaderOK
  BY DEF Opened, FileIs, AtStart
<1>2. /\ AtEnd /\ Stays /\ fil' = fil /\ rd_pc' = "exit" /\ ReaderOK'
  BY <1>1, Zenon DEF ReadEof, Stays, ReaderOK
<1>3. Len(disk.items) = 0
  BY ONLY <1>1, <1>2 DEF AtEnd
<1>4. ~disk.whole
  <2>1. Size(s, origin) # 0
    <3>1. TableLen(origin) \in Nat
      BY <1>1, Setting
    <3> QED BY ONLY <3>1, s \in BOOLEAN DEF Size
  <2> QED BY ONLY <1>1, <1>3, <2>1 DEF FileIs
<1>5. NoEnd
  <2>1. DOMAIN disk.items = 1 .. Len(disk.items)
    BY ONLY <1>1, LenIs
  <2>2. DOMAIN disk.items = {}
    BY ONLY <1>3, <2>1
  <2> QED BY ONLY <2>2 DEF NoEnd
<1> QED BY ONLY <1>2, <1>4, <1>5 DEF Unread

LEMMA LoopEof == ASSUME NEW s \in BOOLEAN, Going(s), pos = Len(disk.items), ReadInHeader PROVE Unread
<1>1. rd_pc = "loop" /\ lost = FALSE /\ ReaderOK
  BY DEF Going, InStep
<1>2. AtEnd
  BY ONLY <1>1, pos = Len(disk.items) DEF AtEnd
<1>3. ReadEof
  BY <1>1, <1>2 DEF ReadInHeader, ReadStart, ReadHeaderEnd, ReadMark, ReadFrequencyStart,
     ReadFrequencyEnd, ReadChannel, ReadValue, ReadNsamples, ReadName, ReadUnknown, InLoop
<1>4. Stays /\ fil' = fil /\ rd_pc' = "exit" /\ ReaderOK'
  BY ONLY <1>1, <1>3, Zenon DEF ReadEof, Stays, ReaderOK
<1>5. ~disk.whole /\ NoEnd
  BY CutHere, NoEndYet
<1> QED BY ONLY <1>4, <1>5 DEF Unread

(* A reader out of step finds the end of the file, or a string that is     *)
(* nothing it knows.                                                       *)
LEMMA OutTurn ==
  ASSUME rd_pc = "loop", OutOfStep, ReaderOK, ReadInHeader
  PROVE  Unread
<1>1. CASE lost = FALSE /\ pos = Len(disk.items) /\ ~disk.whole /\ NoEnd
  <2>1. AtEnd
    BY ONLY <1>1 DEF AtEnd
  <2>2. ReadEof
    BY <2>1 DEF ReadInHeader, ReadStart, ReadHeaderEnd, ReadMark, ReadFrequencyStart,
       ReadFrequencyEnd, ReadChannel, ReadValue, ReadNsamples, ReadName, ReadUnknown, InLoop
  <2>3. Stays /\ fil' = fil /\ rd_pc' = "exit" /\ ReaderOK'
    BY ONLY <2>2, ReaderOK, Zenon DEF ReadEof, Stays, ReaderOK
  <2> QED BY ONLY <1>1, <2>3 DEF Unread
<1>2. CASE lost = TRUE /\ expecting = {} /\ Long(origin.Source_name)
  <2>1. ~AtEnd
    BY ONLY <1>2 DEF AtEnd
  <2>2. strtmp = "ERROR"
    BY ONLY <1>2, Zenon DEF strtmp
  <2>3. ReadUnknown
    <3>1. strtmp \notin Keywords \ {"HEADER_START"}
      BY ONLY <2>2, ErrorName DEF ErrorIs
    <3> QED BY ONLY <1>2, <2>1, <3>1, Acts, ReadInHeader, rd_pc = "loop"
  <2>4. /\ get_string /\ CountString(0) /\ rd_pc' = "false" /\ Stays /\ fil' = fil
        /\ expecting' = expecting /\ channel_index' = channel_index
    BY ONLY <2>3, Zenon DEF ReadUnknown, InLoop, Stays
  <2>5. pos' = pos /\ lost' = TRUE
    BY ONLY <1>2, <2>4, Zenon DEF get_string
  <2>6. intTotalHeaderBytes' \in Nat
    <3>1. intTotalHeaderBytes' = intTotalHeaderBytes + Len("ERROR") + 4 + 0
      BY <2>2, <2>4, Zenon DEF CountString
    <3>2. intTotalHeaderBytes' = intTotalHeaderBytes + 5 + 4 + 0
      BY <3>1, CountsErrorIs, Zenon DEF CountsError
    <3>3. intTotalHeaderBytes \in Nat
      BY DEF ReaderOK
    <3> QED BY ONLY <3>2, <3>3
  <2>7. ReaderOK'
    <3>1. lost' \in BOOLEAN
      BY ONLY <2>5, Zenon
    <3>2. disk' = disk
      BY ONLY <2>4 DEF Stays
    <3> QED BY ONLY <2>4, <2>5, <2>6, <3>1, <3>2, ReaderOK DEF ReaderOK
  <2> QED BY ONLY <1>2, <2>4, <2>7 DEF Unread
<1> QED BY <1>1, <1>2 DEF OutOfStep

-----------------------------------------------------------------------------
(* Numbers of samples.                                                     *)
LEMMA Int32Is ==
  ASSUME NEW x \in Int
  PROVE  Int32(x) \in Int32s /\ (x \in 0 .. (I32 \div 2) - 1 => Int32(x) = x)
<1>1. PICK h \in Nat : h = I32 \div 2 /\ I32 = 2 * h /\ h >= 128
  BY Bounds
<1>2. PICK n \in Nat \ {0} : n = I32 /\ n = 2 * h
  BY <1>1
<1>3. (x + h) % n \in 0 .. n - 1
  <2>1. x + h \in Int
    BY <1>1
  <2> QED BY ONLY <2>1, <1>2, ModRange
<1>4. Int32(x) = ((x + h) % n) - h
  BY ONLY <1>1, <1>2 DEF Int32
<1>5. ASSUME x \in 0 .. h - 1 PROVE Int32(x) = x
  <2>1. x + h \in 0 .. n - 1
    BY ONLY <1>2, <1>5, h \in Nat
  <2>2. (x + h) % n = x + h
    BY ONLY <2>1, <1>2, ModId
  <2> QED BY ONLY <1>4, <1>5, <2>2, h \in Nat
<1>6. ((x + h) % n) - h \in -h .. h - 1
  BY ONLY <1>2, <1>3, h \in Nat
<1> QED BY ONLY <1>1, <1>4, <1>5, <1>6 DEF Int32s

LEMMA GrowingProduct ==
  ASSUME NEW a \in Nat, NEW b \in Nat \ {0}
  PROVE  a * b \in Nat /\ a * b >= a
<1>1. a * 1 <= a * b
  <2>1. 1 * a <= b * a
    BY ProductOrder
  <2>2. 1 * a = a * 1 /\ b * a = a * b
    OBVIOUS
  <2> QED BY <2>1, <2>2
<1> QED BY <1>1, ProductNat

(* Fields nobody has set can make the size of a sample negative, but then  *)
(* it is large.                                                            *)
SampleBits(d) == d = 0 \/ (d \in Nat /\ d >= 8) \/ (-d \in Nat /\ -d >= 77)

LEMMA SampleBitsAre ==
  ASSUME NEW a, a = -77 \/ (a \in Nat /\ a >= 8),
         NEW b, b = -77 \/ b \in Nat \ {0}, NEW c, c = -77 \/ c \in Nat
  PROVE  a * b * c \in Int /\ SampleBits(a * b * c)
<1>1. \E e : e = a * b /\ ((e \in Nat /\ e >= 8) \/ (-e \in Nat /\ -e >= 77 /\ e \in Int))
  <2>1. CASE a = -77 /\ b = -77
    BY <2>1
  <2>2. CASE a = -77 /\ b \in Nat \ {0}
    BY <2>2
  <2>3. CASE a \in Nat /\ a >= 8 /\ b = -77
    BY <2>3
  <2>4. CASE a \in Nat /\ a >= 8 /\ b \in Nat \ {0}
    BY <2>4, GrowingProduct
  <2> QED BY <2>1, <2>2, <2>3, <2>4
<1>2. PICK e : e = a * b /\ ((e \in Nat /\ e >= 8) \/ (-e \in Nat /\ -e >= 77 /\ e \in Int))
  BY <1>1
<1>3. CASE c = 0
  <2>1. e * c = 0
    BY ONLY <1>2, <1>3
  <2> QED BY ONLY <1>2, <2>1 DEF SampleBits
<1>4. CASE c = -77
  <2>1. e * c \in Int /\ SampleBits(e * c)
    BY ONLY <1>2, <1>4 DEF SampleBits
  <2> QED BY ONLY <1>2, <2>1
<1>5. CASE c \in Nat \ {0} /\ e \in Nat /\ e >= 8
  <2>1. e * c \in Nat /\ e * c >= e
    BY ONLY <1>5, GrowingProduct
  <2>2. SampleBits(e * c) /\ e * c \in Int
    BY ONLY <1>5, <2>1 DEF SampleBits
  <2> QED BY ONLY <1>2, <2>2
<1>6. CASE c \in Nat \ {0} /\ -e \in Nat /\ -e >= 77 /\ e \in Int
  <2>1. (-e) * c \in Nat /\ (-e) * c >= -e
    BY ONLY <1>6, GrowingProduct
  <2>2. (-e) * c = -(e * c) /\ e * c \in Int
    BY ONLY <1>6
  <2>3. SampleBits(e * c)
    BY ONLY <1>6, <2>1, <2>2 DEF SampleBits
  <2> QED BY ONLY <1>2, <2>2, <2>3
<1> QED BY <1>2, <1>3, <1>4, <1>5, <1>6

LEMMA QuotientBelow ==
  ASSUME NEW k \in Nat \ {0}, NEW d \in Nat, d >= k, NEW n \in Nat, NEW m \in Nat, n <= k * m
  PROVE  n \div d \in 0 .. m
<1>1. PICK q \in Nat, r \in Nat : n = q * d + r /\ q = n \div d
  <2>1. d \in Nat \ {0}
    OBVIOUS
  <2>2. PICK q \in Nat, r \in 0 .. d - 1 : n = q * d + r /\ q = n \div d
    BY <2>1, DigitsOf
  <2>3. r \in Nat
    BY <2>1, <2>2
  <2> QED BY <2>2, <2>3
<1>2. q * k <= q * d /\ q * d \in Nat /\ q * k \in Nat
  <2>1. k * q <= d * q
    BY ProductOrder
  <2> QED BY <2>1
<1>3. q * k <= m * k /\ m * k \in Nat
  <2>1. k * m = m * k
    OBVIOUS
  <2> QED BY <1>1, <1>2, <2>1
<1>4. ~(q >= m + 1)
  <2>1. ASSUME q >= m + 1 PROVE FALSE
    <3>1. (m + 1) * k <= q * k /\ (m + 1) * k = m * k + k
      BY <2>1, ProductOrder
    <3> QED BY <1>2, <1>3, <3>1
  <2> QED BY <2>1
<1> QED BY <1>1, <1>4

LEMMA TruncatedIs ==
  ASSUME NEW n \in Int, -(4 * I32) <= n, n <= 4 * I32 - 8, NEW d \in Int, SampleBits(d)
  PROVE  Truncated(n, d) \in Int32s
<1>1. PICK h \in Nat : h = I32 \div 2 /\ I32 = 2 * h /\ h >= 128
  BY Bounds
<1>2. -(8 * h) <= n /\ n <= 8 * (h - 1) /\ h - 1 \in Nat /\ Int32s = -h .. h - 1
  BY <1>1 DEF Int32s
<1> DEFINE m == Magnitude(n)
           e == Magnitude(d)
<1>3. m \in Nat /\ m = (IF n < 0 THEN -n ELSE n)
  BY DEF Magnitude
<1>4. e \in Nat /\ (d < 0 => e >= 77) /\ (d > 0 => e >= 8) /\ (d # 0 => e >= 8)
  BY DEF Magnitude, SampleBits
<1> HIDE DEF m, e
<1>5. CASE d = 0
  <2>1. Truncated(n, d) = -h
    BY ONLY <1>1, <1>5 DEF Truncated
  <2> QED BY ONLY <1>1, <1>2, <2>1
<1>6. CASE d # 0 /\ ~((n < 0) = (d < 0))
  <2>1. Truncated(n, d) = -(m \div e)
    BY ONLY <1>6 DEF Truncated, m, e
  <2>2. m <= 8 * h
    BY ONLY <1>2, <1>3, n \in Int, h \in Nat
  <2>3. m \div e \in 0 .. h
    BY ONLY <1>3, <1>4, <1>6, <2>2, QuotientBelow, h \in Nat, 8 \in Nat \ {0}
  <2>4. PICK q \in 0 .. h : q = m \div e
    BY ONLY <2>3
  <2>5. -q \in -h .. h - 1
    BY ONLY <1>1
  <2> QED BY ONLY <1>2, <2>1, <2>4, <2>5
<1>7. CASE d > 0 /\ ~(n < 0)
  <2>1. Truncated(n, d) = m \div e
    BY ONLY <1>7, d \in Int DEF Truncated, m, e
  <2>2. m <= 8 * (h - 1)
    BY ONLY <1>2, <1>3, <1>7, n \in Int
  <2>3. m \div e \in 0 .. h - 1
    BY ONLY <1>2, <1>3, <1>4, <1>7, <2>2, QuotientBelow, 8 \in Nat \ {0}
  <2>4. PICK q \in 0 .. h - 1 : q = m \div e
    BY ONLY <2>3
  <2>5. q \in -h .. h - 1
    BY ONLY <1>1
  <2> QED BY ONLY <1>2, <2>1, <2>4, <2>5
<1>8. CASE d < 0 /\ n < 0
  <2>1. Truncated(n, d) = m \div e
    BY ONLY <1>8, d \in Int DEF Truncated, m, e
  <2>2. m <= 77 * (h - 1)
    BY ONLY <1>1, <1>2, <1>3, <1>8, n \in Int
  <2>3. m \div e \in 0 .. h - 1
    BY ONLY <1>2, <1>3, <1>4, <1>8, <2>2, QuotientBelow, 77 \in Nat \ {0}
  <2>4. PICK q \in 0 .. h - 1 : q = m \div e
    BY ONLY <2>3
  <2>5. q \in -h .. h - 1
    BY ONLY <1>1
  <2> QED BY ONLY <1>2, <2>1, <2>4, <2>5
<1> QED BY <1>5, <1>6, <1>7, <1>8

LEMMA TruncatedExact ==
  ASSUME NEW q \in Nat, NEW d \in Nat \ {0}
  PROVE  Truncated(q * d, d) = q
<1>1. PICK n \in Nat : n = q * d
  BY ProductNat
<1>2. (q * d + 0) \div d = q
  <2>1. 0 \in 0 .. d - 1
    OBVIOUS
  <2> QED BY <2>1, ModOfMultiple
<1>3. n \div d = q
  <2>1. n = q * d + 0
    BY <1>1
  <2> QED BY ONLY <1>2, <2>1
<1>4. Truncated(n, d) = n \div d
  BY ONLY n \in Nat, d \in Nat \ {0} DEF Truncated, Magnitude
<1> QED BY ONLY <1>1, <1>3, <1>4

LEMMA EightAtLeast == ASSUME NEW x \in Nat \ {0}, x % 8 = 0 PROVE x >= 8
OBVIOUS

(* What an object tells of the number of samples in a file.                *)
LEMMA SamplesInt32 ==
  ASSUME NEW o, ObjOK(o), NEW x \in Int, disk.size \in Nat
  PROVE  nsamples(x, o.field["nbits"], o.field["nifs"], o.field["nchans"]) \in Int32s
<1>1. PICK h \in Nat : h = I32 \div 2 /\ I32 = 2 * h /\ h >= 128
  BY Bounds
<1>2. PICK z \in Int : z = Int32(disk.size)
  BY Int32Is DEF Int32s
<1>3. PICK y \in Int : y = Int32(z - x) /\ y \in -h .. h - 1
  <2>1. z - x \in Int
    BY <1>2
  <2>2. Int32(z - x) \in -h .. h - 1
    BY <2>1, <1>1, Int32Is DEF Int32s
  <2> QED BY <1>1, <2>2
<1>4. PICK a, b, c : a = o.field["nbits"] /\ b = o.field["nifs"] /\ c = o.field["nchans"]
  OBVIOUS
<1>5. /\ a = -77 \/ (a \in Nat \ {0} /\ a % 8 = 0)
      /\ b = -77 \/ b \in Nat \ {0}
      /\ c = -77 \/ c \in Nat
  BY <1>4 DEF ObjOK, Garbage
<1>6. a = -77 \/ (a \in Nat /\ a >= 8)
  BY ONLY <1>5, EightAtLeast
<1>8. a * b * c \in Int /\ SampleBits(a * b * c)
  BY ONLY <1>5, <1>6, SampleBitsAre
<1>9. -(4 * I32) <= 8 * y /\ 8 * y <= 4 * I32 - 8 /\ 8 * y \in Int
  BY ONLY <1>1, <1>3
<1>10. Truncated(8 * y, a * b * c) \in Int32s
  BY ONLY <1>8, <1>9, TruncatedIs
<1>11. nsamples(x, a, b, c) = Truncated(8 * y, a * b * c)
  BY ONLY <1>2, <1>3, Zenon DEF nsamples, sizeof_file
<1> QED BY ONLY <1>4, <1>10, <1>11

(* The samples of a file that is smaller than an int can count.            *)
LEMMA SamplesAre ==
  ASSUME NEW h, Header(h), NEW n \in Nat, NEW x \in Nat,
         disk.size = x + BytesOfSamples(h, n), disk.size < I32 \div 2
  PROVE  nsamples(x, h.field["nbits"], h.field["nifs"], h.field["nchans"]) = n
<1>1. PICK b \in Nat : b = BytesOfSamples(h, n)
  BY DataNat
<1>2. PICK i \in Nat : i = I32 \div 2
  BY Bounds
<1>3. disk.size \in 0 .. i - 1 /\ b \in 0 .. i - 1 /\ disk.size - x = b /\ disk.size \in Int
  BY ONLY <1>1, <1>2, x \in Nat, disk.size = x + BytesOfSamples(h, n), disk.size < I32 \div 2
<1>4. Int32(disk.size) = disk.size /\ Int32(b) = b
  BY ONLY <1>1, <1>2, <1>3, Int32Is
<1>5. PICK c \in Nat \ {0}, f \in Nat \ {0}, w \in Nat \ {0} :
        c = h.field["nchans"] /\ f = h.field["nifs"] /\ w = h.field["nbits"] /\ w % 8 = 0
  BY Bounds DEF Header
<1>6. PICK k \in Nat \ {0} : w = 8 * k
  <2>1. w \div 8 \in Nat \ {0} /\ w = 8 * (w \div 8)
    BY <1>5
  <2> QED BY <2>1
<1>7. PICK p \in Nat \ {0} : p = c * f
  BY ProductPositive
<1>8. PICK q \in Nat \ {0} : q = p * k
  BY ProductPositive
<1>9. n * c * f * w = 8 * (n * q) /\ n * q \in Nat
  <2>1. PICK nc \in Nat : nc = n * c
    BY ProductNat
  <2>2. nc * f = n * p
    BY <1>7, <2>1
  <2>3. (n * p) * (8 * k) = 8 * (n * (p * k))
    BY <1>7
  <2>4. n * q \in Nat
    BY ProductNat
  <2> QED BY <1>6, <1>8, <2>1, <2>2, <2>3, <2>4
<1>10. b = n * q
  <2>1. PICK m \in Nat : m = n * q
    BY <1>9
  <2>2. (8 * m) \div 8 = m
    BY <2>1
  <2> QED BY <1>1, <1>5, <1>9, <2>1, <2>2 DEF BytesOfSamples
<1>11. PICK d \in Nat \ {0} : d = w * f * c
  <2>1. w * f \in Nat \ {0}
    BY ProductPositive
  <2> QED BY <2>1, ProductPositive
<1>12. 8 * b = n * d
  <2>1. d = 8 * (k * f * c)
    BY <1>6, <1>11
  <2>2. k * f * c = q
    BY <1>7, <1>8
  <2> QED BY <1>10, <2>1, <2>2
<1>13. Truncated(n * d, d) = n
  BY TruncatedExact
<1>14. nsamples(x, w, f, c) = Truncated(8 * Int32(Int32(disk.size) - x), w * f * c)
  BY ONLY Zenon DEF nsamples, sizeof_file
<1>15. nsamples(x, w, f, c) = Truncated(n * d, d)
  BY ONLY <1>3, <1>4, <1>11, <1>12, <1>14
<1> QED BY ONLY <1>5, <1>13, <1>15

(* The object at the end of a header.                                      *)
EndIs(o, p, h, n, t) ==
  /\ ObjOK(p) /\ p.field = o.field /\ p.Source_name = o.Source_name
  /\ p.Rawdatafile = o.Rawdatafile /\ p.UseFrequencyTable = o.UseFrequencyTable
  /\ p.Headersize = h /\ p.Nsamples = n /\ p.frequency_table = t

LEMMA ObjEnd ==
  ASSUME NEW o, ObjOK(o), NEW h, NEW n \in Int32s, NEW t,
         t = [i \in 0 .. MaxChans - 1 |-> t[i]]
  PROVE  EndIs(o, [o EXCEPT !.Headersize = h, !.Nsamples = n, !.frequency_table = t], h, n, t)
<1>1. PICK a, b, c, d, e, f, g :
        o = [Source_name |-> a, Rawdatafile |-> b, UseFrequencyTable |-> c, Headersize |-> d,
             Nsamples |-> e, frequency_table |-> f, field |-> g]
  BY DEF ObjOK
<1>2. PICK p : p = [o EXCEPT !.Headersize = h, !.Nsamples = n, !.frequency_table = t]
  OBVIOUS
<1>3. p = [Source_name |-> a, Rawdatafile |-> b, UseFrequencyTable |-> c, Headersize |-> h,
           Nsamples |-> n, frequency_table |-> t, field |-> g]
  BY <1>1, <1>2
<1>4. /\ o.Source_name = a /\ o.Rawdatafile = b /\ o.UseFrequencyTable = c /\ o.field = g
      /\ p.Source_name = a /\ p.Rawdatafile = b /\ p.UseFrequencyTable = c /\ p.field = g
      /\ p.Headersize = h /\ p.Nsamples = n /\ p.frequency_table = t
  BY ONLY <1>1, <1>3
<1>5. ObjOK(p)
  <2>1. c \in BOOLEAN
    BY ONLY <1>4, ObjOK(o) DEF ObjOK
  <2> QED BY ONLY <1>3, <1>4, <2>1, ObjOK(o), n \in Int32s, t = [i \in 0 .. MaxChans - 1 |-> t[i]] DEF ObjOK
<1>6. EndIs(o, p, h, n, t)
  <2>1. c \in BOOLEAN
    BY ONLY <1>4, ObjOK(o) DEF ObjOK
  <2> QED BY ONLY <1>4, <1>5, <2>1 DEF EndIs
<1> QED BY ONLY <1>2, <1>6

-----------------------------------------------------------------------------
(* The end of a header, where n channels are filled in.                    *)
EqualChannels(o, n) ==
  [i \in 0 .. MaxChans - 1 |-> IF i < n THEN o.field["fch1"] + i * o.field["foff"]
                               ELSE o.frequency_table[i]]

EndTable(o, n) == IF o.UseFrequencyTable THEN o.frequency_table ELSE EqualChannels(o, n)
EndSamples(o, h) == nsamples(h, o.field["nbits"], o.field["nifs"], o.field["nchans"])

EndsWith(n) ==
  /\ EndIs(fil, fil', intTotalHeaderBytes', EndSamples(fil, intTotalHeaderBytes'),
           EndTable(fil, n))
  /\ rd_pc' = IF fil.UseFrequencyTable \/ n <= MaxChans THEN "true" ELSE "undefined"

Ended(s) ==
  /\ Stays /\ ReaderOK'
  /\ \E n \in Counted(fil.field["nchans"]) : EndsWith(n)
  /\ intTotalHeaderBytes' = intTotalHeaderBytes + W(s)[pos + 1].bytes
  /\ pos + 1 <= Len(disk.items) /\ disk.items[pos + 1].text = "HEADER_END"

LEMMA EndTableIs ==
  ASSUME NEW o, ObjOK(o), NEW n
  PROVE  EndTable(o, n) = [i \in 0 .. MaxChans - 1 |-> EndTable(o, n)[i]]
<1>1. PICK t : t = EndTable(o, n)
  OBVIOUS
<1>2. CASE o.UseFrequencyTable
  <2>1. t = o.frequency_table
    BY ONLY <1>1, <1>2 DEF EndTable
  <2> QED BY ONLY <1>1, <2>1, ObjOK(o) DEF ObjOK
<1>3. CASE ~o.UseFrequencyTable
  <2>1. t = EqualChannels(o, n)
    BY ONLY <1>1, <1>3 DEF EndTable
  <2>2. EqualChannels(o, n) = [i \in 0 .. MaxChans - 1 |-> EqualChannels(o, n)[i]]
    BY DEF EqualChannels
  <2> QED BY ONLY <1>1, <2>1, <2>2
<1> QED BY <1>2, <1>3

EndObjectOf(o, h, x, n) ==
  [o EXCEPT !.Headersize = h, !.Nsamples = x,
            !.frequency_table =
              IF KeepTable(o) THEN @
              ELSE [i \in DOMAIN @ |-> IF i < n
                                       THEN o.field["fch1"] + i * o.field["foff"]
                                       ELSE @[i]]]

WithTable(o, h, x, t) == [o EXCEPT !.Headersize = h, !.Nsamples = x, !.frequency_table = t]

LEMMA EndObject ==
  ASSUME NEW o, ObjOK(o), NEW h, NEW x, NEW n, NEW p,
         p = EndObjectOf(o, h, x, n)
  PROVE  p = WithTable(o, h, x, EndTable(o, n))
<1>1. PICK a, b, c, d, e, f, g :
        o = [Source_name |-> a, Rawdatafile |-> b, UseFrequencyTable |-> c, Headersize |-> d,
             Nsamples |-> e, frequency_table |-> f, field |-> g]
  BY DEF ObjOK
<1>2. o.frequency_table = f /\ o.field = g /\ o.UseFrequencyTable = c /\ DOMAIN f = 0 .. MaxChans - 1
  <2>1. o.frequency_table = f /\ o.field = g /\ o.UseFrequencyTable = c
    BY ONLY <1>1
  <2>2. o.frequency_table = [i \in 0 .. MaxChans - 1 |-> o.frequency_table[i]]
    BY DEF ObjOK
  <2>3. DOMAIN o.frequency_table = 0 .. MaxChans - 1
    BY ONLY <2>2
  <2> QED BY ONLY <2>1, <2>3
<1>3. EndTable(o, n) = IF KeepTable(o) THEN f
                    ELSE [i \in DOMAIN f |-> IF i < n
                                             THEN o.field["fch1"] + i * o.field["foff"]
                                             ELSE f[i]]
  BY ONLY <1>2 DEF EndTable, KeepTable, EqualChannels
<1>4. PICK t : t = EndTable(o, n)
  OBVIOUS
<1>5. p = [Source_name |-> a, Rawdatafile |-> b, UseFrequencyTable |-> c, Headersize |-> h,
           Nsamples |-> x, frequency_table |-> t, field |-> g]
  BY <1>1, <1>2, <1>3, <1>4 DEF EndObjectOf
<1>6. PICK q : q = WithTable(o, h, x, t)
  OBVIOUS
<1>7. q = [Source_name |-> a, Rawdatafile |-> b, UseFrequencyTable |-> c, Headersize |-> h,
           Nsamples |-> x, frequency_table |-> t, field |-> g]
  BY <1>1, <1>6 DEF WithTable
<1> QED BY ONLY <1>4, <1>5, <1>6, <1>7

LEMMA EndTurn ==
  ASSUME NEW s \in BOOLEAN, Going(s), Ahead(s), LastItem(s), ReadInHeader
  PROVE  Ended(s)
<1>1. /\ rd_pc = "loop" /\ ObjOK(fil) /\ FileIs(s) /\ InStep(s) /\ Header(origin)
      /\ intTotalHeaderBytes \in Nat /\ expecting \subseteq {"rawdatafile", "source_name"}
      /\ channel_index \in Nat /\ disk.size \in Nat
  BY DEF Going, InStep, ReaderOK, FileIs
<1>2. W(s)[pos + 1] = String("HEADER_END")
  <2>1. CASE pos = Size(s, origin) - 1
    <3>1. Layout(W(s), s, origin) /\ Size(s, origin) \in Nat
      BY <1>1, Setting DEF W
    <3>2. pos + 1 = Size(s, origin)
      BY ONLY <2>1, <3>1
    <3> QED BY ONLY <3>1, <3>2 DEF Layout
  <2>2. CASE pos = NameAt(s) - 1 /\ NamedEnd
    <3>1. W(s)[pos + 1] = String(origin.Source_name)
      BY <2>2, NamePlace DEF NameNext
    <3> QED BY ONLY <2>2, <3>1 DEF NamedEnd
  <2> QED BY <2>1, <2>2 DEF LastItem
<1>3. PICK t : t = "HEADER_END"
  OBVIOUS
<1>4. Len(t) \in 1 .. MaxString
  <2>1. t \in Keywords \cup OwnNames
    BY <1>3 DEF Keywords
  <2> QED BY ONLY <2>1, StringLengths
<1>5. strtmp = t /\ ~AtEnd /\ (get_string /\ CountString(0) => OnePast(s))
  <2>1. W(s)[pos + 1] = String(t)
    BY ONLY <1>2, <1>3
  <2> QED BY ONLY <1>1, <1>4, <2>1, OneItem, s \in BOOLEAN, Ahead(s)
<1>6. ReadHeaderEnd
  BY ONLY <1>1, <1>3, <1>5, Acts, ReadInHeader
<1>7. PICK l \in Nat : l = Len(t)
  BY ONLY <1>4
<1>8. PICK h : h = intTotalHeaderBytes + Len(strtmp) + 4
  OBVIOUS
<1>9. /\ get_string /\ CountString(0) /\ Stays
      /\ expecting' = expecting /\ channel_index' = channel_index
      /\ \E n \in Counted(fil.field["nchans"]) :
           /\ fil' = EndObjectOf(fil, h, EndSamples(fil, h), n)
           /\ rd_pc' = IF fil.UseFrequencyTable \/ n <= MaxChans THEN "true" ELSE "undefined"
  BY ONLY <1>6, <1>8, Zenon DEF ReadHeaderEnd, InLoop, Stays, EndSamples, EndObjectOf, KeepTable
<1>10. intTotalHeaderBytes' = h /\ h \in Nat
  <2>1. intTotalHeaderBytes' = intTotalHeaderBytes + Len(strtmp) + 4 + 0
    BY ONLY <1>9, Zenon DEF CountString
  <2> QED BY ONLY <1>1, <1>5, <1>7, <1>8, <2>1
<1>11. OnePast(s)
  BY ONLY <1>5, <1>9
<1>12. EndSamples(fil, h) \in Int32s
  <2>1. h \in Int
    BY ONLY <1>10
  <2> QED BY ONLY <1>1, <2>1, SamplesInt32 DEF EndSamples
<1>13. ASSUME NEW c \in Counted(fil.field["nchans"]),
              fil' = EndObjectOf(fil, h, EndSamples(fil, h), c)
       PROVE  EndIs(fil, fil', h, EndSamples(fil, h), EndTable(fil, c))
  <2>1. PICK n \in Int32s : n = EndSamples(fil, h)
    BY ONLY <1>12
  <2>2. PICK p : p = fil'
    OBVIOUS
  <2>3. PICK o : o = fil
    OBVIOUS
  <2>4. p = EndObjectOf(o, h, n, c)
    BY ONLY <1>13, <2>1, <2>2, <2>3
  <2>5. p = WithTable(o, h, n, EndTable(o, c))
    <3>1. ObjOK(o)
      BY ONLY <1>1, <2>3
    <3> QED BY ONLY <2>4, <3>1, EndObject
  <2>6. EndIs(o, p, h, n, EndTable(o, c))
    <3>1. EndTable(o, c) = [i \in 0 .. MaxChans - 1 |-> EndTable(o, c)[i]]
      BY ONLY <1>1, <2>3, EndTableIs
    <3>2. ObjOK(o)
      BY ONLY <1>1, <2>3
    <3>3. PICK u : u = EndTable(o, c)
      OBVIOUS
    <3>4. p = [o EXCEPT !.Headersize = h, !.Nsamples = n, !.frequency_table = u]
      BY ONLY <2>5, <3>3 DEF WithTable
    <3>5. u = [i \in 0 .. MaxChans - 1 |-> u[i]]
      BY ONLY <3>1, <3>3
    <3> QED BY ONLY <3>2, <3>3, <3>4, <3>5, ObjEnd, n \in Int32s
  <2> QED BY ONLY <2>1, <2>2, <2>3, <2>6, Zenon
<1>14. pos + 1 <= Len(disk.items) /\ disk.items[pos + 1].text = "HEADER_END"
  <2>1. disk.items[pos + 1] = String("HEADER_END")
    BY ONLY <1>2, Ahead(s) DEF Ahead
  <2> QED BY ONLY <2>1, Ahead(s) DEF Ahead, String
<1>15. ReaderOK'
  <2>1. pos' \in 0 .. Len(disk'.items)
    <3>1. pos \in Nat /\ Len(disk.items) \in Nat
      BY PosIsNat DEF PosNat, Going
    <3>2. disk' = disk /\ pos' = pos + 1
      BY ONLY <1>9, <1>11 DEF Stays, OnePast
    <3> QED BY ONLY <1>14, <3>1, <3>2
  <2>2. lost' \in BOOLEAN
    BY ONLY <1>11, Zenon DEF OnePast
  <2> QED BY ONLY <1>1, <1>9, <1>10, <2>1, <2>2 DEF ReaderOK
<1>16. \E n \in Counted(fil.field["nchans"]) : EndsWith(n)
  <2>1. PICK n \in Counted(fil.field["nchans"]) :
          /\ fil' = EndObjectOf(fil, h, EndSamples(fil, h), n)
          /\ rd_pc' = IF fil.UseFrequencyTable \/ n <= MaxChans THEN "true" ELSE "undefined"
    BY ONLY <1>9
  <2>2. EndIs(fil, fil', h, EndSamples(fil, h), EndTable(fil, n))
    BY ONLY <1>13, <2>1
  <2>3. EndsWith(n)
    BY ONLY <1>10, <2>1, <2>2, Zenon DEF EndsWith
  <2> QED BY ONLY <2>3
<1> QED BY ONLY <1>9, <1>11, <1>14, <1>15, <1>16 DEF Ended, OnePast

(* Before the last item of a header.                                       *)
AllRead(s) ==
  /\ NameRead(s) /\ ~Long(origin.Source_name) /\ ~NamedEnd /\ pos >= 3
  /\ HasTable(origin) => pos > TableAt(s) /\ channel_index = Chans
  /\ ~HasTable(origin) => channel_index = 0
  /\ \A j \in 1 .. NumKeys(s) :
       fil.field[Keys(s)[j]] = IF s /\ HasTable(origin) /\ Keys(s)[j] \in {"fch1", "foff"} THEN 0
                               ELSE origin.field[Keys(s)[j]]

LEMMA LastPlace ==
  ASSUME NEW s \in BOOLEAN, Going(s), pos = Size(s, origin) - 1
  PROVE  AllRead(s)
<1>1. Header(origin) /\ InStep(s) /\ TableRead(s) /\ FieldsRead(s)
  BY DEF Going, FileIs, InStep
<1>2. Chans \in Nat /\ Chans > 0 /\ TableLen(origin) \in Nat
      /\ (HasTable(origin) => TableLen(origin) = 2 * Chans + 2)
  BY <1>1, Setting DEF Chans
<1>3. /\ pos >= NameAt(s) /\ pos >= 3
      /\ \A j \in 1 .. NumKeys(s) : pos >= FieldsAt(s, origin) + 2 * j
      /\ HasTable(origin) => pos > TableAt(s) /\ pos > TableAt(s) + 1
  <2>1. CASE s = TRUE
    <3>1. pos = 31 + TableLen(origin)
      BY ONLY <1>2, <2>1, pos = Size(s, origin) - 1 DEF Size
    <3> QED BY ONLY <1>2, <2>1, <3>1 DEF NameAt, NumKeys, FieldsAt, TableAt
  <2>2. CASE s = FALSE
    <3>1. pos = 39 + TableLen(origin)
      BY ONLY <1>2, <2>2, pos = Size(s, origin) - 1 DEF Size
    <3> QED BY ONLY <1>2, <2>2, <3>1 DEF NameAt, NumKeys, FieldsAt, TableAt
  <2> QED BY <2>1, <2>2
<1>4. NameRead(s) /\ ~Long(origin.Source_name) /\ ~NamedEnd
  BY <1>1, <1>3 DEF NameRead, InStep
<1>5. ASSUME HasTable(origin) PROVE channel_index = Chans
  <2>1. /\ channel_index \in 0 .. Chans
        /\ \/ pos = TableAt(s) + 1 + 2 * channel_index
           \/ /\ pos > TableAt(s) + 1 + 2 * channel_index
              /\ channel_index = Chans
    BY ONLY <1>1, <1>3, <1>5 DEF TableRead, Chans
  <2>2. pos # TableAt(s) + 1 + 2 * channel_index
    <3>1. CASE s = TRUE
      <4>1. pos = 33 + 2 * Chans
        BY ONLY <1>2, <1>5, <3>1, pos = Size(s, origin) - 1 DEF Size
      <4> QED BY ONLY <1>2, <2>1, <3>1, <4>1 DEF TableAt
    <3>2. CASE s = FALSE
      <4>1. pos = 41 + 2 * Chans
        BY ONLY <1>2, <1>5, <3>2, pos = Size(s, origin) - 1 DEF Size
      <4> QED BY ONLY <1>2, <2>1, <3>2, <4>1 DEF TableAt
    <3> QED BY <3>1, <3>2
  <2> QED BY ONLY <2>1, <2>2
<1>6. ~HasTable(origin) => channel_index = 0
  BY ONLY <1>1 DEF TableRead
<1>7. Zeroed(s) = IF s /\ HasTable(origin) THEN {"fch1", "foff"} ELSE {}
  BY ONLY <1>3 DEF Zeroed
<1>8. \A j \in 1 .. NumKeys(s) :
        fil.field[Keys(s)[j]] = IF s /\ HasTable(origin) /\ Keys(s)[j] \in {"fch1", "foff"} THEN 0
                                ELSE origin.field[Keys(s)[j]]
  BY ONLY <1>1, <1>3, <1>7 DEF FieldsRead
<1> QED BY ONLY <1>3, <1>4, <1>5, <1>6, <1>8 DEF AllRead

(* The keys a header has.                                                  *)
KeysHave(s, keys) ==
  /\ ToSet(Keys(s)) = keys
  /\ \A k \in keys : \E j \in 1 .. NumKeys(s) : Keys(s)[j] = k
  /\ \A k : k \notin keys => \A j \in 1 .. NumKeys(s) : Keys(s)[j] # k
  /\ {"nbits", "nifs", "nchans", "fch1", "foff"} \subseteq keys

LEMMA KeysHad == ASSUME NEW s \in BOOLEAN PROVE KeysHave(s, ToSet(Keys(s)))
<1>1. DOMAIN Keys(s) = 1 .. NumKeys(s)
  BY KeysAre
<1>2. ToSet(Keys(s)) = {Keys(s)[j] : j \in 1 .. NumKeys(s)}
  BY ONLY <1>1 DEF ToSet
<1>3. {"nbits", "nifs", "nchans", "fch1", "foff"} \subseteq ToSet(Keys(s))
  <2>1. CASE s = TRUE
    <3>1. /\ Keys(s)[9] = "nbits" /\ Keys(s)[12] = "nifs" /\ Keys(s)[8] = "nchans"
          /\ Keys(s)[6] = "fch1" /\ Keys(s)[7] = "foff"
      BY <2>1 DEF Keys, SigprocKeys
    <3>2. {6, 7, 8, 9, 12} \subseteq 1 .. NumKeys(s)
      BY <2>1 DEF NumKeys
    <3> QED BY ONLY <1>2, <3>1, <3>2
  <2>2. CASE s = FALSE
    <3>1. /\ Keys(s)[15] = "nbits" /\ Keys(s)[18] = "nifs" /\ Keys(s)[9] = "nchans"
          /\ Keys(s)[7] = "fch1" /\ Keys(s)[8] = "foff"
      BY <2>2 DEF Keys, WrittenKeys
    <3>2. {7, 8, 9, 15, 18} \subseteq 1 .. NumKeys(s)
      BY <2>2 DEF NumKeys
    <3> QED BY ONLY <1>2, <3>1, <3>2
  <2> QED BY <2>1, <2>2
<1> QED BY ONLY <1>2, <1>3 DEF KeysHave

(* Which of the two orders a file is in shows in its second string.        *)
LEMMA OrderShows ==
  ASSUME NEW s \in BOOLEAN, Going(s), pos >= 2
  PROVE  Sigproc <=> s
<1>1. Header(origin) /\ InStep(s)
  BY DEF Going, FileIs
<1>2. disk.items[2] = W(s)[2]
  <2>1. 2 \in 1 .. pos
    BY PosIsNat DEF PosNat, Going
  <2> QED BY ONLY <1>1, <2>1 DEF InStep, W
<1>3. Layout(W(s), s, origin)
  BY <1>1, Setting DEF W
<1>4. CASE s = TRUE
  <2>1. W(s)[2] = String("rawdatafile")
    BY ONLY <1>3, <1>4 DEF Layout
  <2> QED BY ONLY <1>2, <1>4, <2>1 DEF String, Sigproc
<1>5. CASE s = FALSE
  <2>1. W(s)[2] = String("source_name")
    <3>1. NameAt(s) - 1 = 2
      BY ONLY <1>5 DEF NameAt
    <3> QED BY ONLY <1>3, <3>1 DEF Layout
  <2> QED BY ONLY <1>2, <1>5, <2>1 DEF String, Sigproc
<1> QED BY <1>4, <1>5

(* What is returned after the last item.                                   *)
AtLast(s) == Going(s) /\ LastItem(s) /\ Ended(s)

LEMMA LastIs ==
  ASSUME NEW s \in BOOLEAN, AtLast(s)
  PROVE  /\ disk' = disk /\ origin' = origin /\ before' = before
         /\ rd_pc' \in {"true", "undefined"} /\ ObjOK(fil')
         /\ Header(origin) /\ FileIs(s) /\ InStep(s) /\ pos \in Nat
         /\ Len(disk.items) \in Nat /\ Size(s, origin) \in Nat /\ pos >= 2
         /\ Sigproc' <=> s
         /\ fil'.Source_name = fil.Source_name /\ fil'.Rawdatafile = fil.Rawdatafile
         /\ fil'.field = fil.field /\ fil'.UseFrequencyTable = fil.UseFrequencyTable
         /\ \E n \in Counted(fil.field["nchans"]) :
              /\ fil'.frequency_table = EndTable(fil, n)
              /\ rd_pc' = IF fil.UseFrequencyTable \/ n <= MaxChans THEN "true" ELSE "undefined"
         /\ fil'.Headersize = intTotalHeaderBytes'
         /\ fil'.Nsamples = EndSamples(fil, intTotalHeaderBytes')
         /\ ~NamedEnd => AllRead(s) /\ pos = Size(s, origin) - 1
         /\ NamedEnd => pos = NameAt(s) - 1 /\ ~NameRead(s)
<1>1. disk' = disk /\ origin' = origin /\ before' = before
  BY DEF AtLast, Ended, Stays
<1>2. Going(s) /\ Header(origin) /\ FileIs(s) /\ InStep(s) /\ LastItem(s)
  BY DEF AtLast, Going, FileIs
<1>3. pos \in Nat /\ Len(disk.items) \in Nat /\ Size(s, origin) \in Nat
  BY <1>2, PosIsNat DEF PosNat
<1>4. ASSUME ~NamedEnd PROVE AllRead(s) /\ pos = Size(s, origin) - 1
  <2>1. pos = Size(s, origin) - 1
    BY <1>2, <1>4 DEF LastItem
  <2> QED BY ONLY <1>2, <2>1, LastPlace, s \in BOOLEAN
<1>5. ASSUME NamedEnd PROVE pos = NameAt(s) - 1 /\ ~NameRead(s)
  <2>1. pos # Size(s, origin) - 1
    <3>1. ASSUME pos = Size(s, origin) - 1 PROVE FALSE
      <4>1. AllRead(s)
        BY ONLY <1>2, <3>1, LastPlace, s \in BOOLEAN
      <4> QED BY ONLY <1>5, <4>1 DEF AllRead
    <3> QED BY <3>1
  <2>2. ~NameRead(s)
    BY ONLY <1>2, <1>5 DEF InStep
  <2> QED BY ONLY <1>2, <2>1, <2>2 DEF LastItem
<1>6. pos >= 2
  <2>1. CASE NamedEnd
    BY <1>5, <2>1 DEF NameAt
  <2>2. CASE ~NamedEnd
    BY <1>4, <2>2, <1>3 DEF AllRead
  <2> QED BY <2>1, <2>2
<1>7. Sigproc <=> s
  BY ONLY <1>2, <1>6, OrderShows, s \in BOOLEAN
<1>8. Sigproc' <=> s
  BY ONLY <1>1, <1>7 DEF Sigproc
<1>9. PICK n \in Counted(fil.field["nchans"]) : EndsWith(n)
  BY DEF AtLast, Ended
<1>10. /\ fil'.Source_name = fil.Source_name /\ fil'.Rawdatafile = fil.Rawdatafile
       /\ fil'.field = fil.field /\ fil'.UseFrequencyTable = fil.UseFrequencyTable
       /\ fil'.frequency_table = EndTable(fil, n)
       /\ fil'.Headersize = intTotalHeaderBytes'
       /\ fil'.Nsamples = EndSamples(fil, intTotalHeaderBytes')
       /\ ObjOK(fil')
       /\ rd_pc' = IF fil.UseFrequencyTable \/ n <= MaxChans THEN "true" ELSE "undefined"
  BY ONLY <1>9, Zenon DEF EndIs, EndsWith
<1>11. rd_pc' \in {"true", "undefined"}
  BY ONLY <1>10
<1>12. \E m \in Counted(fil.field["nchans"]) :
         /\ fil'.frequency_table = EndTable(fil, m)
         /\ rd_pc' = IF fil.UseFrequencyTable \/ m <= MaxChans THEN "true" ELSE "undefined"
  BY ONLY <1>9, <1>10
<1> QED BY ONLY <1>1, <1>2, <1>3, <1>4, <1>5, <1>6, <1>8, <1>10, <1>11, <1>12

(* A header whose last item was read is whole.                             *)
LEMMA LastIsWhole == ASSUME NEW s \in BOOLEAN, AtLast(s), ~NamedEnd PROVE disk.whole
<1>1. /\ Header(origin) /\ FileIs(s) /\ pos = Size(s, origin) - 1 /\ pos \in Nat
      /\ Len(disk.items) \in Nat /\ Size(s, origin) \in Nat
  BY LastIs
<1>2. pos + 1 <= Len(disk.items) /\ disk.items[pos + 1].text = "HEADER_END"
  BY DEF AtLast, Ended
<1>3. Len(disk.items) <= Size(s, origin) /\ disk.whole \in BOOLEAN
  BY ONLY <1>1 DEF FileIs
<1>4. pos + 1 = Len(disk.items) /\ Len(disk.items) = Size(s, origin)
  BY ONLY <1>1, <1>2, <1>3
<1>5. ASSUME ~disk.whole PROVE FALSE
  <2>1. Damaged(Len(disk.items), s)
    BY ONLY <1>1, <1>4, <1>5 DEF FileIs
  <2>2. W(s)[Len(disk.items)] = String("HEADER_END")
    <3>1. Layout(W(s), s, origin)
      BY <1>1, Setting DEF W
    <3> QED BY ONLY <1>4, <3>1 DEF Layout
  <2>3. PICK t : t = "HEADER_END"
    OBVIOUS
  <2>4. Len(t) \in 1 .. MaxString /\ MaxString \in Nat
    <3>1. t \in Keywords \cup OwnNames
      BY <2>3 DEF Keywords
    <3> QED BY ONLY <3>1, StringLengths
  <2>5. W(s)[Len(disk.items)].text = t
    BY ONLY <2>2, <2>3 DEF String
  <2>6. ~BadLength(W(s)[Len(disk.items)].text)
    BY ONLY <2>4, <2>5 DEF BadLength
  <2>7. disk.items[Len(disk.items)].text = Torn
    BY ONLY <2>1, <2>6 DEF Damaged, W
  <2>8. Torn # "HEADER_END"
    BY ErrorName DEF ErrorIs
  <2> QED BY ONLY <1>2, <1>4, <2>7, <2>8
<1> QED BY ONLY <1>3, <1>5

LEMMA LastComplete == ASSUME NEW s \in BOOLEAN, AtLast(s) PROVE TrueIffComplete'
<1>1. disk' = disk /\ origin' = origin /\ rd_pc' \in {"true", "undefined"}
  BY LastIs
<1>2. ~Long(origin.Source_name)
  <2>1. CASE NamedEnd
    <3>1. PICK t : t = "HEADER_END" /\ t = origin.Source_name
      BY <2>1 DEF NamedEnd
    <3>2. Len(t) \in 1 .. MaxString /\ MaxString \in Nat
      <4>1. t \in Keywords \cup OwnNames
        BY <3>1 DEF Keywords
      <4> QED BY ONLY <4>1, StringLengths
    <3>3. ~(Len(t) > MaxString)
      BY ONLY <3>2
    <3> QED BY ONLY <3>1, <3>3, Zenon DEF Long
  <2>2. CASE ~NamedEnd
    BY ONLY <2>2, LastIs, s \in BOOLEAN, AtLast(s) DEF AllRead
  <2> QED BY <2>1, <2>2
<1>3. disk.whole \/ (NamedEnd /\ \E i \in DOMAIN disk.items : disk.items[i].text = "HEADER_END")
  <2>1. CASE NamedEnd
    <3>1. pos + 1 <= Len(disk.items) /\ disk.items[pos + 1].text = "HEADER_END"
      BY DEF AtLast, Ended
    <3>2. pos \in Nat /\ Len(disk.items) \in Nat /\ FileIs(s)
      BY LastIs
    <3>3. DOMAIN disk.items = 1 .. Len(disk.items)
      BY ONLY <3>2, LenIs DEF FileIs
    <3>4. pos + 1 \in DOMAIN disk.items
      BY ONLY <3>1, <3>2, <3>3
    <3> QED BY ONLY <2>1, <3>1, <3>4
  <2>2. CASE ~NamedEnd
    BY ONLY <2>2, LastIsWhole, s \in BOOLEAN, AtLast(s)
  <2> QED BY <2>1, <2>2
<1>4. ~Long(origin'.Source_name) /\ (NamedEnd' <=> NamedEnd)
  BY ONLY <1>1, <1>2 DEF NamedEnd
<1> QED BY ONLY <1>1, <1>3, <1>4 DEF TrueIffComplete

LEMMA LastFields ==
  ASSUME NEW s \in BOOLEAN, AtLast(s), NEW k \in Fields
  PROVE  fil.field[k] = IF k \notin KeysRead' THEN before.field[k]
                        ELSE IF Sigproc' /\ HasTable(origin) /\ k \in {"fch1", "foff"} THEN 0
                        ELSE origin.field[k]
<1>1. /\ origin' = origin /\ InStep(s) /\ (Sigproc' <=> s) /\ FieldsRead(s)
      /\ ~NamedEnd => AllRead(s)
      /\ NamedEnd => ~NameRead(s)
  BY LastIs DEF InStep
<1>2. CASE NamedEnd
  <2>1. KeysRead' = {}
    BY ONLY <1>1, <1>2 DEF KeysRead, NamedEnd
  <2>2. fil.field = before.field
    BY ONLY <1>1, <1>2 DEF FieldsRead
  <2> QED BY ONLY <2>1, <2>2
<1>3. CASE ~NamedEnd
  <2>1. KeysRead' = ToSet(Keys(s))
    BY ONLY <1>1, <1>3, s \in BOOLEAN DEF KeysRead, NamedEnd, Keys
  <2>2. KeysHave(s, KeysRead')
    BY ONLY <2>1, KeysHad, s \in BOOLEAN
  <2>3. CASE k \notin KeysRead'
    <3>1. \A j \in 1 .. NumKeys(s) : Keys(s)[j] # k
      BY ONLY <2>2, <2>3 DEF KeysHave
    <3>2. fil.field[k] = before.field[k]
      BY ONLY <1>1, <3>1, k \in Fields DEF FieldsRead
    <3> QED BY ONLY <2>3, <3>2
  <2>4. CASE k \in KeysRead'
    <3>1. PICK j \in 1 .. NumKeys(s) : Keys(s)[j] = k
      BY ONLY <2>2, <2>4 DEF KeysHave
    <3>2. fil.field[k] = IF s /\ HasTable(origin) /\ k \in {"fch1", "foff"} THEN 0
                         ELSE origin.field[k]
      BY ONLY <1>1, <1>3, <3>1 DEF AllRead
    <3> QED BY ONLY <1>1, <2>4, <3>2
  <2> QED BY <2>3, <2>4
<1> QED BY <1>2, <1>3

LEMMA LastReadBack == ASSUME NEW s \in BOOLEAN, AtLast(s) PROVE ReadBack'
<1>1. /\ disk' = disk /\ origin' = origin /\ before' = before
      /\ InStep(s) /\ NamesRead(s) /\ FileIs(s) /\ pos \in Nat
      /\ Sigproc' <=> s
      /\ fil'.Source_name = fil.Source_name /\ fil'.Rawdatafile = fil.Rawdatafile
      /\ fil'.field = fil.field
      /\ ~NamedEnd => AllRead(s)
      /\ NamedEnd => pos = NameAt(s) - 1 /\ ~NameRead(s)
  BY LastIs DEF InStep
<1>2. fil'.Source_name = NameHeard
  <2>1. CASE NamedEnd
    <3>1. fil.Source_name = before.Source_name
      BY ONLY <1>1, <2>1 DEF NamesRead
    <3>2. NameHeard = before.Source_name
      <4>1. origin.Source_name \in Marks \ {"HEADER_START"}
        BY ONLY <2>1 DEF NamedEnd, Marks
      <4>2. ~Nameless
        BY ONLY <4>1, Zenon DEF Nameless, Marks
      <4> QED BY ONLY <4>1, <4>2, Zenon DEF NameHeard, Nameless
    <3> QED BY ONLY <1>1, <3>1, <3>2
  <2>2. CASE ~NamedEnd
    BY ONLY <1>1, <2>2 DEF NamesRead, AllRead
  <2> QED BY <2>1, <2>2
<1>3. fil'.Rawdatafile = IF Sigproc' THEN origin.Rawdatafile ELSE before.Rawdatafile
  <2>1. CASE s = TRUE
    <3>1. pos >= 3
      <4>1. CASE NamedEnd
        BY ONLY <1>1, <2>1, <4>1 DEF NameAt
      <4>2. CASE ~NamedEnd
        BY ONLY <1>1, <4>2 DEF AllRead
      <4> QED BY <4>1, <4>2
    <3>2. fil.Rawdatafile = origin.Rawdatafile
      BY ONLY <1>1, <2>1, <3>1 DEF NamesRead
    <3> QED BY ONLY <1>1, <2>1, <3>2
  <2>2. CASE s = FALSE
    <3>1. fil.Rawdatafile = before.Rawdatafile
      BY ONLY <1>1, <2>2 DEF NamesRead
    <3> QED BY ONLY <1>1, <2>2, <3>1
  <2> QED BY <2>1, <2>2
<1>4. \A k \in Fields :
        fil'.field[k] = IF k \notin KeysRead' THEN before.field[k]
                        ELSE IF Sigproc' /\ HasTable(origin) /\ k \in {"fch1", "foff"} THEN 0
                        ELSE origin.field[k]
  BY ONLY <1>1, LastFields, s \in BOOLEAN, AtLast(s)
<1>5. HasTable(origin)' = HasTable(origin)
  BY ONLY <1>1 DEF HasTable
<1> QED BY ONLY <1>1, <1>2, <1>3, <1>4, <1>5, Zenon DEF ReadBack, NameHeard

(* The channels that are filled in are those of the file.                  *)
LEMMA LastChannels ==
  ASSUME NEW s \in BOOLEAN, AtLast(s), ~NamedEnd
  PROVE  /\ Chans \in Nat /\ fil'.frequency_table = EndTable(fil, Chans)
         /\ rd_pc' = IF fil.UseFrequencyTable \/ Chans <= MaxChans THEN "true" ELSE "undefined"
<1>1. /\ AllRead(s) /\ Header(origin)
      /\ \E n \in Counted(fil.field["nchans"]) :
           /\ fil'.frequency_table = EndTable(fil, n)
           /\ rd_pc' = IF fil.UseFrequencyTable \/ n <= MaxChans THEN "true" ELSE "undefined"
  BY LastIs
<1>2. Chans \in Nat
  BY <1>1, Setting DEF Chans
<1>3. fil.field["nchans"] = Chans
  <2>1. KeysHave(s, ToSet(Keys(s)))
    BY KeysHad
  <2>2. PICK j \in 1 .. NumKeys(s) : Keys(s)[j] = "nchans"
    BY ONLY <2>1 DEF KeysHave
  <2> QED BY ONLY <1>1, <2>2 DEF AllRead, Chans
<1>4. Counted(fil.field["nchans"]) = {Chans}
  BY ONLY <1>2, <1>3 DEF Counted, Garbage
<1> QED BY ONLY <1>1, <1>2, <1>4

LEMMA LastTable == ASSUME NEW s \in BOOLEAN, AtLast(s) PROVE TableExplained'
<1> SUFFICES ASSUME ~NamedEnd, rd_pc' = "true"
             PROVE  /\ fil'.UseFrequencyTable = (\/ before.UseFrequencyTable
                                                 \/ HasTable(origin)
                                                 \/ origin.Source_name = "FREQUENCY_START")
                    /\ \A i \in DOMAIN fil'.frequency_table : i < origin.field["nchans"] =>
                         fil'.frequency_table[i] =
                           IF HasTable(origin) THEN origin.frequency_table[i]
                           ELSE IF fil'.UseFrequencyTable THEN before.frequency_table[i]
                           ELSE origin.field["fch1"] + i * origin.field["foff"]
  <2>1. origin' = origin /\ before' = before
    BY LastIs
  <2>2. (NamedEnd' <=> NamedEnd) /\ HasTable(origin)' = HasTable(origin)
    BY ONLY <2>1 DEF NamedEnd, HasTable
  <2> QED BY <2>1, <2>2, Zenon DEF TableExplained
<1>1. /\ TableRead(s) /\ AllRead(s) /\ Header(origin) /\ ObjOK(fil)
      /\ fil'.UseFrequencyTable = fil.UseFrequencyTable /\ before.UseFrequencyTable \in BOOLEAN
  BY LastIs DEF InStep, AtLast, Going, ObjOK
<1>4. Chans \in Nat /\ fil'.frequency_table = EndTable(fil, Chans)
  BY LastChannels
<1>5. DOMAIN fil'.frequency_table = 0 .. MaxChans - 1
  <2>1. EndTable(fil, Chans) = [i \in 0 .. MaxChans - 1 |-> EndTable(fil, Chans)[i]]
    BY ONLY <1>1, EndTableIs
  <2> QED BY ONLY <1>4, <2>1
<1>2. fil.UseFrequencyTable = (\/ before.UseFrequencyTable
                               \/ HasTable(origin)
                               \/ origin.Source_name = "FREQUENCY_START")
  BY ONLY <1>1 DEF TableRead, AllRead
<1>3. ASSUME NEW i \in 0 .. MaxChans - 1, i < origin.field["nchans"]
      PROVE  EndTable(fil, Chans)[i] =
               IF HasTable(origin) THEN origin.frequency_table[i]
               ELSE IF fil.UseFrequencyTable THEN before.frequency_table[i]
               ELSE origin.field["fch1"] + i * origin.field["foff"]
  <2>1. i \in 0 .. MaxChans - 1 /\ i < Chans /\ ~(i < 0)
    <3>1. i < Chans
      BY ONLY <1>3, Zenon DEF Chans
    <3>2. ~(i < 0)
      BY ONLY Bounds, i \in 0 .. MaxChans - 1
    <3> QED BY ONLY <3>1, <3>2, i \in 0 .. MaxChans - 1
  <2>2. fil.frequency_table[i] = IF i < channel_index THEN origin.frequency_table[i]
                                 ELSE before.frequency_table[i]
    BY ONLY <1>1, <2>1 DEF TableRead
  <2>3. CASE HasTable(origin)
    <3>1. fil.UseFrequencyTable
      BY ONLY <1>2, <2>3
    <3>2. channel_index = Chans
      BY ONLY <1>1, <2>3 DEF AllRead
    <3> QED BY ONLY <2>1, <2>2, <2>3, <3>1, <3>2 DEF EndTable
  <2>4. CASE ~HasTable(origin) /\ fil.UseFrequencyTable
    <3>1. channel_index = 0
      BY ONLY <1>1, <2>4 DEF AllRead
    <3> QED BY ONLY <2>1, <2>2, <2>4, <3>1 DEF EndTable
  <2>5. CASE ~HasTable(origin) /\ ~fil.UseFrequencyTable
    <3>1. \A k \in {"fch1", "foff"} : fil.field[k] = origin.field[k]
      <4>1. ASSUME NEW k \in {"fch1", "foff"} PROVE fil.field[k] = origin.field[k]
        <5>1. KeysHave(s, ToSet(Keys(s)))
          BY KeysHad
        <5>2. PICK j \in 1 .. NumKeys(s) : Keys(s)[j] = k
          BY ONLY <5>1, k \in {"fch1", "foff"} DEF KeysHave
        <5> QED BY ONLY <1>1, <2>5, <5>2 DEF AllRead
      <4> QED BY <4>1
    <3>2. EndTable(fil, Chans)[i] = EqualChannels(fil, Chans)[i]
      BY ONLY <2>5 DEF EndTable
    <3>3. EqualChannels(fil, Chans)[i] = fil.field["fch1"] + i * fil.field["foff"]
      BY ONLY <2>1 DEF EqualChannels
    <3> QED BY ONLY <2>5, <3>1, <3>2, <3>3
  <2> QED BY <2>3, <2>4, <2>5
<1> QED BY ONLY <1>1, <1>2, <1>3, <1>4, <1>5

LEMMA LastSamples == ASSUME NEW s \in BOOLEAN, AtLast(s) PROVE SamplesExact'
<1>1. disk' = disk /\ origin' = origin
  BY LastIs
<1> SUFFICES ASSUME ~NamedEnd
             PROVE  IF origin.Source_name = ""
                    THEN fil'.Headersize = disk.size - BytesOfSamples(origin, disk.samples) + 5
                    ELSE /\ fil'.Headersize = disk.size - BytesOfSamples(origin, disk.samples)
                         /\ disk.size < I32 \div 2 => fil'.Nsamples = disk.samples
  <2>1. (NamedEnd' <=> NamedEnd)
    BY ONLY <1>1 DEF NamedEnd
  <2>2. BytesOfSamples(origin, disk.samples)' = BytesOfSamples(origin, disk.samples)
    BY ONLY <1>1 DEF BytesOfSamples
  <2> QED BY <1>1, <2>1, <2>2, Zenon DEF SamplesExact
<1>2. /\ Header(origin) /\ FileIs(s) /\ InStep(s) /\ AllRead(s) /\ pos \in Nat
      /\ Size(s, origin) \in Nat /\ pos = Size(s, origin) - 1 /\ disk.whole
      /\ fil'.Headersize = intTotalHeaderBytes'
      /\ fil'.Nsamples = EndSamples(fil, intTotalHeaderBytes')
  BY LastIs, LastIsWhole
<1>3. PICK d \in Nat : d = BytesOfSamples(origin, disk.samples)
  BY <1>2, DataNat DEF FileIs
<1>4. disk.size = HeaderBytes(W(s)) + d /\ disk.samples \in Nat
  BY ONLY <1>2, <1>3 DEF FileIs, W
<1>5. PICK b \in Nat, l \in Nat : b = Bytes(W(s), pos) /\ l = W(s)[pos + 1].bytes
                                 /\ HeaderBytes(W(s)) = b + l
  <2>1. BytesAdd(W(s), Size(s, origin))
        /\ HeaderBytes(W(s)) = Bytes(W(s), Size(s, origin))
    BY <1>2, BytesGrow DEF W
  <2>2. pos < Size(s, origin) /\ pos + 1 = Size(s, origin)
    BY ONLY <1>2
  <2>3. Bytes(W(s), pos) \in Nat /\ W(s)[pos + 1].bytes \in Nat
        /\ Bytes(W(s), pos + 1) = Bytes(W(s), pos) + W(s)[pos + 1].bytes
    BY ONLY <1>2, <2>1, <2>2 DEF BytesAdd
  <2> QED BY ONLY <2>1, <2>2, <2>3
<1>6. intTotalHeaderBytes' = intTotalHeaderBytes + l
  BY <1>5 DEF AtLast, Ended
<1>7. intTotalHeaderBytes = b + (IF Nameless THEN 5 ELSE 0)
  BY ONLY <1>2, <1>5, Zenon DEF InStep, BytesRead, AllRead, W, Nameless
<1>8. CASE Nameless
  <2>1. intTotalHeaderBytes = b + 5
    BY ONLY <1>7, <1>8, Zenon
  <2>2. intTotalHeaderBytes' = disk.size - d + 5
    BY ONLY <1>4, <1>5, <1>6, <2>1, d \in Nat
  <2> QED BY ONLY <1>2, <1>3, <1>8, <2>2, Zenon DEF Nameless
<1>9. CASE ~Nameless
  <2>1. intTotalHeaderBytes = b + 0
    BY ONLY <1>7, <1>9, Zenon
  <2>2. PICK h \in Nat : h = intTotalHeaderBytes' /\ h = disk.size - d /\ disk.size = h + d
    <3>1. intTotalHeaderBytes' = b + l /\ b + l \in Nat /\ (b + l) + d - d = b + l
      BY ONLY <1>5, <1>6, <2>1, d \in Nat
    <3> QED BY ONLY <1>4, <1>5, <3>1
  <2>3. \A k \in {"nbits", "nifs", "nchans"} : fil.field[k] = origin.field[k]
    <3>1. ASSUME NEW k \in {"nbits", "nifs", "nchans"} PROVE fil.field[k] = origin.field[k]
      <4>1. KeysHave(s, ToSet(Keys(s)))
        BY KeysHad
      <4>2. PICK j \in 1 .. NumKeys(s) : Keys(s)[j] = k
        BY ONLY <4>1, k \in {"nbits", "nifs", "nchans"} DEF KeysHave
      <4>3. k \notin {"fch1", "foff"}
        OBVIOUS
      <4> QED BY ONLY <1>2, <4>2, <4>3 DEF AllRead
    <3> QED BY <3>1
  <2>4. ASSUME disk.size < I32 \div 2 PROVE fil'.Nsamples = disk.samples
    <3>1. nsamples(h, origin.field["nbits"], origin.field["nifs"], origin.field["nchans"]) = disk.samples
      <4>1. disk.size = h + BytesOfSamples(origin, disk.samples)
        BY ONLY <1>3, <2>2
      <4> QED BY ONLY <1>2, <1>4, <2>4, <4>1, SamplesAre, h \in Nat
    <3>2. EndSamples(fil, h) = nsamples(h, origin.field["nbits"], origin.field["nifs"], origin.field["nchans"])
      BY ONLY <2>3, Zenon DEF EndSamples
    <3> QED BY ONLY <1>2, <2>2, <3>1, <3>2
  <2>5. fil'.Headersize = disk.size - BytesOfSamples(origin, disk.samples)
    BY ONLY <1>2, <1>3, <2>2
  <2> QED BY ONLY <1>9, <2>4, <2>5, Zenon DEF Nameless
<1> QED BY ONLY <1>8, <1>9

-----------------------------------------------------------------------------
(* Outside the arrays.                                                     *)
TooMuch ==
  \/ NameTooLong
  \/ ~NamedEnd /\ TableTooLong
  \/ NamedEnd /\ ~before.UseFrequencyTable /\ before.field["nchans"] \notin 0 .. MaxChans

LEMMA ExplainedNext ==
  ASSUME Stays, rd_pc' = "undefined" => TooMuch,
         rd_pc' = "true" => ~NameTooLong /\ (NamedEnd \/ ~TableTooLong)
  PROVE  OverrunExplained'
<1>1. disk' = disk /\ origin' = origin /\ before' = before
  BY DEF Stays
<1>2. (NameTooLong' <=> NameTooLong) /\ (NamedEnd' <=> NamedEnd)
  BY ONLY <1>1, Zenon DEF NameTooLong, NamedEnd, Sigproc
<1>3. TableTooLong' <=> TableTooLong
  BY ONLY <1>1, Zenon DEF TableTooLong, FlagSet, HasTable
<1> QED BY <1>1, <1>2, <1>3, Zenon DEF OverrunExplained, TooMuch

(* What the reader hears where x was written.                              *)
TextNext(s, x) ==
  /\ disk.items[pos + 1].bytes = 4 + Len(x)
  /\ \/ strtmp = x /\ Ahead(s) /\ Len(x) \in 1 .. MaxString
     \/ strtmp = Torn /\ Len(x) \in 1 .. MaxString
     \/ strtmp = "ERROR"

LEMMA TextIs ==
  ASSUME NEW s \in BOOLEAN, Going(s), pos + 1 <= Len(disk.items), NEW x,
         W(s)[pos + 1] = String(x), Len(x) \in Nat
  PROVE  TextNext(s, x)
<1>1. lost = FALSE /\ MaxString \in Nat
  BY StringLengths DEF Going, InStep
<1>2. W(s)[pos + 1].text = x /\ W(s)[pos + 1].bytes = 4 + Len(x)
  BY DEF String
<1>3. BadLength(x) \/ Len(x) \in 1 .. MaxString
  BY ONLY <1>1, Len(x) \in Nat DEF BadLength
<1>4. ~BadLength(Torn)
  <2>1. PICK t : t = Torn /\ Len(t) \in 1 .. MaxString
    <3>1. Torn \in OwnNames
      BY DEF OwnNames
    <3> QED BY ONLY <3>1, StringLengths
  <2>2. ~BadLength(t)
    BY ONLY <1>1, <2>1 DEF BadLength
  <2> QED BY ONLY <2>1, <2>2
<1>5. \A y : disk.items[pos + 1].text = y =>
        (BadLength(y) => strtmp = "ERROR") /\ (~BadLength(y) => strtmp = y)
  BY ONLY <1>1, Zenon DEF strtmp
<1>6. CASE Ahead(s)
  <2>1. disk.items[pos + 1].text = x /\ disk.items[pos + 1].bytes = 4 + Len(x)
    BY ONLY <1>2, <1>6 DEF Ahead
  <2> QED BY ONLY <1>3, <1>5, <1>6, <2>1 DEF TextNext
<1>7. CASE ~Ahead(s)
  <2>1. /\ disk.items[pos + 1].text = IF BadLength(x) THEN x ELSE Torn
        /\ disk.items[pos + 1].bytes = 4 + Len(x)
    BY ONLY <1>2, <1>7, CutHere, s \in BOOLEAN, Going(s), pos + 1 <= Len(disk.items)
       DEF Damaged, W
  <2>2. CASE BadLength(x)
    BY ONLY <1>5, <2>1, <2>2 DEF TextNext
  <2>3. CASE ~BadLength(x)
    BY ONLY <1>3, <1>4, <1>5, <2>1, <2>3 DEF TextNext
  <2> QED BY ONLY <2>2, <2>3
<1> QED BY ONLY <1>6, <1>7

(* A copy that needs more room than there is.                              *)
LEMMA CopiedOver ==
  ASSUME NEW s \in BOOLEAN, ReadName, rd_pc' = "undefined", NEW x, TextNext(s, x),
         Len(x) \in Nat
  PROVE  strtmp \in {x, Torn} /\ Len(x) >= NameSize /\ Len(x) \in 1 .. MaxString
<1>1. \A t \in OwnNames : Len(t) < NameSize /\ Len(t) \in Nat
  <2>1. \A t \in OwnNames : Len(t) < NameSize
    BY ONLY NameRoom
  <2>2. \A t \in OwnNames : Len(t) \in Nat
    BY ONLY Letters DEF AllNames
  <2> QED BY ONLY <2>1, <2>2
<1>2. NameSize \in Nat
  BY NameRoom
<1>3. PICK t : t = strtmp
  OBVIOUS
<1>4. PICK nchar : nchar = disk.items[pos + 1].bytes - 4
  OBVIOUS
<1>5. nchar = Len(x)
  <2>1. disk.items[pos + 1].bytes = 4 + Len(x)
    BY DEF TextNext
  <2> QED BY ONLY <1>4, <2>1, Len(x) \in Nat
<1>6. Len(t) >= NameSize \/ (t = Torn /\ nchar >= NameSize)
  <2>1. rd_pc' \in Copied(t)
    BY <1>3 DEF ReadName
  <2>2. ASSUME ~(Len(t) >= NameSize), ~(t = Torn /\ nchar >= NameSize) PROVE FALSE
    <3>1. Copied(t) = {"loop"}
      BY ONLY <1>4, <2>2, Zenon DEF Copied
    <3> QED BY ONLY <2>1, <3>1, rd_pc' = "undefined"
  <2> QED BY <2>2
<1>7. ASSUME t \in OwnNames PROVE ~(Len(t) >= NameSize)
  BY ONLY <1>1, <1>2, <1>7
<1>8. \/ t = x /\ Len(x) \in 1 .. MaxString
      \/ t = Torn /\ Len(x) \in 1 .. MaxString
      \/ t = "ERROR"
  BY <1>3, Zenon DEF TextNext
<1>9. Torn \in OwnNames /\ "ERROR" \in OwnNames /\ "ERROR" # Torn
  BY DEF OwnNames, Torn
<1>10. CASE t = "ERROR"
  BY ONLY <1>6, <1>7, <1>9, <1>10
<1>11. CASE t = Torn /\ Len(x) \in 1 .. MaxString
  BY ONLY <1>3, <1>5, <1>6, <1>7, <1>9, <1>11
<1>12. CASE t = x /\ Len(x) \in 1 .. MaxString
  BY ONLY <1>3, <1>5, <1>6, <1>12
<1> QED BY ONLY <1>8, <1>10, <1>11, <1>12

LEMMA NameOverrun ==
  ASSUME NEW s \in BOOLEAN, Going(s), pos + 1 <= Len(disk.items), ReadName,
         rd_pc' = "undefined"
  PROVE  NameTooLong /\ strtmp \in AllNames
<1>1. Torn \in AllNames
  BY DEF AllNames, OwnNames
<1>2. CASE pos = NameAt(s) - 1
  <2>1. W(s)[pos + 1] = String(origin.Source_name) /\ origin.Source_name \in AllNames
    BY ONLY <1>2, NamePlace, s \in BOOLEAN, Going(s) DEF NameNext
  <2>2. PICK x : x = origin.Source_name
    OBVIOUS
  <2>3. Len(x) \in Nat /\ W(s)[pos + 1] = String(x) /\ x \in AllNames
    BY ONLY <2>1, <2>2, StringLengths
  <2>4. strtmp \in {x, Torn} /\ Len(x) >= NameSize /\ Len(x) \in 1 .. MaxString
    BY ONLY <2>3, TextIs, CopiedOver, s \in BOOLEAN, Going(s), pos + 1 <= Len(disk.items),
            ReadName, rd_pc' = "undefined"
  <2>5. Len(x) \in NameSize .. MaxString
    <3>1. PICK l : l = Len(x)
      OBVIOUS
    <3>2. l >= NameSize /\ l \in 1 .. MaxString
      BY ONLY <2>4, <3>1
    <3>3. l \in NameSize .. MaxString
      BY ONLY <3>2, Letters
    <3> QED BY ONLY <3>1, <3>3
  <2>6. NameTooLong
    BY ONLY <2>2, <2>5, Zenon DEF NameTooLong
  <2> QED BY ONLY <1>1, <2>3, <2>4, <2>6
<1>3. CASE pos # NameAt(s) - 1
  <2>1. PICK x : ItemIs(s, x)
    BY ONLY <1>3, PlaceItem, s \in BOOLEAN, Going(s)
  <2>2. W(s)[pos + 1] = String(x) /\ x \in Keywords \cup RawNames
    BY ONLY <2>1 DEF ItemIs
  <2>3. Len(x) \in Nat
    BY ONLY <2>2, Letters DEF AllNames
  <2>4. strtmp \in {x, Torn} /\ Len(x) >= NameSize
    BY ONLY <2>2, <2>3, TextIs, CopiedOver, s \in BOOLEAN, Going(s), pos + 1 <= Len(disk.items),
            ReadName, rd_pc' = "undefined"
  <2>5. x \notin Keywords
    <3>1. ASSUME x \in Keywords PROVE FALSE
      <4>1. Len(x) < NameSize /\ NameSize \in Nat
        BY ONLY <3>1, NameRoom
      <4> QED BY ONLY <2>3, <2>4, <4>1
    <3> QED BY <3>1
  <2>6. s /\ pos = 2 /\ x = origin.Rawdatafile /\ x \in RawNames
    BY ONLY <2>1, <2>5 DEF ItemIs
  <2>7. Sigproc
    <3>1. pos >= 2
      BY ONLY <2>6
    <3> QED BY ONLY <2>6, <3>1, OrderShows, s \in BOOLEAN, Going(s)
  <2>8. NameTooLong
    BY ONLY <2>4, <2>6, <2>7 DEF NameTooLong
  <2> QED BY ONLY <1>1, <2>4, <2>6, <2>8 DEF AllNames
<1> QED BY ONLY <1>2, <1>3

(* A channel behind the table, or the end of the header, where it is read  *)
(* as a keyword.                                                           *)
LEMMA KeywordAhead ==
  ASSUME NEW s \in BOOLEAN, Going(s), pos + 1 <= Len(disk.items), NEW t \in Keywords, strtmp = t
  PROVE  /\ Ahead(s)
         /\ \/ pos # NameAt(s) - 1 /\ ItemIs(s, t)
            \/ pos = NameAt(s) - 1 /\ t = origin.Source_name
<1>1. t # Torn /\ t # "ERROR"
  BY ErrorName DEF ErrorIs
<1>2. ASSUME NEW x, W(s)[pos + 1] = String(x), Len(x) \in Nat PROVE Ahead(s) /\ t = x
  <2>1. TextNext(s, x)
    BY ONLY <1>2, TextIs, s \in BOOLEAN, Going(s), pos + 1 <= Len(disk.items)
  <2> QED BY ONLY <1>1, <2>1, strtmp = t, Zenon DEF TextNext
<1>3. CASE pos = NameAt(s) - 1
  <2>1. W(s)[pos + 1] = String(origin.Source_name) /\ origin.Source_name \in AllNames
    BY ONLY <1>3, NamePlace, s \in BOOLEAN, Going(s) DEF NameNext
  <2>2. Len(origin.Source_name) \in Nat
    BY ONLY <2>1, StringLengths
  <2> QED BY ONLY <1>2, <1>3, <2>1, <2>2
<1>4. CASE pos # NameAt(s) - 1
  <2>1. PICK x : ItemIs(s, x)
    BY ONLY <1>4, PlaceItem, s \in BOOLEAN, Going(s)
  <2>2. W(s)[pos + 1] = String(x) /\ x \in Keywords \cup RawNames
    BY ONLY <2>1 DEF ItemIs
  <2>3. Len(x) \in Nat
    BY ONLY <2>2, Letters DEF AllNames
  <2> QED BY ONLY <1>2, <1>4, <2>1, <2>2, <2>3
<1> QED BY ONLY <1>3, <1>4

LEMMA ChannelOverrun ==
  ASSUME NEW s \in BOOLEAN, Going(s), pos + 1 <= Len(disk.items), ReadChannel,
         rd_pc' = "undefined"
  PROVE  ~NamedEnd /\ TableTooLong /\ HasValue
<1>1. HasValue /\ channel_index >= MaxChans /\ strtmp = "fchannel"
  <2>1. strtmp = "fchannel"
    BY DEF ReadChannel
  <2>2. rd_pc' = IF HasValue /\ channel_index >= MaxChans THEN "undefined" ELSE "loop"
    BY DEF ReadChannel
  <2> QED BY ONLY <2>1, <2>2, rd_pc' = "undefined"
<1>2. PICK t : t = "fchannel" /\ t \in Keywords /\ t \notin AllNames
  <2>1. "fchannel" \in Keywords /\ "fchannel" \notin Marks
    BY DEF Keywords, Marks
  <2>2. "fchannel" \notin AllNames
    BY ONLY <2>1, NameKinds
  <2> QED BY ONLY <2>1, <2>2
<1>3. \/ pos # NameAt(s) - 1 /\ ItemIs(s, t)
      \/ pos = NameAt(s) - 1 /\ t = origin.Source_name
  BY ONLY <1>1, <1>2, KeywordAhead, s \in BOOLEAN, Going(s), pos + 1 <= Len(disk.items)
<1>4. Header(origin) /\ InStep(s)
  BY DEF Going, FileIs
<1>5. origin.Source_name \in AllNames
  BY ONLY <1>4 DEF Header
<1>6. ChannelAhead(s)
  BY ONLY <1>2, <1>3, <1>5 DEF ItemIs
<1>7. HasTable(origin) /\ channel_index \in 0 .. Chans - 1
  BY ONLY <1>6 DEF ChannelAhead
<1>8. Chans > MaxChans
  <2>1. Chans \in Nat
    BY ONLY <1>4, Setting, s \in BOOLEAN DEF Chans
  <2> QED BY ONLY <1>1, <1>7, <2>1, Bounds
<1>9. NameRead(s)
  BY ONLY <1>4, <1>6, ChannelPlace, s \in BOOLEAN
<1>10. ~NamedEnd
  BY ONLY <1>4, <1>9 DEF InStep
<1> QED BY ONLY <1>1, <1>7, <1>8, <1>10 DEF TableTooLong, Chans

(* A reader that left its arrays before the end of the header.             *)
Overran == Stays /\ rd_pc' = "undefined" /\ ReaderOK' /\ ObjOK(fil)' /\ OverrunExplained'

LEMMA LoopOverrun ==
  ASSUME NEW s \in BOOLEAN, Going(s), pos + 1 <= Len(disk.items), ReadInHeader,
         ~(Ahead(s) /\ LastItem(s)), rd_pc' = "undefined"
  PROVE  Overran
<1>1. /\ rd_pc = "loop" /\ ObjOK(fil) /\ lost = FALSE /\ intTotalHeaderBytes \in Nat
      /\ channel_index \in Nat /\ expecting \subseteq {"rawdatafile", "source_name"}
      /\ pos \in Nat /\ Len(disk.items) \in Nat
  BY PosIsNat DEF Going, InStep, ReaderOK, PosNat
<1>2. ReadHeaderEnd \/ ReadChannel \/ ReadName
  BY <1>1, Zenon DEF ReadInHeader, ReadEof, ReadStart, ReadMark, ReadFrequencyStart,
                     ReadFrequencyEnd, ReadValue, ReadNsamples, ReadUnknown
<1>3. ~ReadHeaderEnd
  <2>1. ASSUME ReadHeaderEnd PROVE FALSE
    <3>1. PICK t \in Keywords : t = "HEADER_END" /\ strtmp = t
      BY <2>1 DEF ReadHeaderEnd, Keywords
    <3>2. /\ Ahead(s)
          /\ \/ pos # NameAt(s) - 1 /\ ItemIs(s, t)
             \/ pos = NameAt(s) - 1 /\ t = origin.Source_name
      BY ONLY <3>1, KeywordAhead, s \in BOOLEAN, Going(s), pos + 1 <= Len(disk.items)
    <3>3. LastItem(s)
      BY ONLY <3>1, <3>2 DEF LastItem, ItemIs, NamedEnd
    <3> QED BY ONLY <3>2, <3>3, ~(Ahead(s) /\ LastItem(s))
  <2> QED BY <2>1
<1>4. ASSUME Stays, NEW n \in Nat, pos' = n, n <= Len(disk.items), lost' = FALSE,
             expecting' \subseteq expecting, channel_index' \in Nat, intTotalHeaderBytes' \in Nat
      PROVE  ReaderOK'
  <2>1. pos' \in 0 .. Len(disk'.items)
    <3>1. disk' = disk
      BY ONLY <1>4 DEF Stays
    <3>2. n \in 0 .. Len(disk.items)
      BY ONLY <1>1, <1>4
    <3> QED BY ONLY <1>4, <3>1, <3>2
  <2>2. lost' \in BOOLEAN
    BY ONLY <1>4, Zenon
  <2>3. expecting' \subseteq {"rawdatafile", "source_name"}
    BY ONLY <1>1, <1>4
  <2> QED BY ONLY <1>4, <2>1, <2>2, <2>3 DEF ReaderOK
<1>5. CASE ReadName
  <2>1. NameTooLong /\ strtmp \in AllNames
    BY ONLY <1>5, NameOverrun, s \in BOOLEAN, Going(s), pos + 1 <= Len(disk.items),
            rd_pc' = "undefined"
  <2>2. PICK t \in AllNames : t = strtmp
    BY ONLY <2>1
  <2>3. /\ get_string /\ CountString(0) /\ Stays /\ channel_index' = channel_index
        /\ \/ fil' = [fil EXCEPT !.Rawdatafile = t] /\ expecting' = expecting \ {"rawdatafile"}
           \/ fil' = [fil EXCEPT !.Source_name = t] /\ expecting' = expecting \ {"source_name"}
    BY ONLY <1>5, <2>2, Zenon DEF ReadName, InLoop, Stays
  <2>4. ObjOK(fil)'
    BY ONLY <1>1, <2>2, <2>3, ObjNames
  <2>5. PICK x : x = disk.items[pos + 1].text
    OBVIOUS
  <2>6. pos' = pos + 1 /\ lost' \in BOOLEAN
    <3>1. /\ pos' = IF lost THEN pos ELSE pos + 1
          /\ lost' = (lost \/ (BadLength(x) /\ Len(x) > 0))
      BY ONLY <2>3, <2>5, Zenon DEF get_string
    <3> QED BY ONLY <1>1, <3>1
  <2>7. intTotalHeaderBytes' \in Nat
    <3>1. intTotalHeaderBytes' = intTotalHeaderBytes + Len(t) + 4 + 0
      BY ONLY <2>2, <2>3, Zenon DEF CountString
    <3>2. Len(t) \in Nat
      BY ONLY <2>2, StringLengths
    <3> QED BY ONLY <1>1, <3>1, <3>2
  <2>8. ReaderOK'
    <3>1. pos' \in 0 .. Len(disk'.items)
      <4>1. disk' = disk
        BY ONLY <2>3 DEF Stays
      <4>2. pos + 1 \in 0 .. Len(disk.items)
        BY ONLY <1>1, pos + 1 <= Len(disk.items)
      <4> QED BY ONLY <2>6, <4>1, <4>2
    <3>2. expecting' \subseteq {"rawdatafile", "source_name"}
      BY ONLY <1>1, <2>3
    <3>3. channel_index' \in Nat
      BY ONLY <1>1, <2>3
    <3> QED BY ONLY <2>6, <2>7, <3>1, <3>2, <3>3 DEF ReaderOK
  <2>9. OverrunExplained'
    <3>1. TooMuch
      BY ONLY <2>1 DEF TooMuch
    <3> QED BY ONLY <2>3, <3>1, ExplainedNext, rd_pc' = "undefined"
  <2> QED BY ONLY <2>3, <2>4, <2>8, <2>9, rd_pc' = "undefined" DEF Overran
<1>6. CASE ReadChannel
  <2>1. ~NamedEnd /\ TableTooLong /\ HasValue
    BY ONLY <1>6, ChannelOverrun, s \in BOOLEAN, Going(s), pos + 1 <= Len(disk.items),
            rd_pc' = "undefined"
  <2>2. PICK v : v = get_value(fil.frequency_table[channel_index])
    OBVIOUS
  <2>3. /\ SkipValue /\ CountString(SizeOf["fchannel"]) /\ Stays
        /\ channel_index' = channel_index + 1 /\ expecting' = expecting
        /\ strtmp = "fchannel"
    BY ONLY <1>6, Zenon DEF ReadChannel, InLoop, Stays
  <2>4. fil' = [fil EXCEPT !.frequency_table[channel_index] = v, !.field = ChannelFields(@),
                           !.UseFrequencyTable = TRUE]
    <3>1. fil' = [fil EXCEPT !.frequency_table[channel_index] = get_value(@),
                             !.field = ChannelFields(@), !.UseFrequencyTable = TRUE]
      BY ONLY <1>6 DEF ReadChannel
    <3> QED BY ONLY <2>2, <3>1
  <2>5. ObjOK(fil)'
    <3>1. PICK p : p = fil'
      OBVIOUS
    <3>2. ChannelIs(fil, p, channel_index, v)
      BY ONLY <1>1, <2>4, <3>1, ObjChannel
    <3>3. ObjOK(p)
      BY ONLY <3>2 DEF ChannelIs
    <3> QED BY ONLY <3>1, <3>3, Zenon DEF ObjOK
  <2>6. pos' = pos + 2 /\ pos + 2 <= Len(disk.items) /\ lost' = FALSE
    BY ONLY <2>1, <2>3 DEF SkipValue, HasValue
  <2>7. intTotalHeaderBytes' \in Nat
    <3>1. PICK t : t = "fchannel"
      OBVIOUS
    <3>2. SizeOf[t] = 8
      BY <3>1 DEF SizeOf, Fields, Doubles, Ints
    <3>3. Len(t) \in Nat
      <4>1. t \in Keywords
        BY <3>1 DEF Keywords
      <4> QED BY ONLY <4>1, Letters
    <3>4. intTotalHeaderBytes' = intTotalHeaderBytes + Len(t) + 4 + SizeOf[t]
      BY ONLY <2>3, <3>1, Zenon DEF CountString
    <3> QED BY ONLY <1>1, <3>2, <3>3, <3>4
  <2>8. ReaderOK'
    <3>1. pos + 2 \in Nat /\ channel_index' \in Nat /\ expecting' \subseteq expecting
      BY ONLY <1>1, <2>3
    <3> QED BY ONLY <1>4, <2>3, <2>6, <2>7, <3>1
  <2>9. OverrunExplained'
    <3>1. TooMuch
      BY ONLY <2>1 DEF TooMuch
    <3> QED BY ONLY <2>3, <3>1, ExplainedNext, rd_pc' = "undefined"
  <2> QED BY ONLY <2>3, <2>5, <2>8, <2>9, rd_pc' = "undefined" DEF Overran
<1> QED BY ONLY <1>2, <1>3, <1>5, <1>6

(* What is read to the end has names and a table that fit; what is not,    *)
(* channels that are filled in behind the table.                           *)
LEMMA LastOverrun == ASSUME NEW s \in BOOLEAN, AtLast(s) PROVE OverrunExplained'
<1>1. /\ Stays /\ Header(origin) /\ InStep(s) /\ (Sigproc <=> s) /\ pos \in Nat
      /\ ~NamedEnd => AllRead(s)
      /\ NamedEnd => pos = NameAt(s) - 1 /\ ~NameRead(s)
      /\ \E n \in Counted(fil.field["nchans"]) :
           rd_pc' = IF fil.UseFrequencyTable \/ n <= MaxChans THEN "true" ELSE "undefined"
  <2>1. disk' = disk /\ Stays
    BY LastIs DEF AtLast, Ended
  <2>2. Sigproc' <=> Sigproc
    BY ONLY <2>1, Zenon DEF Sigproc
  <2> QED BY ONLY <2>1, <2>2, LastIs, s \in BOOLEAN, AtLast(s)
<1>2. NamesRead(s) /\ TableRead(s) /\ FieldsRead(s)
  BY ONLY <1>1 DEF InStep
<1>3. ObjOK(before) /\ before.UseFrequencyTable \in BOOLEAN
  BY DEF AtLast, Going, ObjOK
<1>4. NameSize \in Nat /\ MaxChans \in Nat
  BY ONLY NameRoom, Bounds
<1>5. ~NameTooLong
  <2>1. Len(origin.Source_name) < NameSize /\ Len(origin.Source_name) \in Nat
    <3>1. origin.Source_name \in AllNames
      BY ONLY <1>1 DEF Header
    <3>2. Len(origin.Source_name) \in Nat
      BY ONLY <3>1, StringLengths
    <3>3. CASE NamedEnd
      <4>1. PICK x \in Keywords : x = origin.Source_name
        BY ONLY <3>3 DEF NamedEnd, Keywords
      <4>2. Len(x) < NameSize
        BY ONLY NameRoom, x \in Keywords
      <4> QED BY ONLY <3>2, <4>1, <4>2
    <3>4. CASE ~NamedEnd
      BY ONLY <1>1, <1>2, <3>2, <3>4 DEF AllRead, NamesRead
    <3> QED BY ONLY <3>3, <3>4
  <2>2. PICK x : x = origin.Source_name
    OBVIOUS
  <2>3. Len(x) \notin NameSize .. MaxString
    <3>1. PICK l \in Nat : l = Len(x) /\ l < NameSize
      BY ONLY <2>1, <2>2
    <3>2. l \notin NameSize .. MaxString
      BY ONLY <3>1, Letters
    <3> QED BY ONLY <3>1, <3>2
  <2>4. ASSUME Sigproc PROVE ~(Len(origin.Rawdatafile) >= NameSize)
    <3>1. s /\ pos >= 3
      <4>1. CASE NamedEnd
        BY ONLY <1>1, <2>4, <4>1 DEF NameAt
      <4>2. CASE ~NamedEnd
        BY ONLY <1>1, <2>4, <4>2 DEF AllRead
      <4> QED BY ONLY <4>1, <4>2
    <3>2. Len(origin.Rawdatafile) < NameSize
      BY ONLY <1>2, <3>1 DEF NamesRead
    <3>3. PICK y : y = origin.Rawdatafile
      OBVIOUS
    <3>4. Len(y) \in Nat
      <4>1. y \in AllNames
        BY ONLY <1>1, <3>3 DEF Header
      <4> QED BY ONLY <4>1, StringLengths
    <3> QED BY ONLY <1>4, <3>2, <3>3, <3>4
  <2> QED BY ONLY <2>2, <2>3, <2>4, Zenon DEF NameTooLong
<1>6. CASE NamedEnd
  <2>1. fil.field["nchans"] = before.field["nchans"]
    BY ONLY <1>1, <1>2, <1>6 DEF FieldsRead
  <2>2. fil.UseFrequencyTable = before.UseFrequencyTable
    <3>1. ~(pos > TableAt(s))
      BY ONLY <1>1, <1>6, s \in BOOLEAN DEF NameAt, TableAt
    <3>2. fil.UseFrequencyTable = (\/ before.UseFrequencyTable
                                   \/ NameRead(s) /\ origin.Source_name = "FREQUENCY_START"
                                   \/ HasTable(origin) /\ pos > TableAt(s))
      BY ONLY <1>2 DEF TableRead
    <3>3. ~NameRead(s)
      BY ONLY <1>1, <1>6
    <3>4. fil.UseFrequencyTable = (before.UseFrequencyTable \/ FALSE \/ FALSE)
      BY ONLY <3>1, <3>2, <3>3, Zenon
    <3>5. PICK b \in BOOLEAN : b = before.UseFrequencyTable
      BY ONLY <1>3
    <3>6. (b \/ FALSE \/ FALSE) = b
      OBVIOUS
    <3> QED BY ONLY <3>4, <3>5, <3>6
  <2>3. ASSUME rd_pc' = "undefined" PROVE TooMuch
    <3>1. PICK n \in Counted(before.field["nchans"]) : ~before.UseFrequencyTable /\ ~(n <= MaxChans)
      BY ONLY <1>1, <2>1, <2>2, <2>3
    <3>2. before.field["nchans"] \notin 0 .. MaxChans
      <4>1. CASE before.field["nchans"] = Garbage
        BY ONLY <4>1 DEF Garbage
      <4>2. CASE before.field["nchans"] # Garbage
        <5>1. n = before.field["nchans"]
          BY ONLY <4>2, n \in Counted(before.field["nchans"]) DEF Counted
        <5> QED BY ONLY <1>4, <3>1, <5>1
      <4> QED BY ONLY <4>1, <4>2
    <3> QED BY ONLY <1>6, <3>1, <3>2 DEF TooMuch
  <2> QED BY ONLY <1>1, <1>5, <1>6, <2>3, ExplainedNext
<1>7. CASE ~NamedEnd
  <2>1. /\ Chans \in Nat
        /\ rd_pc' = IF fil.UseFrequencyTable \/ Chans <= MaxChans THEN "true" ELSE "undefined"
    BY ONLY <1>7, LastChannels, s \in BOOLEAN, AtLast(s)
  <2>2. fil.UseFrequencyTable = (FlagSet \/ HasTable(origin))
    BY ONLY <1>1, <1>2, <1>7 DEF TableRead, AllRead, FlagSet
  <2>3. ASSUME rd_pc' = "undefined" PROVE TooMuch
    <3>1. ~fil.UseFrequencyTable /\ ~(Chans <= MaxChans)
      BY ONLY <2>1, <2>3
    <3>2. Chans > MaxChans
      BY ONLY <1>4, <2>1, <3>1
    <3> QED BY ONLY <1>7, <2>2, <3>1, <3>2 DEF TooMuch, TableTooLong, Chans
  <2>4. ASSUME rd_pc' = "true" PROVE ~TableTooLong
    <3>1. ASSUME Chans > MaxChans, HasTable(origin) PROVE FALSE
      <4>1. channel_index = Chans /\ channel_index <= MaxChans
        BY ONLY <1>1, <1>2, <1>7, <3>1 DEF AllRead, TableRead
      <4> QED BY ONLY <1>4, <2>1, <3>1, <4>1
    <3>2. ASSUME Chans > MaxChans, ~HasTable(origin), ~FlagSet PROVE FALSE
      <4>1. ~(Chans <= MaxChans)
        BY ONLY <1>4, <2>1, <3>2
      <4>2. ~fil.UseFrequencyTable
        BY ONLY <2>2, <3>2
      <4> QED BY ONLY <2>1, <2>4, <4>1, <4>2
    <3> QED BY ONLY <3>1, <3>2 DEF TableTooLong, Chans
  <2> QED BY ONLY <1>1, <1>5, <2>3, <2>4, ExplainedNext
<1> QED BY ONLY <1>6, <1>7

-----------------------------------------------------------------------------
(* The invariant.                                                          *)
FilPcs == {"idle", "start", "loop", "true", "false", "exit", "undefined"}

Typed == rd_pc \in FilPcs /\ files \in 0 .. MaxFiles /\ ReaderOK /\ ObjOK(fil) => FilTypeOK
LEMMA TypedIs == Typed
<1> SUFFICES ASSUME rd_pc \in FilPcs, files \in 0 .. MaxFiles, ReaderOK, ObjOK(fil)
             PROVE  FilTypeOK
  BY DEF Typed
<1>1. fil.Nsamples \in Int32s
  BY DEF ObjOK
<1>2. DOMAIN fil.frequency_table = 0 .. MaxChans - 1
  <2>1. fil.frequency_table = [i \in 0 .. MaxChans - 1 |-> fil.frequency_table[i]]
    BY DEF ObjOK
  <2> QED BY ONLY <2>1
<1> QED BY <1>1, <1>2 DEF FilTypeOK, ReaderOK, FilPcs, Int32s

ReaderStarts == AtStart /\ (\E s \in BOOLEAN : FileIs(s)) => ReaderOK
LEMMA ReaderStartsIs == ReaderStarts
<1> SUFFICES ASSUME AtStart, NEW s \in BOOLEAN, FileIs(s) PROVE ReaderOK
  BY DEF ReaderStarts
<1>1. Len(disk.items) \in Nat
  BY DEF FileIs, IsSeq
<1>2. pos = 0 /\ lost = FALSE /\ expecting = {} /\ channel_index = 0 /\ intTotalHeaderBytes = 0
  BY DEF AtStart
<1>3. 0 \in 0 .. Len(disk.items) /\ 0 \in Nat
  BY ONLY <1>1
<1>4. lost \in BOOLEAN
  BY ONLY <1>2, Zenon
<1> QED BY ONLY <1>2, <1>3, <1>4 DEF ReaderOK

LEMMA NewObject == ObjOK(FilterBankData)
<1>1. PICK o : o = FilterBankData
  OBVIOUS
<1>2. PICK f : f = [i \in 0 .. MaxChans - 1 |-> Garbage]
  OBVIOUS
<1>3. PICK g : g = [k \in Fields |-> Garbage]
  OBVIOUS
<1>4. o = [Source_name |-> "J0000-0000", Rawdatafile |-> "J0000-0000",
           UseFrequencyTable |-> FALSE, Headersize |-> Garbage, Nsamples |-> Garbage,
           frequency_table |-> f, field |-> g]
  BY <1>1, <1>2, <1>3 DEF FilterBankData
<1>5. /\ o.Source_name = "J0000-0000" /\ o.Rawdatafile = "J0000-0000"
      /\ o.UseFrequencyTable = FALSE /\ o.Headersize = Garbage /\ o.Nsamples = Garbage
      /\ o.frequency_table = f /\ o.field = g
  BY ONLY <1>4
<1>6. Garbage \in Int32s
  BY Bounds DEF Garbage, Int32s
<1>7. "J0000-0000" \in AllNames
  BY DEF AllNames, OwnNames
<1>8. f = [i \in 0 .. MaxChans - 1 |-> f[i]] /\ g = [k \in Fields |-> g[k]]
  BY ONLY <1>2, <1>3
<1>9. g["nchans"] = Garbage /\ g["nifs"] = Garbage /\ g["nbits"] = Garbage
  BY ONLY <1>3 DEF Fields, Ints
<1> QED BY ONLY <1>1, <1>4, <1>5, <1>6, <1>7, <1>8, <1>9 DEF ObjOK

LEMMA FileStays == ASSUME NEW s, FileIs(s), disk' = disk, origin' = origin PROVE FileIs(s)'
BY Zenon DEF FileIs, Damaged

(* What is returned is told when the reading is over.                      *)
LEMMA NothingReturned == ASSUME rd_pc' \in {"idle", "start", "loop"} PROVE Results'
BY Zenon DEF Results, TrueIffComplete, OverrunExplained, ReadBack, TableExplained, SamplesExact

LEMMA UnreadResults == ASSUME Unread PROVE Results'
<1>1. disk' = disk /\ origin' = origin /\ rd_pc' \in {"false", "exit"}
  BY DEF Unread, Stays
<1>2. ASSUME disk.whole \/ (NamedEnd /\ \E i \in DOMAIN disk.items : disk.items[i].text = "HEADER_END")
      PROVE  Long(origin.Source_name)
  BY <1>2 DEF Unread, NoEnd
<1>3. rd_pc' # "true" /\ rd_pc' # "undefined"
  BY <1>1
<1>4. TrueIffComplete'
  BY ONLY <1>1, <1>2, <1>3, Zenon DEF TrueIffComplete, NamedEnd
<1> QED BY ONLY <1>3, <1>4, Zenon DEF Results, OverrunExplained, ReadBack, TableExplained, SamplesExact

(* The invariant after a step that leaves the file alone.                  *)
Kept(s) == /\ FileIs(s) /\ files \in 1 .. MaxFiles /\ ObjOK(before) /\ Stays
           /\ rd_pc' \in FilPcs /\ ReaderOK' /\ ObjOK(fil)' /\ Results'
           /\ rd_pc' \notin {"idle", "start"}
           /\ rd_pc' = "loop" => InStep(s)' \/ OutOfStep'

LEMMA KeptInv == ASSUME NEW s \in BOOLEAN, Kept(s) PROVE HeaderInv'
<1>1. disk' = disk /\ origin' = origin /\ files' = files /\ before' = before
  BY DEF Kept, Stays
<1>2. FileIs(s)'
  BY <1>1, FileStays DEF Kept
<1>3. files' \in 0 .. MaxFiles /\ files' > 0 /\ files' # 0
  <2>1. files \in 1 .. MaxFiles /\ MaxFiles \in Nat
    BY Bounds DEF Kept
  <2> QED BY ONLY <1>1, <2>1
<1>4. FilTypeOK'
  <2>1. Typed'
    BY TypedIs, PTL
  <2> QED BY ONLY <1>3, <2>1, Kept(s), Zenon DEF Typed, Kept, FilPcs
<1>5. ObjOK(before)'
  BY ONLY <1>1, Kept(s), Zenon DEF Kept, ObjOK
<1>6. Reading(s)'
  BY ONLY Kept(s), Zenon DEF Kept, Reading
<1> QED BY ONLY <1>2, <1>3, <1>4, <1>5, <1>6, Kept(s), s \in BOOLEAN, Zenon DEF Kept, HeaderInv

(* A step of the reader.                                                   *)
LEMMA LoopKeeps ==
  ASSUME NEW s \in BOOLEAN, Going(s), files \in 1 .. MaxFiles, ReadInHeader
  PROVE  Kept(s)
<1>1. /\ FileIs(s) /\ ObjOK(before) /\ ObjOK(fil)
      /\ pos \in Nat /\ Len(disk.items) \in Nat /\ pos <= Len(disk.items)
  BY PosIsNat DEF Going, PosNat
<1>2. ASSUME Turned(s) PROVE Kept(s)
  <2>1. rd_pc' = "loop"
    BY <1>2 DEF Turned
  <2>2. Results' /\ rd_pc' \in FilPcs /\ rd_pc' \notin {"idle", "start"}
    BY ONLY <2>1, NothingReturned DEF FilPcs
  <2> QED BY ONLY <1>1, <1>2, <2>2, files \in 1 .. MaxFiles DEF Kept, Turned
<1>3. ASSUME Unread PROVE Kept(s)
  <2>1. rd_pc' \in {"false", "exit"} /\ fil' = fil /\ Stays /\ ReaderOK'
    BY <1>3 DEF Unread
  <2>2. ObjOK(fil)'
    BY ONLY <1>1, <2>1, Zenon DEF ObjOK
  <2>3. rd_pc' \in FilPcs /\ rd_pc' \notin {"idle", "start"} /\ rd_pc' # "loop"
    BY ONLY <2>1 DEF FilPcs
  <2> QED BY ONLY <1>1, <1>3, <2>1, <2>2, <2>3, UnreadResults, files \in 1 .. MaxFiles DEF Kept
<1>4. CASE pos = Len(disk.items)
  BY ONLY <1>3, <1>4, LoopEof, s \in BOOLEAN, Going(s), ReadInHeader
<1>5. CASE pos + 1 <= Len(disk.items) /\ ~Ahead(s) /\ rd_pc' # "undefined"
  <2>1. Turned(s) \/ Failed
    BY ONLY <1>5, TakeDamaged, s \in BOOLEAN, Going(s), ReadInHeader
  <2>2. Failed => Unread
    BY DEF Failed, Unread
  <2> QED BY ONLY <1>2, <1>3, <2>1, <2>2
<1>6. CASE Ahead(s) /\ ~LastItem(s) /\ rd_pc' # "undefined"
  BY ONLY <1>2, <1>6, TakeAhead, s \in BOOLEAN, Going(s), ReadInHeader
<1>7. CASE Ahead(s) /\ LastItem(s)
  <2>1. Ended(s)
    BY ONLY <1>7, EndTurn, s \in BOOLEAN, Going(s), ReadInHeader
  <2>2. AtLast(s)
    BY ONLY <1>7, <2>1, Going(s) DEF AtLast
  <2>3. Results'
    BY ONLY <2>2, LastComplete, LastOverrun, LastReadBack, LastTable, LastSamples, s \in BOOLEAN
       DEF Results
  <2>4. Stays /\ ReaderOK'
    BY ONLY <2>1 DEF Ended
  <2>5. rd_pc' \in {"true", "undefined"} /\ ObjOK(fil')
    BY ONLY <2>2, LastIs, s \in BOOLEAN
  <2>6. ObjOK(fil)'
    <3>1. PICK p : p = fil'
      OBVIOUS
    <3>2. ObjOK(p) => ObjOK(fil)'
      BY ONLY <3>1, Zenon DEF ObjOK
    <3> QED BY ONLY <2>5, <3>1, <3>2
  <2>7. rd_pc' \in FilPcs /\ rd_pc' \notin {"idle", "start"} /\ rd_pc' # "loop"
    BY ONLY <2>5 DEF FilPcs
  <2> QED BY ONLY <1>1, <2>3, <2>4, <2>6, <2>7, files \in 1 .. MaxFiles DEF Kept
<1>8. CASE pos + 1 <= Len(disk.items) /\ ~(Ahead(s) /\ LastItem(s)) /\ rd_pc' = "undefined"
  <2>1. Overran
    BY ONLY <1>8, LoopOverrun, s \in BOOLEAN, Going(s), ReadInHeader
  <2>2. Results'
    BY ONLY <1>8, <2>1 DEF Overran, Results, TrueIffComplete, ReadBack, TableExplained,
                           SamplesExact
  <2>3. rd_pc' \in FilPcs /\ rd_pc' \notin {"idle", "start"} /\ rd_pc' # "loop"
    BY ONLY <1>8 DEF FilPcs
  <2> QED BY ONLY <1>1, <2>1, <2>2, <2>3, files \in 1 .. MaxFiles DEF Kept, Overran
<1>9. pos = Len(disk.items) \/ pos + 1 <= Len(disk.items)
  BY ONLY <1>1
<1> QED BY ONLY <1>4, <1>5, <1>6, <1>7, <1>8, <1>9

LEMMA ReaderKeeps == ASSUME HeaderInv, ReadInHeader PROVE HeaderInv'
<1>1. /\ rd_pc \in {"start", "loop"}
      /\ rd_pc = "start" => ReadStart \/ ReadEof
  BY DEF ReadInHeader, ReadEof, ReadStart, ReadHeaderEnd, ReadMark, ReadFrequencyStart,
     ReadFrequencyEnd, ReadChannel, ReadValue, ReadNsamples, ReadName, ReadUnknown, InLoop
<1>2. files \in 1 .. MaxFiles /\ files > 0
  <2>1. files \in 0 .. MaxFiles /\ MaxFiles \in Nat
    BY Bounds DEF HeaderInv, FilTypeOK
  <2>2. files # 0
    BY <1>1 DEF HeaderInv
  <2> QED BY ONLY <2>1, <2>2
<1>3. PICK s \in BOOLEAN : FileIs(s) /\ Reading(s)
  BY <1>2 DEF HeaderInv
<1>4. ReaderOK /\ ObjOK(fil) /\ ObjOK(before)
  BY DEF HeaderInv, FilTypeOK, ReaderOK
<1>5. ASSUME Unread PROVE Kept(s)
  <2>1. rd_pc' \in {"false", "exit"} /\ fil' = fil /\ Stays /\ ReaderOK'
    BY <1>5 DEF Unread
  <2>2. ObjOK(fil)'
    BY ONLY <1>4, <2>1, Zenon DEF ObjOK
  <2>3. rd_pc' \in FilPcs /\ rd_pc' \notin {"idle", "start"} /\ rd_pc' # "loop"
    BY ONLY <2>1 DEF FilPcs
  <2> QED BY ONLY <1>2, <1>3, <1>4, <1>5, <2>1, <2>2, <2>3, UnreadResults DEF Kept
<1>6. CASE rd_pc = "start"
  <2>1. Opened(s)
    BY ONLY <1>3, <1>4, <1>6 DEF Opened, Reading
  <2>2. CASE ReadEof
    BY ONLY <1>3, <1>5, <2>1, <2>2, StartEof, KeptInv
  <2>3. CASE ReadStart
    <3>1. (Stays /\ fil' = fil /\ rd_pc' = "loop" /\ ReaderOK' /\ InStep(s)') \/ Unread
      BY ONLY <1>3, <2>1, <2>3, StartTurn
    <3>2. ASSUME Stays, fil' = fil, rd_pc' = "loop", ReaderOK', InStep(s)' PROVE Kept(s)
      <4>1. Results' /\ rd_pc' \in FilPcs /\ rd_pc' \notin {"idle", "start"}
        BY ONLY <3>2, NothingReturned DEF FilPcs
      <4>2. ObjOK(fil)'
        BY ONLY <1>4, <3>2, Zenon DEF ObjOK
      <4> QED BY ONLY <1>2, <1>3, <1>4, <3>2, <4>1, <4>2 DEF Kept
    <3> QED BY ONLY <1>3, <1>5, <3>1, <3>2, KeptInv
  <2> QED BY ONLY <1>1, <1>6, <2>2, <2>3
<1>7. CASE rd_pc = "loop" /\ InStep(s)
  <2>1. Going(s)
    BY ONLY <1>3, <1>4, <1>7 DEF Going
  <2> QED BY ONLY <1>2, <1>3, <2>1, LoopKeeps, KeptInv, ReadInHeader
<1>8. CASE rd_pc = "loop" /\ OutOfStep
  BY ONLY <1>3, <1>4, <1>5, <1>8, OutTurn, KeptInv, ReadInHeader
<1> QED BY ONLY <1>1, <1>3, <1>6, <1>7, <1>8 DEF Reading

(* A new file, or a new object.                                            *)
LEMMA WriterKeeps ==
  ASSUME HeaderInv, WriteFile \/ ForeignFile
  PROVE  HeaderInv'
<1>1. ObjOK(fil) /\ ObjOK(before) /\ files \in Nat
  BY Bounds DEF HeaderInv, FilTypeOK
<1>2. Ready' /\ fil' = fil /\ before' = before /\ files' \in 1 .. MaxFiles
  BY ONLY <1>1, Writers, WriteFile \/ ForeignFile
<1>3. rd_pc' = "idle" /\ AtStart' /\ (\E s \in BOOLEAN : FileIs(s)')
  BY ONLY <1>2, Zenon DEF Ready
<1>4. ReaderOK'
  <2>1. ReaderStarts'
    BY ReaderStartsIs, PTL
  <2> QED BY ONLY <1>3, <2>1, Zenon DEF ReaderStarts
<1>5. ObjOK(fil)' /\ ObjOK(before)'
  BY ONLY <1>1, <1>2, Zenon DEF ObjOK
<1>6. files' \in 0 .. MaxFiles /\ files' # 0
  BY ONLY <1>2, Bounds
<1>7. Results' /\ rd_pc' \in FilPcs /\ rd_pc' # "loop"
  BY ONLY <1>3, NothingReturned DEF FilPcs
<1>8. FilTypeOK'
  <2>1. Typed'
    BY TypedIs, PTL
  <2> QED BY ONLY <1>4, <1>5, <1>6, <1>7, <2>1, Zenon DEF Typed, FilPcs
<1>9. \E s \in BOOLEAN : FileIs(s)' /\ Reading(s)'
  BY ONLY <1>3, <1>7, Zenon DEF Reading
<1> QED BY ONLY <1>5, <1>6, <1>7, <1>8, <1>9, Zenon DEF HeaderInv

LEMMA OpenKeeps == ASSUME HeaderInv, OpenFile PROVE HeaderInv'
<1>1. /\ rd_pc = "idle" /\ files > 0 /\ fil' \in {fil, FilterBankData} /\ before' = fil'
      /\ rd_pc' = "start" /\ disk' = disk /\ origin' = origin /\ files' = files /\ pos' = pos
      /\ lost' = lost /\ expecting' = expecting /\ channel_index' = channel_index
      /\ intTotalHeaderBytes' = intTotalHeaderBytes
  BY Zenon DEF OpenFile
<1>2. ObjOK(fil) /\ ReaderOK /\ files \in 0 .. MaxFiles
  BY DEF HeaderInv, FilTypeOK, ReaderOK
<1>3. PICK s \in BOOLEAN : FileIs(s) /\ Reading(s)
  BY <1>1 DEF HeaderInv
<1>4. FileIs(s)'
  BY ONLY <1>1, <1>3, FileStays
<1>5. ObjOK(fil')
  BY ONLY <1>1, <1>2, NewObject
<1>6. PICK p : p = fil' /\ p = before' /\ ObjOK(p)
  BY ONLY <1>1, <1>5
<1>7. ObjOK(fil)' /\ ObjOK(before)'
  <2>1. ObjOK(p) => ObjOK(fil)'
    BY ONLY <1>6, Zenon DEF ObjOK
  <2>2. ObjOK(p) => ObjOK(before)'
    BY ONLY <1>6, Zenon DEF ObjOK
  <2> QED BY ONLY <1>6, <2>1, <2>2
<1>8. AtStart'
  <2>1. AtStart
    BY ONLY <1>1, <1>3 DEF Reading
  <2> QED BY ONLY <1>1, <2>1, Zenon DEF AtStart
<1>9. ReaderOK'
  BY ONLY <1>1, <1>2, Zenon DEF ReaderOK
<1>10. Results' /\ rd_pc' \in FilPcs /\ rd_pc' # "loop"
  BY ONLY <1>1, NothingReturned DEF FilPcs
<1>11. FilTypeOK'
  <2>1. Typed'
    BY TypedIs, PTL
  <2> QED BY ONLY <1>1, <1>2, <1>7, <1>9, <1>10, <2>1, Zenon DEF Typed, FilPcs
<1>12. Reading(s)'
  BY ONLY <1>8, <1>10, Zenon DEF Reading
<1>13. files' # 0
  BY ONLY <1>1, <1>2, Bounds
<1> QED BY ONLY <1>3, <1>4, <1>7, <1>10, <1>11, <1>12, <1>13, Zenon DEF HeaderInv

LEMMA StartsRight == ASSUME FilInit PROVE HeaderInv
<1>1. /\ disk = [items |-> <<>>, whole |-> FALSE, samples |-> 0, size |-> 0]
      /\ files = 0 /\ fil = FilterBankData /\ before = FilterBankData /\ rd_pc = "idle"
      /\ pos = 0 /\ lost = FALSE /\ expecting = {} /\ channel_index = 0
      /\ intTotalHeaderBytes = 0
  BY Zenon DEF FilInit
<1>2. ObjOK(fil) /\ ObjOK(before)
  BY ONLY <1>1, NewObject
<1>3. ReaderOK
  <2>1. Len(disk.items) = 0
    <3>1. disk.items = <<>>
      BY ONLY <1>1
    <3> QED BY ONLY <3>1
  <2>2. pos \in 0 .. Len(disk.items) /\ channel_index \in Nat /\ intTotalHeaderBytes \in Nat
    BY ONLY <1>1, <2>1
  <2>3. lost \in BOOLEAN /\ expecting \subseteq {"rawdatafile", "source_name"}
    BY ONLY <1>1
  <2> QED BY ONLY <2>2, <2>3 DEF ReaderOK
<1>4. FilTypeOK
  <2>1. files \in 0 .. MaxFiles /\ rd_pc \in FilPcs
    BY ONLY <1>1, Bounds DEF FilPcs
  <2> QED BY ONLY <1>2, <1>3, <2>1, TypedIs DEF Typed
<1>5. Results
  BY ONLY <1>1, Zenon DEF Results, TrueIffComplete, OverrunExplained, ReadBack, TableExplained, SamplesExact
<1>6. AtStart
  BY ONLY <1>1, Zenon DEF AtStart
<1>7. ~(files > 0)
  BY ONLY <1>1
<1> QED BY ONLY <1>1, <1>2, <1>4, <1>5, <1>6, <1>7 DEF HeaderInv

LEMMA StutterKeeps == ASSUME HeaderInv, UNCHANGED fil_vars PROVE HeaderInv'
<1>1. /\ disk' = disk /\ origin' = origin /\ files' = files /\ fil' = fil /\ before' = before
      /\ rd_pc' = rd_pc /\ pos' = pos /\ lost' = lost /\ expecting' = expecting
      /\ channel_index' = channel_index /\ intTotalHeaderBytes' = intTotalHeaderBytes
  BY Zenon DEF fil_vars, reader_vars
<1>2. FilTypeOK'
  BY <1>1, Zenon DEF HeaderInv, FilTypeOK
<1>3. ObjOK(fil)' /\ ObjOK(before)'
  BY <1>1, Zenon DEF HeaderInv, ObjOK
<1>4. Results'
  <2>1. TrueIffComplete'
    BY <1>1, Zenon DEF HeaderInv, Results, TrueIffComplete, NamedEnd
  <2>2. ReadBack'
    BY <1>1, Zenon DEF HeaderInv, Results, ReadBack, Sigproc, KeysRead, NamedEnd, HasTable
  <2>3. TableExplained'
    BY <1>1, Zenon DEF HeaderInv, Results, TableExplained, NamedEnd, HasTable
  <2>4. SamplesExact'
    BY <1>1, Zenon DEF HeaderInv, Results, SamplesExact, NamedEnd, BytesOfSamples
  <2>5. OverrunExplained'
    BY <1>1, Zenon DEF HeaderInv, Results, OverrunExplained, NamedEnd, NameTooLong, Sigproc,
                       TableTooLong, FlagSet, HasTable
  <2> QED BY <2>1, <2>2, <2>3, <2>4, <2>5 DEF Results
<1>5. AtStart => AtStart'
  BY ONLY <1>1, Zenon DEF AtStart
<1>6. ASSUME NEW s \in BOOLEAN, FileIs(s), Reading(s) PROVE FileIs(s)' /\ Reading(s)'
  <2>1. FileIs(s)'
    BY ONLY <1>1, <1>6, FileStays
  <2>2. ASSUME InStep(s) PROVE InStep(s)'
    <3>1. Stop(s)'
      BY ONLY <1>1, <2>2, Zenon DEF InStep, Stop, HasTable, FieldsAt, TableLen, Size
    <3>2. NamesRead(s)' /\ NameRead(s)' = NameRead(s)
      BY ONLY <1>1, <2>2, Zenon DEF InStep, NamesRead, NameRead, Expected, NameHeard
    <3>3. TableRead(s)'
      BY ONLY <1>1, <2>2, Zenon DEF InStep, TableRead, NameRead, HasTable
    <3>4. FieldsRead(s)'
      BY ONLY <1>1, <2>2, Zenon DEF InStep, FieldsRead, NameRead, Zeroed, HasTable, FieldsAt, TableLen
    <3>5. BytesRead(s)'
      BY ONLY <1>1, <2>2, Zenon DEF InStep, BytesRead, NameRead
    <3> QED BY ONLY <1>1, <2>2, <3>1, <3>2, <3>3, <3>4, <3>5, Zenon DEF InStep, NamedEnd, Size, TableLen, HasTable
  <2>3. ASSUME OutOfStep PROVE OutOfStep'
    BY ONLY <1>1, <2>3, Zenon DEF OutOfStep, NoEnd, NamedEnd
  <2> QED BY ONLY <1>1, <1>5, <1>6, <2>1, <2>2, <2>3, Zenon DEF Reading
<1> QED BY ONLY <1>1, <1>2, <1>3, <1>4, <1>5, <1>6, HeaderInv, Zenon DEF HeaderInv

(* The inductive invariant: the file is the header of origin, in one of    *)
(* two orders, as far as it goes; the reader is in step with its items, or *)
(* will not find the end of the header; what was returned is right         *)
(* (filterbank.cpp:204-385).                                               *)
THEOREM HeaderInvariant == FilSpec => []HeaderInv
<1>1. FilInit => HeaderInv
  BY StartsRight
<1>2. HeaderInv /\ [FilNext]_fil_vars => HeaderInv'
  <2> SUFFICES ASSUME HeaderInv, [FilNext]_fil_vars PROVE HeaderInv'
    OBVIOUS
  <2>1. CASE WriteFile \/ ForeignFile
    BY ONLY <2>1, WriterKeeps, HeaderInv
  <2>2. CASE OpenFile
    BY ONLY <2>2, OpenKeeps, HeaderInv
  <2>3. CASE ReadInHeader
    BY ONLY <2>3, ReaderKeeps, HeaderInv
  <2>4. CASE UNCHANGED fil_vars
    BY ONLY <2>4, StutterKeeps, HeaderInv
  <2> QED BY <2>1, <2>2, <2>3, <2>4 DEF FilNext
<1> QED BY <1>1, <1>2, PTL DEF FilSpec

(* The reader never leaves the file, counts in whole numbers, and computes *)
(* a number of samples that is an int, whatever files it is given          *)
(* (filterbank.cpp:204-385).                                               *)
THEOREM HeaderTypeCorrect == FilSpec => []FilTypeOK
<1>1. HeaderInv => FilTypeOK
  BY DEF HeaderInv
<1> QED BY <1>1, HeaderInvariant, PTL

(* The reader leaves the arrays for the names and for the frequencies only *)
(* for the headers OverrunExplained names, and reads no header to its end  *)
(* that has a name or a table too long for them (filterbank.cpp:274, 366,  *)
(* 371, 386).                                                              *)
THEOREM OverrunsExplained == FilSpec => []OverrunExplained
<1>1. HeaderInv => OverrunExplained
  BY DEF HeaderInv, Results
<1> QED BY <1>1, HeaderInvariant, PTL

(* Where it does not leave its arrays, ReadInHeader returns true of the    *)
(* complete headers and of no other, but for a source called HEADER_END    *)
(* (filterbank.cpp:204-378).                                               *)
THEOREM CompleteHeadersOnly == FilSpec => []TrueIffComplete
<1>1. HeaderInv => TrueIffComplete
  BY DEF HeaderInv, Results
<1> QED BY <1>1, HeaderInvariant, PTL

(* Every field of the file is read back, and nothing else of the object    *)
(* changes (filterbank.cpp:148, 151, 276, 364).                            *)
THEOREM FieldsReadBack == FilSpec => []ReadBack
<1>1. HeaderInv => ReadBack
  BY DEF HeaderInv, Results
<1> QED BY <1>1, HeaderInvariant, PTL

(* The table of frequencies is that of the file, unless the flag of an     *)
(* earlier file, or of a name that is a keyword, is still set              *)
(* (filterbank.cpp:221, 384).                                              *)
THEOREM TableIsExplained == FilSpec => []TableExplained
<1>1. HeaderInv => TableExplained
  BY DEF HeaderInv, Results
<1> QED BY <1>1, HeaderInvariant, PTL

(* The header is as long as the reader counts, and the samples behind it   *)
(* are as many as it computes (filterbank.cpp:212, 380, 381).              *)
THEOREM SamplesCounted == FilSpec => []SamplesExact
<1>1. HeaderInv => SamplesExact
  BY DEF HeaderInv, Results
<1> QED BY <1>1, HeaderInvariant, PTL
=============================================================================
