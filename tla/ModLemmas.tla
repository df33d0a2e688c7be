----------------------------- MODULE ModLemmas -----------------------------
(***************************************************************************)
(* Facts about numbers: remainders, which the proofs about rings and       *)
(* 64-bit counters rest on, products, quotients, and induction.            *)
(***************************************************************************)
EXTENDS Integers, FiniteSetTheorems, FunctionTheorems, TLAPS

(* A remainder is one of 0 .. n - 1.                                       *)
LEMMA ModRange ==
  ASSUME NEW n \in Nat \ {0}, NEW x \in Int
  PROVE  x % n \in 0 .. n - 1
OBVIOUS

(* A number that is a remainder already is its own.                        *)
LEMMA ModId ==
  ASSUME NEW n \in Nat \ {0}, NEW x \in 0 .. n - 1
  PROVE  x % n = x
OBVIOUS

(* The remainder of a negative number no larger than the modulus wraps     *)
(* around, as an unsigned machine word does.                               *)
LEMMA ModNegative ==
  ASSUME NEW n \in Nat \ {0}, NEW x \in Int, x < 0, x + n >= 0
  PROVE  x % n = x + n
OBVIOUS

(* The successor in a ring.                                                *)
LEMMA ModSucc ==
  ASSUME NEW n \in Nat \ {0}, NEW b \in 0 .. n - 1
  PROVE  (b + 1) % n = IF b + 1 = n THEN 0 ELSE b + 1
OBVIOUS

(* Quotient and remainder.                                                 *)
LEMMA DivMod ==
  ASSUME NEW n \in Nat \ {0}, NEW x \in Int
  PROVE  /\ x \div n \in Int
         /\ x = (x \div n) * n + (x % n)
         /\ x % n \in 0 .. n - 1
OBVIOUS

(* A multiple of n smaller than n is 0.                                    *)
LEMMA MultipleAtLeast ==
  ASSUME NEW n \in Nat \ {0}, NEW k \in Int
  PROVE  /\ k >= 1 => k * n >= n
         /\ k <= -1 => k * n <= -n
OBVIOUS

(* Quotient and remainder are unique.                                      *)
LEMMA ModOfMultiple ==
  ASSUME NEW n \in Nat \ {0}, NEW q \in Int, NEW r \in 0 .. n - 1
  PROVE  (q * n + r) % n = r /\ (q * n + r) \div n = q
<1> DEFINE x == q * n + r
           d == (x \div n) - q
<1>1. q * n \in Int /\ x \in Int
  OBVIOUS
<1>2. d \in Int
  BY <1>1, DivMod
<1>3. d * n = r - (x % n) /\ x % n \in 0 .. n - 1
  <2>1. d * n = (x \div n) * n - q * n
    <3> HIDE DEF x
    <3> QED BY <1>1, DivMod
  <2>2. x = (x \div n) * n + (x % n) /\ x % n \in 0 .. n - 1
    BY <1>1, DivMod
  <2> QED BY <1>1, <2>1, <2>2
<1> HIDE DEF x, d
<1>4. d = 0
  BY <1>2, <1>3, MultipleAtLeast
<1>5. x % n = r
  BY <1>1, <1>3, <1>4, DivMod
<1>6. x \div n = q
  BY <1>1, <1>4, DivMod DEF d
<1> QED BY <1>5, <1>6 DEF x

(* Taking off the remainder leaves the multiple.                           *)
LEMMA MultipleBelow ==
  ASSUME NEW n \in Nat \ {0}, NEW q \in Int, NEW r \in 0 .. n - 1,
         NEW x, x = q * n + r
  PROVE  x - (x % n) = q * n /\ x \in Int /\ q * n \in Int
<1>1. q * n \in Int
  OBVIOUS
<1>2. x % n = r
  BY ModOfMultiple
<1> QED BY <1>1, <1>2

(* Going once more round the ring changes nothing.                         *)
LEMMA ModAddModulus ==
  ASSUME NEW n \in Nat \ {0}, NEW x \in Int, NEW y, y = x + n
  PROVE  y % n = x % n /\ y \div n = x \div n + 1
<1> DEFINE q == x \div n
           r == x % n
<1>1. q \in Int /\ r \in 0 .. n - 1 /\ x = q * n + r
  BY DivMod
<1> HIDE DEF q, r
<1>2. y = (q + 1) * n + r
  BY <1>1
<1>3. ((q + 1) * n + r) % n = r /\ ((q + 1) * n + r) \div n = q + 1
  BY <1>1, ModOfMultiple
<1> QED BY <1>2, <1>3 DEF q, r

(* Numbers less than n apart have different remainders.                    *)
LEMMA ModWindow ==
  ASSUME NEW n \in Nat \ {0}, NEW a \in Int, NEW b \in a .. a + n - 1, a % n = b % n
  PROVE  a = b
<1> DEFINE d == (b \div n) - (a \div n)
<1>1. a \div n \in Int /\ b \div n \in Int /\ d \in Int
  BY DivMod
<1>2. (a \div n) * n \in Int /\ (b \div n) * n \in Int
  BY ONLY <1>1, n \in Nat \ {0}
<1>3. d * n = (b \div n) * n - (a \div n) * n
  BY ONLY <1>1, n \in Nat \ {0}
<1>4. a = (a \div n) * n + (a % n) /\ b = (b \div n) * n + (b % n) /\ a % n \in Int
  BY DivMod
<1> HIDE DEF d
<1>5. b - a = d * n
  BY <1>2, <1>3, <1>4
<1>6. d = 0
  BY <1>1, <1>5, MultipleAtLeast
<1> QED BY <1>5, <1>6

(* Walking the ring is counting.                                           *)
LEMMA ModNext ==
  ASSUME NEW n \in Nat \ {0}, NEW x \in Int
  PROVE  ((x % n) + 1) % n = (x + 1) % n
<1> DEFINE q == x \div n
           r == x % n
<1>1. q \in Int /\ r \in 0 .. n - 1 /\ x = q * n + r /\ q * n \in Int
  <2>1. q \in Int /\ r \in 0 .. n - 1 /\ x = q * n + r
    BY DivMod
  <2> HIDE DEF q, r
  <2> QED BY <2>1
<1> HIDE DEF q, r
<1>2. CASE r + 1 < n
  <2>1. x + 1 = q * n + (r + 1) /\ r + 1 \in 0 .. n - 1
    BY ONLY <1>1, <1>2, n \in Nat \ {0}
  <2>2. (q * n + (r + 1)) % n = r + 1 /\ (r + 1) % n = r + 1
    BY ONLY <1>1, <2>1, n \in Nat \ {0}, ModOfMultiple, ModId
  <2> QED BY <2>1, <2>2 DEF r
<1>3. CASE ~(r + 1 < n)
  <2>1. r + 1 = n
    BY <1>1, <1>3
  <2>2. (r + 1) % n = 0
    BY <1>1, <2>1, ModSucc
  <2>3. (q + 1) * n = q * n + n /\ q + 1 \in Int /\ 0 \in 0 .. n - 1
    BY <1>1
  <2>4. x + 1 = (q + 1) * n + 0
    BY <1>1, <2>1, <2>3
  <2>5. ((q + 1) * n + 0) % n = 0
    BY ONLY <2>3, n \in Nat \ {0}, ModOfMultiple
  <2> QED BY <2>2, <2>4, <2>5 DEF r
<1> QED BY <1>2, <1>3

(* Products of natural numbers, and their order.                           *)
LEMMA ProductNat ==
  ASSUME NEW a \in Nat, NEW b \in Nat
  PROVE  a * b \in Nat
OBVIOUS

LEMMA ProductPositive ==
  ASSUME NEW a \in Nat \ {0}, NEW b \in Nat \ {0}
  PROVE  a * b \in Nat \ {0}
<1>1. b >= 1 /\ a * b \in Int
  OBVIOUS
<1>2. b * a >= a
  BY <1>1, MultipleAtLeast
<1> QED BY <1>1, <1>2

LEMMA ProductOrder ==
  ASSUME NEW a \in Int, NEW b \in Int, NEW n \in Nat, a <= b
  PROVE  a * n <= b * n
<1>1. PICK d \in Nat : b = a + d
  <2>1. b - a \in Nat /\ b = a + (b - a)
    OBVIOUS
  <2> QED BY <2>1
<1>2. (a + d) * n = a * n + d * n /\ a * n \in Int
  OBVIOUS
<1>3. d * n \in Nat
  BY ProductNat
<1> QED BY <1>1, <1>2, <1>3

(* What is at least q times n holds n at least q times.                    *)
LEMMA DivAtLeast ==
  ASSUME NEW n \in Nat \ {0}, NEW x \in Int, NEW q \in Int, q * n <= x
  PROVE  q <= x \div n
<1>1. PICK t \in Int : t = x \div n
  BY DivMod
<1>2. x = t * n + (x % n) /\ x % n \in 0 .. n - 1 /\ t * n \in Int /\ q * n \in Int
  BY <1>1, DivMod
<1>3. (q - t) * n = q * n - t * n /\ q - t \in Int
  BY <1>1
<1>4. ~(q - t >= 1)
  BY <1>2, <1>3, MultipleAtLeast
<1> QED BY <1>1, <1>3, <1>4

LEMMA DivNat ==
  ASSUME NEW n \in Nat \ {0}, NEW x \in Nat
  PROVE  x \div n \in Nat
<1>1. 0 * n = 0
  OBVIOUS
<1> QED BY <1>1, DivAtLeast, DivMod

(* A number of two digits, the lower one of base n, the higher one of base *)
(* d, loses what is carried out of the higher one.                         *)
LEMMA CarryMod ==
  ASSUME NEW n \in Nat \ {0}, NEW d \in Nat \ {0}, NEW s \in Nat, NEW r \in 0 .. n - 1
  PROVE  (s * n + r) % (d * n) = (s % d) * n + r
<1>1. PICK q \in Int, t \in 0 .. d - 1 : s = q * d + t /\ t = s % d
  <2>1. /\ s \div d \in Int /\ s % d \in 0 .. d - 1
        /\ s = (s \div d) * d + (s % d)
    BY DivMod
  <2> QED BY <2>1
<1>2. d * n \in Nat \ {0} /\ t * n \in Nat /\ q * (d * n) \in Int
  BY ProductPositive, ProductNat
<1>3. t * n <= (d - 1) * n /\ (d - 1) * n = d * n - n
  BY ProductOrder
<1>4. t * n + r \in 0 .. (d * n) - 1
  BY <1>2, <1>3
<1>5. s * n + r = q * (d * n) + (t * n + r)
  <2>1. (q * d + t) * n = (q * d) * n + t * n /\ (q * d) * n = q * (d * n)
    OBVIOUS
  <2> QED BY <1>1, <1>2, <2>1
<1>6. (q * (d * n) + (t * n + r)) % (d * n) = t * n + r
  BY ONLY <1>2, <1>4, ModOfMultiple
<1> QED BY <1>1, <1>5, <1>6

(* Dividing by a product is dividing twice.                                *)
LEMMA DivTwice ==
  ASSUME NEW n \in Nat \ {0}, NEW d \in Nat \ {0}, NEW x \in Nat
  PROVE  x \div (d * n) = (x \div n) \div d
<1>1. PICK s \in Nat, r \in 0 .. n - 1 : x = s * n + r /\ s = x \div n
  BY DivMod, DivNat
<1>2. PICK q \in Int, t \in 0 .. d - 1 : s = q * d + t /\ q = s \div d
  BY DivMod
<1>3. d * n \in Nat \ {0} /\ t * n \in Nat /\ q * (d * n) \in Int
  BY ProductPositive, ProductNat
<1>4. t * n <= (d - 1) * n /\ (d - 1) * n = d * n - n
  BY ProductOrder
<1>5. t * n + r \in 0 .. (d * n) - 1
  BY <1>3, <1>4
<1>6. x = q * (d * n) + (t * n + r)
  <2>1. (q * d + t) * n = (q * d) * n + t * n /\ (q * d) * n = q * (d * n)
    OBVIOUS
  <2>2. s * n = q * (d * n) + t * n
    BY <1>2, <2>1
  <2> QED BY <1>1, <1>3, <2>2
<1>7. (q * (d * n) + (t * n + r)) \div (d * n) = q
  BY ONLY <1>3, <1>5, ModOfMultiple
<1> QED BY <1>1, <1>2, <1>6, <1>7

(* Whole multiples go through a division.                                  *)
LEMMA DivAdd ==
  ASSUME NEW n \in Nat \ {0}, NEW q \in Int, NEW y \in Int
  PROVE  (q * n + y) \div n = q + (y \div n)
<1>1. PICK t \in Int, r \in 0 .. n - 1 : y = t * n + r /\ t = y \div n
  BY DivMod
<1>2. (q + t) * n = q * n + t * n /\ q + t \in Int
  OBVIOUS
<1>3. ((q + t) * n + r) \div n = q + t
  BY ONLY <1>2, ModOfMultiple, r \in 0 .. n - 1, n \in Nat \ {0}
<1>4. q * n \in Int /\ t * n \in Int
  OBVIOUS
<1>5. q * n + y = (q + t) * n + r
  BY <1>1, <1>2, <1>4
<1> QED BY <1>1, <1>3, <1>5

(* The two digits of a number.                                             *)
LEMMA DigitsOf ==
  ASSUME NEW n \in Nat \ {0}, NEW x \in Nat
  PROVE  \E q \in Nat, r \in 0 .. n - 1 : x = q * n + r /\ q = x \div n /\ r = x % n
<1>1. x \div n \in Nat
  BY DivNat
<1>2. x % n \in 0 .. n - 1 /\ x = (x \div n) * n + (x % n)
  BY DivMod
<1> QED BY <1>1, <1>2

(* The same with the lower digit bounded by a number, not by its set.      *)
LEMMA DigitsBelow ==
  ASSUME NEW n \in Nat \ {0}, NEW x \in Nat
  PROVE  \E q \in Nat, s \in Nat : x = q * n + s /\ s < n
<1>1. PICK q \in Nat, r \in 0 .. n - 1 : x = q * n + r /\ q = x \div n /\ r = x % n
  BY DigitsOf
<1>2. r \in Nat /\ x = q * n + r /\ r < n
  BY ONLY <1>1, SMT, n \in Nat \ {0}
<1> QED BY ONLY <1>2, q \in Nat, SMT

-----------------------------------------------------------------------------
(* Induction, for sets: what holds of 0 and, with a number, of the next    *)
(* one holds up to n.  A map of a finite set into itself that is one to    *)
(* one reaches every element; the successor does not reach 0.              *)
LEMMA UpTo ==
  ASSUME NEW n \in Nat, NEW S, 0 \in S, \A m \in 0 .. n - 1 : m \in S => m + 1 \in S
  PROVE  \A m \in 0 .. n : m \in S
<1> SUFFICES ASSUME NEW m \in 0 .. n, m \notin S PROVE FALSE
  OBVIOUS
<1> DEFINE B == {l \in 0 .. m : l \in S}
           f == [l \in B |-> l + 1]
<1>1. \A l \in B : l + 1 \in B
  <2> SUFFICES ASSUME NEW l \in B PROVE l + 1 \in B
    OBVIOUS
  <2>1. l \in 0 .. m /\ l # m /\ l \in S
    OBVIOUS
  <2> QED BY <2>1
<1>2. IsFiniteSet(B)
  <2>1. IsFiniteSet(0 .. m)
    BY FS_Interval
  <2>2. B \in SUBSET (0 .. m)
    OBVIOUS
  <2> QED BY <2>1, <2>2, FS_Subset
<1>3. f \in Injection(B, B)
  <2>1. f \in [B -> B]
    BY <1>1
  <2>2. \A a, b \in B : f[a] = f[b] => a = b
    OBVIOUS
  <2> QED BY <2>1, <2>2, Fun_IsInj
<1>4. f \in Surjection(B, B)
  BY <1>2, <1>3, FS_Injection
<1>5. PICK l \in B : f[l] = 0
  <2>1. 0 \in B
    OBVIOUS
  <2> QED BY <2>1, <1>4, Fun_SurjectionProperties
<1> QED BY <1>5
=============================================================================
