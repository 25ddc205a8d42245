----------------------------- MODULE Tlsf_proofs -----------------------------
(***************************************************************************)
(* The operations of Tlsf keep one invariant, and what the runs check      *)
(* follows from it: boundary tags, merging, the free lists, the search,    *)
(* and that threads share the pool like an abstract heap. The invariant    *)
(* says that the pool is sound, that every busy block has an owner and     *)
(* that no two threads move the same block. In the middle of an operation  *)
(* a pool is sound but for the headers X that have not been told what is   *)
(* before them and the blocks Y that are in hand.                          *)
(*                                                                         *)
(* First the arithmetic of granules and powers of two, the classes of      *)
(* lengths and what a search in them finds, the lists of the classes and   *)
(* the headers that tile the pool; then the operations; then the theorems. *)
(***************************************************************************)
EXTENDS Tlsf, FiniteSetTheorems, NaturalsInduction, TLAPS

-----------------------------------------------------------------------------
(* Powers of two.  2 ^ (n + 1) is the number of subsets of 1 .. n + 1.     *)
LEMMA PowNat == ASSUME NEW n \in Nat PROVE 2 ^ n \in Nat \ {0}
<1>1. IsFiniteSet(1 .. n) /\ Cardinality(1 .. n) = n
  BY FS_Interval
<1>2. IsFiniteSet(SUBSET (1 .. n)) /\ Cardinality(SUBSET (1 .. n)) = 2 ^ n
  BY <1>1, FS_SUBSET
<1>3. SUBSET (1 .. n) # {}
  OBVIOUS
<1> QED
  BY <1>2, <1>3, FS_CardinalityType, FS_EmptySet

(* A set of n + 1 elements has twice as many parts as one of n.            *)
LEMMA PowDouble == ASSUME NEW n \in Nat PROVE 2 ^ (n + 1) = 2 * 2 ^ n
<1> DEFINE S == SUBSET (1 .. n)
           T == {s \cup {n + 1} : s \in S}
<1>1. IsFiniteSet(1 .. n) /\ Cardinality(1 .. n) = n
      /\ IsFiniteSet(1 .. n + 1) /\ Cardinality(1 .. n + 1) = n + 1
  BY FS_Interval
<1>2. IsFiniteSet(S) /\ Cardinality(S) = 2 ^ n
  BY <1>1, FS_SUBSET
<1>3. Cardinality(SUBSET (1 .. n + 1)) = 2 ^ (n + 1)
  BY <1>1, FS_SUBSET
<1>4. SUBSET (1 .. n + 1) = S \cup T
  <2>1. ASSUME NEW x \in SUBSET (1 .. n + 1)
        PROVE  x \in S \cup T
    <3>1. CASE n + 1 \in x
      <4>1. x \ {n + 1} \in S
        OBVIOUS
      <4>2. x = (x \ {n + 1}) \cup {n + 1}
        BY <3>1
      <4> QED BY <4>1, <4>2
    <3>2. CASE n + 1 \notin x
      <4>1. x \in S
        BY <3>2
      <4> QED BY <4>1
    <3> QED BY <3>1, <3>2
  <2>2. ASSUME NEW x \in S PROVE x \in SUBSET (1 .. n + 1)
    OBVIOUS
  <2>3. ASSUME NEW x \in T PROVE x \in SUBSET (1 .. n + 1)
    <3>1. PICK s \in S : x = s \cup {n + 1}
      OBVIOUS
    <3>2. n + 1 \in 1 .. n + 1 /\ s \subseteq 1 .. n + 1
      OBVIOUS
    <3> QED BY <3>1, <3>2
  <2> HIDE DEF S, T
  <2> QED BY <2>1, <2>2, <2>3
<1>5. \A s \in S : n + 1 \notin s
  OBVIOUS
<1>6. S \cap T = {}
  BY <1>5
<1>7. ExistsBijection(S, T)
  <2> DEFINE f == [s \in S |-> s \cup {n + 1}]
  <2>1. f \in [S -> T]
    OBVIOUS
  <2>2. \A s, t \in S : f[s] = f[t] => s = t
    <3> SUFFICES ASSUME NEW s \in S, NEW t \in S, f[s] = f[t] PROVE s = t
      OBVIOUS
    <3>1. s \cup {n + 1} = t \cup {n + 1}
      OBVIOUS
    <3>2. \A x \in s : x \in t
      BY <1>5, <3>1
    <3>3. \A x \in t : x \in s
      BY <1>5, <3>1
    <3> QED BY <3>2, <3>3
  <2>3. \A t \in T : \E s \in S : f[s] = t
    OBVIOUS
  <2> HIDE DEF f, S, T
  <2>4. f \in Bijection(S, T)
    BY <2>1, <2>2, <2>3 DEF Bijection, Injection, Surjection, IsInjective
  <2> QED BY <2>4 DEF ExistsBijection
<1> HIDE DEF S, T
<1>8. IsFiniteSet(T) /\ Cardinality(T) = 2 ^ n
  BY <1>2, <1>7, FS_Bijection
<1>9. Cardinality(S \cup T) = Cardinality(S) + Cardinality(T)
  BY <1>2, <1>6, <1>8, FS_Union, FS_EmptySet, PowNat
<1>10. PICK p : p = 2 ^ n
  OBVIOUS
<1>11. p \in Nat /\ Cardinality(S \cup T) = p + p
  BY <1>2, <1>8, <1>9, <1>10, PowNat
<1>12. p + p = 2 * p
  BY <1>11
<1> QED
  BY <1>3, <1>4, <1>10, <1>11, <1>12

(* The least number of a set: what stands here for induction.              *)
LEMMA HasSmallest ==
  ASSUME NEW S \in SUBSET Nat, S # {}
  PROVE  \E m \in S : \A k \in S : m <= k
<1> DEFINE R == OpToRel(<, Nat)
<1>1. IsWellFoundedOn(R, Nat)
  BY NatLessThanWellFounded
<1>2. PICK m \in S : \A y \in S : ~(<<y, m>> \in R)
  BY <1>1, WFMin
<1>3. \A k \in S : ~(k < m)
  BY <1>2 DEF OpToRel
<1> QED
  BY <1>3

(* The first two powers.                                                   *)
LEMMA PowZero == 2 ^ 0 = 1 /\ 2 ^ 1 = 2
  OBVIOUS

(* A power of two exceeds its exponent, by least counterexample.           *)
LEMMA PowAbove == \A n \in Nat : n < 2 ^ n
<1> DEFINE Bad == {n \in Nat : ~(n < 2 ^ n)}
<1> SUFFICES ASSUME Bad # {} PROVE FALSE
  OBVIOUS
<1>1. PICK n \in Bad : \A k \in Bad : n <= k
  BY HasSmallest
<1>2. n \in Nat /\ ~(n < 2 ^ n)
  OBVIOUS
<1>3. n # 0
  <2> SUFFICES ASSUME n = 0 PROVE FALSE
    OBVIOUS
  <2>1. 2 ^ n = 1
    BY PowZero
  <2> QED
    BY <1>2, <2>1
<1>4. n - 1 \in Nat /\ n - 1 \notin Bad
  BY <1>1, <1>2, <1>3
<1>5. n - 1 < 2 ^ (n - 1)
  BY <1>4
<1>6. 2 ^ (n - 1 + 1) = 2 * 2 ^ (n - 1)
  BY <1>4, PowDouble
<1>7. PICK p : p = 2 ^ (n - 1)
  OBVIOUS
<1>8. p \in Nat \ {0} /\ n - 1 < p
  BY <1>4, <1>5, <1>7, PowNat
<1>9. n - 1 + 1 = n
  BY <1>2
<1>10. 2 ^ n = 2 * p
  BY <1>6, <1>7, <1>9
<1> QED
  BY <1>2, <1>8, <1>10

(* Powers multiply where exponents add, by least counterexample.           *)
LEMMA PowAdd ==
  ASSUME NEW m \in Nat
  PROVE  \A n \in Nat : 2 ^ (m + n) = 2 ^ m * 2 ^ n
<1> DEFINE Bad == {n \in Nat : 2 ^ (m + n) # 2 ^ m * 2 ^ n}
<1> SUFFICES ASSUME Bad # {} PROVE FALSE
  OBVIOUS
<1>1. PICK n \in Bad : \A k \in Bad : n <= k
  BY HasSmallest
<1>2. n \in Nat /\ 2 ^ (m + n) # 2 ^ m * 2 ^ n
  OBVIOUS
<1>3. PICK a : a = 2 ^ m
  OBVIOUS
<1>4. a \in Nat
  BY <1>3, PowNat
<1>5. n # 0
  <2> SUFFICES ASSUME n = 0 PROVE FALSE
    OBVIOUS
  <2>1. m + n = m
    BY <1>2
  <2>2. 2 ^ n = 1
    BY PowZero
  <2>3. 2 ^ (m + n) = a /\ 2 ^ m * 2 ^ n = a * 1
    BY <1>3, <2>1, <2>2
  <2> QED
    BY <1>2, <1>4, <2>3
<1>6. PICK k : k = n - 1
  OBVIOUS
<1>7. k \in Nat /\ k \notin Bad /\ k + 1 = n /\ m + k \in Nat /\ m + k + 1 = m + n
  BY <1>1, <1>2, <1>5, <1>6
<1>8. 2 ^ (m + k) = a * 2 ^ k
  BY <1>3, <1>7
<1>9. 2 ^ (m + n) = 2 * 2 ^ (m + k) /\ 2 ^ n = 2 * 2 ^ k
  BY <1>7, PowDouble
<1>10. PICK b : b = 2 ^ k
  OBVIOUS
<1>11. b \in Nat
  BY <1>7, <1>10, PowNat
<1>12. 2 * (a * b) = a * (2 * b)
  BY <1>4, <1>11
<1> QED
  BY <1>2, <1>3, <1>8, <1>9, <1>10, <1>12

(* Powers grow with the exponent.                                          *)
LEMMA PowMono ==
  ASSUME NEW m \in Nat, NEW n \in Nat, m <= n
  PROVE  2 ^ m <= 2 ^ n
<1>1. n - m \in Nat /\ m + (n - m) = n
  OBVIOUS
<1>2. 2 ^ n = 2 ^ m * 2 ^ (n - m)
  BY <1>1, PowAdd
<1>3. PICK a, b : a = 2 ^ m /\ b = 2 ^ (n - m)
  OBVIOUS
<1>4. a \in Nat /\ b \in Nat \ {0}
  BY <1>1, <1>3, PowNat
<1>5. a <= a * b
  BY <1>4
<1> QED
  BY <1>2, <1>3, <1>5

(* MS: the number of the highest bit.                                      *)
LEMMA HighestBit ==
  ASSUME NEW r \in Nat \ {0}
  PROVE  MS(r) \in Nat /\ 2 ^ MS(r) <= r /\ r < 2 ^ (MS(r) + 1)
<1> DEFINE S == {k \in Nat : r < 2 ^ (k + 1)}
<1>1. r \in S
  <2>1. r + 1 \in Nat /\ r < r + 1
    OBVIOUS
  <2>2. r + 1 < 2 ^ (r + 1)
    BY <2>1, PowAbove
  <2>3. 2 ^ (r + 1) \in Nat
    BY <2>1, PowNat
  <2> QED
    BY <2>1, <2>2, <2>3
<1>2. PICK m \in S : \A k \in S : m <= k
  BY <1>1, HasSmallest
<1>3. m \in Nat /\ r < 2 ^ (m + 1)
  OBVIOUS
<1>4. 2 ^ m <= r
  <2>1. CASE m = 0
    BY <2>1, PowZero
  <2>2. CASE m # 0
    <3>1. m - 1 \in Nat /\ m - 1 \notin S /\ m - 1 + 1 = m
      BY <1>2, <1>3, <2>2
    <3>2. ~(r < 2 ^ m)
      BY <3>1
    <3>3. 2 ^ m \in Nat
      BY <1>3, PowNat
    <3> QED
      BY <3>2, <3>3
  <2> QED
    BY <2>1, <2>2
<1>5. m \in 0 .. r
  <2>1. m < 2 ^ m /\ 2 ^ m \in Nat
    BY <1>3, PowAbove, PowNat
  <2> QED
    BY <1>3, <1>4, <2>1
<1>6. \E k \in 0 .. r : 2 ^ k <= r /\ r < 2 ^ (k + 1)
  BY <1>3, <1>4, <1>5
<1>7. MS(r) \in 0 .. r /\ 2 ^ MS(r) <= r /\ r < 2 ^ (MS(r) + 1)
  BY <1>6 DEF MS
<1> QED
  BY <1>7

(* Numbers of the highest bit grow with the number.                        *)
LEMMA HighestBitBounds ==
  ASSUME NEW r \in Nat \ {0}, NEW k \in Nat
  PROVE  /\ MS(r) >= k <=> r >= 2 ^ k
         /\ MS(r) < k <=> r < 2 ^ k
<1>1. MS(r) \in Nat /\ 2 ^ MS(r) <= r /\ r < 2 ^ (MS(r) + 1)
  BY HighestBit
<1>2. 2 ^ k \in Nat /\ 2 ^ MS(r) \in Nat /\ 2 ^ (MS(r) + 1) \in Nat
  BY <1>1, PowNat
<1>3. CASE MS(r) >= k
  <2>1. 2 ^ k <= 2 ^ MS(r)
    BY <1>1, <1>3, PowMono
  <2> QED
    BY <1>1, <1>2, <1>3, <2>1
<1>4. CASE MS(r) < k
  <2>1. 2 ^ (MS(r) + 1) <= 2 ^ k
    <3>1. MS(r) + 1 <= k /\ MS(r) + 1 \in Nat
      BY <1>1, <1>4
    <3> QED
      BY <3>1, PowMono
  <2> QED
    BY <1>1, <1>2, <1>4, <2>1
<1> QED
  BY <1>1, <1>3, <1>4

-----------------------------------------------------------------------------
(* The constants, and multiples of the granularity.                        *)

(* What TlsfAssumption says of each constant.                              *)
LEMMA Settings ==
  /\ SIZE_ALIGN \in Nat \ {0} /\ MAX_LOG2_SLI \in Nat /\ FLI_OFFSET \in Nat
  /\ REAL_FLI \in Nat \ {0} /\ PoolSize \in Nat /\ PoolSize > 4 * SIZE_ALIGN
  /\ PoolSize % SIZE_ALIGN = 0 /\ PoolSize < 2 ^ (REAL_FLI + FLI_OFFSET)
  /\ Request \subseteq Nat \ {0} /\ Alignment \subseteq Nat \ {0} /\ Null \notin Nat
  /\ \E k \in Nat : SIZE_ALIGN = 2 ^ k
<1>1. PICK k \in 0 .. SIZE_ALIGN : SIZE_ALIGN = 2 ^ k
  BY TlsfAssumption DEF TlsfAssumption
<1>2. SIZE_ALIGN \in Nat
  BY TlsfAssumption DEF TlsfAssumption
<1>3. k \in Nat
  BY <1>2
<1>4. SIZE_ALIGN \in Nat \ {0}
  BY <1>1, <1>3, PowNat
<1>5. /\ MAX_LOG2_SLI \in Nat /\ FLI_OFFSET \in Nat
      /\ REAL_FLI \in Nat \ {0} /\ PoolSize \in Nat /\ PoolSize > 4 * SIZE_ALIGN
      /\ PoolSize % SIZE_ALIGN = 0 /\ PoolSize < 2 ^ (REAL_FLI + FLI_OFFSET)
      /\ Request \subseteq Nat \ {0} /\ Alignment \subseteq Nat \ {0} /\ Null \notin Nat
  BY TlsfAssumption DEF TlsfAssumption
<1> QED
  BY <1>1, <1>3, <1>4, <1>5

(* A quotient reaches c exactly when the dividend reaches c divisors.      *)
LEMMA DivAtLeast ==
  ASSUME NEW x \in Nat, NEW n \in Nat \ {0}, NEW c \in Nat
  PROVE  x \div n \in Nat /\ (x \div n >= c <=> x >= c * n)
<1>1. PICK q, m : q = x \div n /\ m = x % n
  OBVIOUS
<1>2. q \in Nat /\ m \in 0 .. n - 1 /\ x = q * n + m
  BY <1>1, SMT
<1>3. CASE q >= c
  <2>1. q * n >= c * n
    BY <1>2, <1>3
  <2> QED
    BY <1>1, <1>2, <1>3, <2>1
<1>4. CASE q < c
  <2>1. q + 1 <= c
    BY <1>2, <1>4
  <2>2. (q + 1) * n <= c * n
    BY <1>2, <2>1
  <2>3. (q + 1) * n = q * n + n
    BY <1>2
  <2>4. PICK a, b : a = q * n /\ b = c * n
    OBVIOUS
  <2>5. a \in Nat /\ b \in Nat /\ a + n <= b /\ x = a + m
    BY <1>2, <2>2, <2>3, <2>4
  <2>6. x < b
    BY <1>2, <2>5
  <2> QED
    BY <1>1, <1>2, <1>4, <2>4, <2>5, <2>6
<1> QED
  BY <1>2, <1>3, <1>4

(* Division followed by multiplication rounds down.                        *)
LEMMA DivRound ==
  ASSUME NEW x \in Nat, NEW n \in Nat \ {0}
  PROVE  /\ x \div n \in Nat /\ x % n \in 0 .. n - 1
         /\ (x \div n) * n = x - (x % n) /\ (x \div n) * n \in Nat
<1>1. PICK q, m : q = x \div n /\ m = x % n
  OBVIOUS
<1>2. q \in Nat /\ m \in 0 .. n - 1 /\ x = q * n + m
  BY <1>1, SMT
<1>3. PICK a : a = q * n
  OBVIOUS
<1>4. a \in Nat /\ a = x - m
  BY <1>2, <1>3
<1>5. (x \div n) * n = a
  BY <1>1, <1>3
<1>6. x \div n \in Nat
  BY <1>1, <1>2, Zenon
<1>7. x % n \in 0 .. n - 1
  BY <1>1, <1>2, Zenon
<1>8. (x \div n) * n = x - (x % n)
  BY <1>1, <1>4, <1>5, Zenon
<1>9. (x \div n) * n \in Nat
  BY <1>4, <1>5, Zenon
<1> QED
  BY <1>6, <1>7, <1>8, <1>9, Zenon

Grain == {k * SIZE_ALIGN : k \in Nat}

(* Multiples of the granularity are multiples of it.                       *)
LEMMA GrainTimes == \A k \in Nat : k * SIZE_ALIGN \in Grain
  BY DEF Grain

(* The remainder tells the multiples of the granularity.                   *)
LEMMA GrainIff ==
  ASSUME NEW x \in Nat
  PROVE  x \in Grain <=> x % SIZE_ALIGN = 0
<1>1. SIZE_ALIGN \in Nat \ {0}
  BY Settings
<1>2. ASSUME x \in Grain PROVE x % SIZE_ALIGN = 0
  <2>1. PICK k \in Nat : x = k * SIZE_ALIGN
    BY <1>2 DEF Grain
  <2>2. (k * SIZE_ALIGN) % SIZE_ALIGN = 0
    BY <1>1, SMT
  <2> QED
    BY <2>1, <2>2
<1>3. ASSUME x % SIZE_ALIGN = 0 PROVE x \in Grain
  <2>1. x \div SIZE_ALIGN \in Nat /\ (x \div SIZE_ALIGN) * SIZE_ALIGN = x
    BY <1>1, <1>3, DivRound
  <2> QED
    BY <2>1 DEF Grain
<1> QED
  BY <1>2, <1>3

(* Multiples are numbers; zero and the granularity are two of them.        *)
LEMMA GrainNat == Grain \subseteq Nat /\ 0 \in Grain /\ SIZE_ALIGN \in Grain
<1>1. SIZE_ALIGN \in Nat
  BY Settings
<1>2. \A k \in Nat : k * SIZE_ALIGN \in Nat
  BY <1>1
<1>3. 0 = 0 * SIZE_ALIGN /\ SIZE_ALIGN = 1 * SIZE_ALIGN
  BY <1>1
<1> QED
  BY <1>2, <1>3 DEF Grain

(* The sum of two multiples is one.                                        *)
LEMMA GrainAdd ==
  ASSUME NEW x \in Grain, NEW y \in Grain
  PROVE  x + y \in Grain
<1>1. PICK i \in Nat, j \in Nat : x = i * SIZE_ALIGN /\ y = j * SIZE_ALIGN
  BY DEF Grain
<1>2. (i + j) * SIZE_ALIGN = i * SIZE_ALIGN + j * SIZE_ALIGN /\ i + j \in Nat
  BY Settings
<1> QED
  BY <1>1, <1>2 DEF Grain

(* Different multiples are a header apart: no gap is too small for one.    *)
LEMMA GrainLess ==
  ASSUME NEW x \in Grain, NEW y \in Grain, x < y
  PROVE  x + SIZE_ALIGN <= y
<1>1. PICK i \in Nat, j \in Nat : x = i * SIZE_ALIGN /\ y = j * SIZE_ALIGN
  BY DEF Grain
<1>2. i < j
  <2> SUFFICES ASSUME j <= i PROVE FALSE
    OBVIOUS
  <2>1. j * SIZE_ALIGN <= i * SIZE_ALIGN
    BY Settings
  <2>2. x \in Nat /\ y \in Nat
    BY GrainNat
  <2> QED
    BY <1>1, <2>1, <2>2
<1>3. i + 1 <= j
  BY <1>2
<1>4. (i + 1) * SIZE_ALIGN <= j * SIZE_ALIGN
  BY <1>3, Settings
<1>5. (i + 1) * SIZE_ALIGN = i * SIZE_ALIGN + SIZE_ALIGN
  BY Settings
<1> QED
  BY <1>1, <1>4, <1>5

(* The difference of two multiples is one.                                 *)
LEMMA GrainSub ==
  ASSUME NEW x \in Grain, NEW y \in Grain, y <= x
  PROVE  x - y \in Grain
<1>1. PICK i \in Nat, j \in Nat : x = i * SIZE_ALIGN /\ y = j * SIZE_ALIGN
  BY DEF Grain
<1>2. CASE x = y
  <2>1. x - y = 0
    BY <1>2, GrainNat
  <2> QED
    BY <2>1, GrainNat
<1>3. CASE x # y
  <2>1. j <= i
    <3> SUFFICES ASSUME i < j PROVE FALSE
      OBVIOUS
    <3>1. i * SIZE_ALIGN <= j * SIZE_ALIGN
      BY Settings
    <3> QED
      BY <1>1, <1>3, <3>1, GrainNat
  <2>2. (i - j) * SIZE_ALIGN = i * SIZE_ALIGN - j * SIZE_ALIGN /\ i - j \in Nat
    BY <2>1, Settings
  <2> QED
    BY <1>1, <2>2 DEF Grain
<1> QED
  BY <1>2, <1>3

(* ROUNDUP gives a multiple, and at least what was asked for.              *)
LEMMA RoundUp ==
  ASSUME NEW n \in Nat \ {0}
  PROVE  ROUNDUP(n) \in Grain /\ ROUNDUP(n) >= n /\ ROUNDUP(n) \in Nat \ {0}
<1> DEFINE x == n + SIZE_ALIGN - 1
<1>1. x \in Nat /\ SIZE_ALIGN \in Nat \ {0}
  BY Settings
<1>2. PICK q : q = x \div SIZE_ALIGN
  OBVIOUS
<1>3. PICK m : m = x % SIZE_ALIGN
  OBVIOUS
<1> HIDE DEF x
<1>4. q \in Nat /\ m \in 0 .. SIZE_ALIGN - 1 /\ q * SIZE_ALIGN = x - m
  BY <1>1, <1>2, <1>3, DivRound
<1>5. ROUNDUP(n) = q * SIZE_ALIGN
  BY <1>2 DEF ROUNDUP, x
<1>6. ROUNDUP(n) = x - m /\ x = n + SIZE_ALIGN - 1
  BY <1>4, <1>5 DEF x
<1> QED
  BY <1>1, <1>4, <1>5, <1>6, GrainTimes

-----------------------------------------------------------------------------
(***************************************************************************)
(* The classes.  A class holds an interval of lengths, classes are in the  *)
(* order of what they hold, and MAPPING_SEARCH gives the first class that  *)
(* holds only lengths as long as wanted.                                   *)
(***************************************************************************)

Width == SMALL_BLOCK \div MAX_SLI

(* The distance of the classes of one first level.                         *)
StepOf(k) == 2 ^ (k - MAX_LOG2_SLI)

(* The small blocks fill the second level of class 0 exactly.              *)
LEMMA ClassConstants ==
  /\ MAX_SLI \in Nat \ {0} /\ SMALL_BLOCK = 2 ^ (FLI_OFFSET + 1)
  /\ Width \in Nat \ {0} /\ Width <= SIZE_ALIGN
  /\ MAX_LOG2_SLI <= FLI_OFFSET + 1 /\ SMALL_BLOCK = MAX_SLI * Width
<1>1. MAX_SLI \in Nat \ {0} /\ 2 ^ FLI_OFFSET \in Nat \ {0}
  BY PowNat, Settings DEF MAX_SLI
<1>2. SMALL_BLOCK = 2 ^ (FLI_OFFSET + 1)
  BY PowDouble, Settings DEF SMALL_BLOCK
<1>3. SMALL_BLOCK \in Nat \ {0}
  BY <1>1 DEF SMALL_BLOCK
<1>4. Width \in Nat \ {0} /\ Width <= SIZE_ALIGN
  BY TlsfAssumption, Settings DEF TlsfAssumption, Width
<1>5. MAX_LOG2_SLI <= FLI_OFFSET + 1
  <2> SUFFICES ASSUME FLI_OFFSET + 1 < MAX_LOG2_SLI PROVE FALSE
    BY Settings
  <2>1. FLI_OFFSET + 1 + 1 <= MAX_LOG2_SLI /\ FLI_OFFSET + 1 \in Nat /\ FLI_OFFSET + 1 + 1 \in Nat
    BY Settings
  <2>2. 2 ^ (FLI_OFFSET + 1 + 1) <= MAX_SLI
    BY <2>1, PowMono, Settings DEF MAX_SLI
  <2>3. 2 ^ (FLI_OFFSET + 1 + 1) = 2 * SMALL_BLOCK
    BY <1>2, <2>1, PowDouble
  <2>4. ~(SMALL_BLOCK >= 1 * MAX_SLI)
    BY <1>1, <1>3, <2>2, <2>3
  <2>5. ~(SMALL_BLOCK \div MAX_SLI >= 1)
    BY <1>1, <1>3, <2>4, DivAtLeast
  <2> QED
    BY <1>4, <2>5 DEF Width
<1>6. SMALL_BLOCK = MAX_SLI * Width
  <2>1. PICK d : d = FLI_OFFSET + 1 - MAX_LOG2_SLI
    OBVIOUS
  <2>2. d \in Nat /\ MAX_LOG2_SLI + d = FLI_OFFSET + 1
    BY <1>5, <2>1, Settings
  <2>3. SMALL_BLOCK = MAX_SLI * 2 ^ d
    <3>1. 2 ^ (MAX_LOG2_SLI + d) = 2 ^ MAX_LOG2_SLI * 2 ^ d
      BY <2>2, PowAdd, Settings
    <3> QED
      BY <1>2, <2>2, <3>1 DEF MAX_SLI
  <2>4. PICK p : p = 2 ^ d
    OBVIOUS
  <2>5. p \in Nat /\ SMALL_BLOCK = p * MAX_SLI /\ SMALL_BLOCK = MAX_SLI * p
    BY <1>1, <2>2, <2>3, <2>4, PowNat
  <2>6. SMALL_BLOCK \div MAX_SLI >= p
    BY <1>1, <1>3, <2>5, DivAtLeast
  <2>7. ~(SMALL_BLOCK >= (p + 1) * MAX_SLI)
    <3>1. (p + 1) * MAX_SLI = p * MAX_SLI + MAX_SLI
      BY <1>1, <2>5
    <3> QED
      BY <1>1, <1>3, <2>5, <3>1
  <2>8. ~(SMALL_BLOCK \div MAX_SLI >= p + 1)
    BY <1>1, <1>3, <2>5, <2>7, DivAtLeast
  <2>9. Width = p
    BY <1>4, <2>5, <2>6, <2>8 DEF Width
  <2> QED
    BY <2>5, <2>9
<1> QED
  BY <1>1, <1>2, <1>4, <1>5, <1>6

(* The lengths of first level k: from MAX_SLI steps to twice as many.      *)
LEMMA LevelSteps ==
  ASSUME NEW k \in Nat, k >= MAX_LOG2_SLI
  PROVE  /\ StepOf(k) \in Nat \ {0} /\ 2 ^ k = MAX_SLI * StepOf(k)
         /\ 2 ^ (k + 1) = (2 * MAX_SLI) * StepOf(k)
         /\ 2 ^ k \in Nat /\ 2 ^ (k + 1) \in Nat
<1>1. PICK d : d = k - MAX_LOG2_SLI
  OBVIOUS
<1>2. d \in Nat /\ MAX_LOG2_SLI + d = k
  BY <1>1, Settings
<1>3. StepOf(k) = 2 ^ d /\ 2 ^ d \in Nat \ {0}
  BY <1>1, <1>2, PowNat DEF StepOf
<1>4. 2 ^ k = MAX_SLI * StepOf(k)
  <2>1. 2 ^ (MAX_LOG2_SLI + d) = 2 ^ MAX_LOG2_SLI * 2 ^ d
    BY <1>2, PowAdd, Settings
  <2> QED
    BY <1>2, <1>3, <2>1 DEF MAX_SLI
<1>5. 2 ^ (k + 1) = 2 * 2 ^ k
  BY PowDouble
<1>6. PICK p, m : p = StepOf(k) /\ m = MAX_SLI
  OBVIOUS
<1>7. p \in Nat \ {0} /\ m \in Nat
  BY <1>3, <1>6, ClassConstants
<1>8. 2 * (m * p) = (2 * m) * p
  BY <1>7
<1>9. 2 ^ (k + 1) = (2 * m) * p
  BY <1>4, <1>5, <1>6, <1>8
<1> QED
  BY <1>3, <1>4, <1>6, <1>9, PowNat

Level(r) == IF r < SMALL_BLOCK THEN 0 ELSE MS(r) - FLI_OFFSET
Second(r) == IF r < SMALL_BLOCK THEN r \div Width ELSE (r \div StepOf(MS(r))) - MAX_SLI

(* MAPPING_INSERT as its two levels.                                       *)
LEMMA ClassOf ==
  ASSUME NEW r
  PROVE  MAPPING_INSERT(r) = <<Level(r), Second(r)>>
  BY DEF MAPPING_INSERT, Level, Second, Width, StepOf

(* The highest bit of a length above the small blocks.                     *)
LEMMA BigBit ==
  ASSUME NEW r \in Nat, r >= SMALL_BLOCK
  PROVE  /\ MS(r) \in Nat /\ MS(r) >= FLI_OFFSET + 1 /\ MS(r) >= MAX_LOG2_SLI
         /\ 2 ^ MS(r) <= r /\ r < 2 ^ (MS(r) + 1) /\ r \in Nat \ {0}
<1>1. r \in Nat \ {0} /\ r >= 2 ^ (FLI_OFFSET + 1) /\ FLI_OFFSET + 1 \in Nat
  BY ClassConstants, PowNat, Settings
<1>2. MS(r) \in Nat /\ 2 ^ MS(r) <= r /\ r < 2 ^ (MS(r) + 1)
  BY <1>1, HighestBit
<1>3. MS(r) >= FLI_OFFSET + 1
  BY <1>1, HighestBitBounds
<1> QED
  BY <1>1, <1>2, <1>3, ClassConstants, Settings

(* Every length that fits a pool has a class.                              *)
LEMMA ClassInClass ==
  ASSUME NEW r \in 0 .. PoolSize
  PROVE  MAPPING_INSERT(r) \in Class
<1>1. CASE r < SMALL_BLOCK
  <2>1. r \in Nat /\ ~(r >= MAX_SLI * Width)
    BY <1>1, ClassConstants, Settings
  <2>2. r \div Width \in Nat /\ ~(r \div Width >= MAX_SLI)
    BY <2>1, ClassConstants, DivAtLeast
  <2>3. 0 \in 0 .. REAL_FLI - 1 /\ r \div Width \in 0 .. MAX_SLI - 1
    BY <2>2, ClassConstants, Settings
  <2> QED
    BY <1>1, <2>3, ClassOf DEF Class, Level, Second
<1>2. CASE r >= SMALL_BLOCK
  <2>1. PICK k : k = MS(r)
    OBVIOUS
  <2>2. /\ k \in Nat /\ k >= FLI_OFFSET + 1 /\ k >= MAX_LOG2_SLI /\ r \in Nat \ {0}
        /\ 2 ^ k <= r /\ r < 2 ^ (k + 1)
    BY <1>2, <2>1, BigBit
  <2>3. k < REAL_FLI + FLI_OFFSET
    <3>1. REAL_FLI + FLI_OFFSET \in Nat /\ 2 ^ (REAL_FLI + FLI_OFFSET) \in Nat
      BY Settings, PowNat
    <3>2. r < 2 ^ (REAL_FLI + FLI_OFFSET)
      BY <3>1, Settings
    <3> QED
      BY <2>1, <2>2, <3>1, <3>2, HighestBitBounds
  <2>4. PICK p : p = StepOf(k)
    OBVIOUS
  <2>5. p \in Nat \ {0} /\ r >= MAX_SLI * p /\ ~(r >= (2 * MAX_SLI) * p)
    BY <2>2, <2>4, LevelSteps
  <2>6. r \div p \in Nat /\ r \div p >= MAX_SLI /\ ~(r \div p >= 2 * MAX_SLI)
    BY <2>2, <2>5, ClassConstants, DivAtLeast
  <2>7. k - FLI_OFFSET \in 0 .. REAL_FLI - 1
    BY <2>2, <2>3, Settings
  <2>8. (r \div p) - MAX_SLI \in 0 .. MAX_SLI - 1
    BY <2>6, ClassConstants
  <2>9. ~(r < SMALL_BLOCK)
    BY <1>2, ClassConstants, Settings
  <2> QED
    BY <2>1, <2>4, <2>7, <2>8, <2>9, ClassOf DEF Class, Level, Second
<1> QED
  BY <1>1, <1>2, ClassConstants, Settings

AtOrAbove(d, c) == d[1] > c[1] \/ (d[1] = c[1] /\ d[2] >= c[2])

(* The least length in the class of t.                                     *)
Least(t) == IF t < SMALL_BLOCK THEN (t \div Width) * Width
            ELSE (t \div StepOf(MS(t))) * StepOf(MS(t))

(* The step of t's first level, and t in steps.                            *)
LEMMA BigSteps ==
  ASSUME NEW t \in Nat, t >= SMALL_BLOCK
  PROVE  LET p == StepOf(MS(t))
             q == t \div p
         IN  /\ p \in Nat \ {0} /\ q \in MAX_SLI .. 2 * MAX_SLI - 1
             /\ 2 ^ MS(t) <= q * p /\ q * p <= t /\ q * p \in Nat
<1>1. PICK k : k = MS(t)
  OBVIOUS
<1>2. /\ k \in Nat /\ k >= MAX_LOG2_SLI /\ 2 ^ k <= t /\ t < 2 ^ (k + 1)
  BY <1>1, BigBit
<1>3. PICK p : p = StepOf(k)
  OBVIOUS
<1>4. p \in Nat \ {0} /\ t >= MAX_SLI * p /\ ~(t >= (2 * MAX_SLI) * p) /\ 2 ^ k = MAX_SLI * p
  BY <1>2, <1>3, LevelSteps
<1>5. PICK q : q = t \div p
  OBVIOUS
<1>6. q \in Nat /\ q >= MAX_SLI /\ ~(q >= 2 * MAX_SLI)
  <2>1. PICK m : m = 2 * MAX_SLI
    OBVIOUS
  <2>2. m \in Nat /\ MAX_SLI \in Nat /\ ~(t >= m * p) /\ t >= MAX_SLI * p
    BY <1>4, <2>1, ClassConstants
  <2>3. q \in Nat /\ q >= MAX_SLI /\ ~(q >= m)
    BY <1>4, <1>5, <2>2, DivAtLeast
  <2> QED
    BY <2>1, <2>3
<1>7. MAX_SLI * p <= q * p
  BY <1>4, <1>6, ClassConstants
<1>8. t % p \in 0 .. p - 1 /\ q * p = t - (t % p) /\ q * p \in Nat
  BY <1>4, <1>5, DivRound
<1>9. q * p <= t
  <2>1. PICK a, b : a = q * p /\ b = t % p
    OBVIOUS
  <2> QED
    BY <1>4, <1>8, <2>1
<1>10. q \in MAX_SLI .. 2 * MAX_SLI - 1
  BY <1>6, ClassConstants
<1> QED
  BY <1>1, <1>3, <1>4, <1>5, <1>7, <1>8, <1>9, <1>10

(* The class of s is at or above that of t exactly if s reaches the least  *)
(* length of t's.                                                          *)
LEMMA ClassOrder ==
  ASSUME NEW s \in Nat, NEW t \in Nat
  PROVE  AtOrAbove(MAPPING_INSERT(s), MAPPING_INSERT(t)) <=> s >= Least(t)
<1>0. SMALL_BLOCK \in Nat /\ FLI_OFFSET \in Nat /\ SMALL_BLOCK = 2 ^ (FLI_OFFSET + 1)
  BY ClassConstants, PowNat, Settings
<1>1. AtOrAbove(MAPPING_INSERT(s), MAPPING_INSERT(t)) <=>
        Level(s) > Level(t) \/ (Level(s) = Level(t) /\ Second(s) >= Second(t))
  BY ClassOf DEF AtOrAbove
<1>2. CASE t < SMALL_BLOCK /\ s < SMALL_BLOCK
  <2>1. Level(s) = 0 /\ Level(t) = 0 /\ Second(s) = s \div Width /\ Second(t) = t \div Width
    BY <1>2 DEF Level, Second
  <2>2. t \div Width \in Nat /\ Least(t) = (t \div Width) * Width
    BY <1>2, ClassConstants, DivAtLeast DEF Least
  <2>3. s \div Width >= t \div Width <=> s >= (t \div Width) * Width
    BY <2>2, ClassConstants, DivAtLeast
  <2> QED
    BY <1>1, <2>1, <2>2, <2>3
<1>3. CASE t < SMALL_BLOCK /\ ~(s < SMALL_BLOCK)
  <2>1. Level(t) = 0 /\ Level(s) = MS(s) - FLI_OFFSET
    BY <1>3 DEF Level
  <2>2. Level(s) > 0
    BY <1>0, <1>3, <2>1, BigBit
  <2>3. Least(t) = t - (t % Width) /\ t % Width \in 0 .. Width - 1
    BY <1>3, ClassConstants, DivRound DEF Least
  <2>4. Least(t) <= t
    BY <2>3, ClassConstants
  <2>5. Least(t) \in Nat
    BY <1>3, ClassConstants, DivRound DEF Least
  <2>6. s >= Least(t)
    BY <1>0, <1>3, <2>4, <2>5
  <2>7. Level(s) > Level(t)
    BY <2>1, <2>2
  <2>8. AtOrAbove(MAPPING_INSERT(s), MAPPING_INSERT(t))
    BY <1>1, <2>7, Zenon
  <2> QED
    BY <2>6, <2>8, Zenon
<1>4. CASE ~(t < SMALL_BLOCK) /\ s < SMALL_BLOCK
  <2>1. Level(s) = 0 /\ Level(t) = MS(t) - FLI_OFFSET
    BY <1>4 DEF Level
  <2>2. Level(t) > 0
    BY <1>0, <1>4, <2>1, BigBit
  <2>3. 2 ^ MS(t) <= Least(t) /\ Least(t) \in Nat
    BY <1>0, <1>4, BigSteps DEF Least
  <2>4. SMALL_BLOCK <= 2 ^ MS(t)
    BY <1>0, <1>4, BigBit, PowMono
  <2>5. 2 ^ MS(t) \in Nat
    BY <1>0, <1>4, BigBit, PowNat
  <2>6. ~(s >= Least(t))
    BY <1>0, <1>4, <2>3, <2>4, <2>5
  <2>7. ~(Level(s) > Level(t)) /\ Level(s) # Level(t)
    <3>1. Level(t) \in Int
      BY <1>0, <1>4, <2>1, BigBit
    <3> QED
      BY <2>1, <2>2, <3>1
  <2> QED
    BY <1>1, <2>6, <2>7
<1>5. CASE ~(t < SMALL_BLOCK) /\ ~(s < SMALL_BLOCK)
  <2>1. PICK k, j : k = MS(s) /\ j = MS(t)
    OBVIOUS
  <2>2. /\ k \in Nat /\ 2 ^ k <= s /\ s < 2 ^ (k + 1) /\ s \in Nat \ {0}
        /\ j \in Nat /\ 2 ^ j <= t /\ t < 2 ^ (j + 1) /\ t \in Nat \ {0}
    BY <1>0, <1>5, <2>1, BigBit
  <2>3. PICK p, q : p = StepOf(j) /\ q = t \div p
    OBVIOUS
  <2>4. /\ p \in Nat \ {0} /\ q \in MAX_SLI .. 2 * MAX_SLI - 1
        /\ 2 ^ j <= q * p /\ q * p <= t /\ q * p \in Nat
    BY <1>0, <1>5, <2>1, <2>3, BigSteps
  <2>5. Least(t) = q * p
    BY <1>5, <2>1, <2>3 DEF Least
  <2>6. Level(s) = k - FLI_OFFSET /\ Level(t) = j - FLI_OFFSET
    BY <1>5, <2>1 DEF Level
  <2>7. Second(t) = q - MAX_SLI
    BY <1>5, <2>1, <2>3 DEF Second
  <2>8. 2 ^ j \in Nat /\ 2 ^ (j + 1) \in Nat /\ 2 ^ k \in Nat /\ 2 ^ (k + 1) \in Nat
    BY <2>2, PowNat
  <2>9. PICK l : l = q * p
    OBVIOUS
  <2>10. CASE k > j
    <3>1. j + 1 <= k /\ j + 1 \in Nat
      BY <2>2, <2>10
    <3>2. 2 ^ (j + 1) <= 2 ^ k
      BY <2>2, <3>1, PowMono
    <3>3. s >= l
      BY <2>2, <2>4, <2>8, <2>9, <3>2
    <3>4. Level(s) > Level(t)
      BY <1>0, <2>2, <2>6, <2>10
    <3>5. AtOrAbove(MAPPING_INSERT(s), MAPPING_INSERT(t))
      BY <1>1, <3>4, Zenon
    <3>6. s >= Least(t)
      BY <2>5, <2>9, <3>3, Zenon
    <3> QED
      BY <3>5, <3>6, Zenon
  <2>11. CASE k < j
    <3>1. k + 1 <= j /\ k + 1 \in Nat
      BY <2>2, <2>11
    <3>2. 2 ^ (k + 1) <= 2 ^ j
      BY <2>2, <3>1, PowMono
    <3>3. ~(s >= l)
      BY <2>2, <2>4, <2>8, <2>9, <3>2
    <3>4. Level(s) < Level(t) /\ Level(s) \in Int /\ Level(t) \in Int
      BY <1>0, <2>2, <2>6, <2>11
    <3>5. ~(Level(s) > Level(t)) /\ Level(s) # Level(t)
      BY <3>4
    <3> QED
      BY <1>1, <2>5, <2>9, <3>3, <3>5
  <2>12. CASE k = j
    <3>1. Second(s) = (s \div p) - MAX_SLI
      BY <1>5, <2>1, <2>3, <2>12 DEF Second
    <3>2. q \in Nat
      BY <2>4, ClassConstants
    <3>3. s \div p \in Nat /\ (s \div p >= q <=> s >= q * p)
      BY <2>4, <3>2, DivAtLeast
    <3>4. Second(s) >= Second(t) <=> s \div p >= q
      BY <2>7, <3>1, <3>2, <3>3, ClassConstants
    <3>5. Level(s) = Level(t) /\ ~(Level(s) > Level(t))
      BY <1>0, <2>2, <2>6, <2>12
    <3> QED
      BY <1>1, <2>5, <3>3, <3>4, <3>5
  <2> QED
    BY <2>2, <2>10, <2>11, <2>12
<1> QED
  BY <1>0, <1>2, <1>3, <1>4, <1>5

(* The remainder of a multiple and a rest.                                 *)
LEMMA ModOf ==
  ASSUME NEW c \in Nat, NEW n \in Nat, NEW j \in 0 .. n - 1
  PROVE  (c * n + j) % n = j
  BY SMT

(* What MAPPING_SEARCH wants of a length that is no small one.             *)
LEMMA SearchBig ==
  ASSUME NEW r \in Nat, r >= SMALL_BLOCK
  PROVE  LET p == StepOf(MS(r))
             tr == r + p - 1
             w == tr - (tr % p)
         IN  /\ p \in Nat \ {0} /\ tr \in Nat /\ tr >= SMALL_BLOCK
             /\ MAPPING_SEARCH(r) = [size |-> w, class |-> MAPPING_INSERT(tr)]
             /\ w = Least(tr) /\ w = (tr \div p) * p /\ w \in Nat /\ w >= r
<1>0. SMALL_BLOCK \in Nat \ {0}
  BY ClassConstants
<1>1. PICK k : k = MS(r)
  OBVIOUS
<1>2. /\ k \in Nat /\ k >= MAX_LOG2_SLI /\ k >= FLI_OFFSET + 1
      /\ 2 ^ k <= r /\ r < 2 ^ (k + 1) /\ r \in Nat \ {0}
  BY <1>1, BigBit
<1>3. PICK p : p = StepOf(k)
  OBVIOUS
<1>4. p \in Nat \ {0} /\ 2 ^ k = MAX_SLI * p /\ 2 ^ (k + 1) = (2 * MAX_SLI) * p
      /\ 2 ^ k \in Nat /\ 2 ^ (k + 1) \in Nat
  BY <1>2, <1>3, LevelSteps
<1>5. PICK tr : tr = r + p - 1
  OBVIOUS
<1>6. tr \in Nat /\ tr >= r /\ tr >= SMALL_BLOCK /\ ~(tr < SMALL_BLOCK)
  BY <1>0, <1>4, <1>5
<1>7. PICK m, a : m = tr % p /\ a = (tr \div p) * p
  OBVIOUS
<1>8. m \in 0 .. p - 1 /\ a = tr - m /\ a \in Nat
  BY <1>4, <1>6, <1>7, DivRound
<1>9. a >= r
  BY <1>4, <1>5, <1>6, <1>8
<1>10. MAPPING_SEARCH(r) = [size |-> a, class |-> MAPPING_INSERT(tr)]
  <2>1. ~(r < SMALL_BLOCK)
    BY <1>0
  <2>2. p = 2 ^ (MS(r) - MAX_LOG2_SLI)
    BY <1>1, <1>3 DEF StepOf
  <2>3. MAPPING_SEARCH(r) = [size |-> tr - (tr % p), class |-> MAPPING_INSERT(tr)]
    BY <1>5, <2>1, <2>2 DEF MAPPING_SEARCH
  <2> QED
    BY <1>7, <1>8, <2>3
<1>11. a = Least(tr)
  <2>1. CASE tr < 2 ^ (k + 1)
    <3>1. MS(tr) = k
      <4>1. tr \in Nat \ {0} /\ k + 1 \in Nat /\ tr >= 2 ^ k
        BY <1>0, <1>2, <1>4, <1>6
      <4>2. MS(tr) >= k /\ MS(tr) < k + 1 /\ MS(tr) \in Nat
        BY <1>2, <2>1, <4>1, HighestBitBounds, HighestBit
      <4> QED
        BY <1>2, <4>2
    <3> QED
      BY <1>3, <1>6, <1>7, <3>1 DEF Least
  <2>2. CASE ~(tr < 2 ^ (k + 1))
    <3>1. PICK b : b = 2 ^ (k + 1)
      OBVIOUS
    <3>2. b \in Nat /\ tr >= b /\ tr < b + p - 1
      BY <1>2, <1>4, <1>5, <1>6, <2>2, <3>1
    <3>3. PICK d : d = 2 ^ k
      OBVIOUS
    <3>4. d \in Nat /\ p <= d /\ b = 2 * d
      <4>1. d = MAX_SLI * p
        BY <1>4, <3>3
      <4>2. 2 ^ (k + 1) = 2 * 2 ^ k
        BY <1>2, PowDouble
      <4>3. p <= MAX_SLI * p
        BY <1>4, ClassConstants
      <4> QED
        BY <1>4, <3>1, <3>3, <4>1, <4>2, <4>3
    <3>5. MS(tr) = k + 1
      <4>1. tr \in Nat \ {0} /\ k + 1 \in Nat /\ k + 1 + 1 \in Nat
        BY <1>0, <1>2, <1>6
      <4>2. 2 ^ (k + 1 + 1) = 2 * b
        BY <3>1, <4>1, PowDouble
      <4>3. tr < 2 * b
        BY <1>4, <1>6, <3>2, <3>4
      <4>4. MS(tr) >= k + 1 /\ MS(tr) < k + 1 + 1 /\ MS(tr) \in Nat
        BY <3>1, <3>2, <4>1, <4>2, <4>3, HighestBitBounds, HighestBit
      <4> QED
        BY <1>2, <4>4
    <3>6. PICK e : e = StepOf(k + 1)
      OBVIOUS
    <3>7. e \in Nat \ {0} /\ b = MAX_SLI * e
      <4>1. k + 1 \in Nat /\ k + 1 >= MAX_LOG2_SLI
        BY <1>2, Settings
      <4> QED
        BY <3>1, <3>6, <4>1, LevelSteps
    <3>8. e = 2 * p
      <4>1. MAX_SLI * e = (2 * MAX_SLI) * p
        BY <1>4, <3>1, <3>7
      <4>2. (2 * MAX_SLI) * p = MAX_SLI * (2 * p)
        BY <1>4, ClassConstants
      <4>3. \A x, y \in Nat, z \in Nat \ {0} : z * x = z * y => x = y
        OBVIOUS
      <4>4. 2 * p \in Nat
        BY <1>4
      <4> QED
        BY <3>7, <4>1, <4>2, <4>3, <4>4, ClassConstants
    <3>9. tr \div e = MAX_SLI
      <4>1. tr >= MAX_SLI * e
        BY <3>2, <3>7
      <4>2. (MAX_SLI + 1) * e = MAX_SLI * e + e
        BY <3>7, ClassConstants
      <4>3. ~(tr >= (MAX_SLI + 1) * e)
        BY <1>4, <1>6, <3>2, <3>7, <3>8, <4>2
      <4>4. tr \div e \in Nat /\ tr \div e >= MAX_SLI /\ ~(tr \div e >= MAX_SLI + 1)
        BY <1>6, <3>7, <4>1, <4>3, ClassConstants, DivAtLeast
      <4> QED
        BY <4>4, ClassConstants
    <3>10. Least(tr) = b
      BY <1>6, <3>5, <3>6, <3>7, <3>9 DEF Least
    <3>11. a = b
      <4>1. PICK j : j = tr - b
        OBVIOUS
      <4>2. j \in 0 .. p - 1 /\ tr = b + j
        BY <1>4, <1>6, <3>2, <4>1
      <4>3. PICK c : c = 2 * MAX_SLI
        OBVIOUS
      <4>4. c \in Nat /\ b = c * p
        BY <1>4, <3>1, <4>3, ClassConstants
      <4>5. (c * p + j) % p = j
        BY <1>4, <4>2, <4>4, ModOf
      <4>6. m = j
        BY <1>7, <4>2, <4>4, <4>5
      <4> QED
        BY <1>8, <3>2, <4>2, <4>6
    <3> QED
      BY <3>10, <3>11
  <2> QED
    BY <2>1, <2>2
<1>12. a = tr - (tr % p)
  BY <1>7, <1>8
<1> QED
  BY <1>1, <1>3, <1>4, <1>5, <1>6, <1>7, <1>8, <1>9, <1>10, <1>11, <1>12

(* Divisibility by the granularity of what is divisible by a class's step. *)
LEMMA GrainOfPowers ==
  ASSUME NEW i \in Nat, NEW c \in Nat, NEW g \in Nat, SIZE_ALIGN = 2 ^ g, g <= i
  PROVE  c * 2 ^ i \in Grain
<1>1. PICK d : d = i - g
  OBVIOUS
<1>2. d \in Nat /\ g + d = i
  BY <1>1
<1>3. 2 ^ i = SIZE_ALIGN * 2 ^ d /\ 2 ^ d \in Nat
  <2>1. 2 ^ (g + d) = 2 ^ g * 2 ^ d
    BY <1>2, PowAdd
  <2> QED
    BY <1>2, <2>1, PowNat
<1>4. c * 2 ^ i = (c * 2 ^ d) * SIZE_ALIGN
  <2>1. PICK p, n : p = 2 ^ d /\ n = SIZE_ALIGN
    OBVIOUS
  <2>2. p \in Nat /\ n \in Nat /\ 2 ^ i = n * p
    BY <1>3, <2>1, Settings
  <2>3. c * (n * p) = (c * p) * n
    BY <2>2
  <2> QED
    BY <2>1, <2>2, <2>3
<1>5. c * 2 ^ d \in Nat
  BY <1>3
<1> QED
  BY <1>4, <1>5, GrainTimes

(* A length that a client's request is rounded to finds its first fitting  *)
(* class: what is there is long enough and what is long enough is there.   *)
LEMMA FindsLongEnough ==
  ASSUME NEW r \in Grain, r > 0
  PROVE  /\ MAPPING_SEARCH(r).size \in Grain /\ MAPPING_SEARCH(r).size >= r
         /\ \A s \in Grain : AtOrAbove(MAPPING_INSERT(s), MAPPING_SEARCH(r).class)
                            <=> s >= MAPPING_SEARCH(r).size
<1>0. r \in Nat /\ SMALL_BLOCK \in Nat /\ SIZE_ALIGN \in Nat \ {0}
  BY GrainNat, ClassConstants, Settings
<1>1. CASE r < SMALL_BLOCK
  <2>1. MAPPING_SEARCH(r) = [size |-> r, class |-> MAPPING_INSERT(r)]
    BY <1>1 DEF MAPPING_SEARCH
  <2>2. PICK l : l = Least(r)
    OBVIOUS
  <2>3. l \in Nat /\ l <= r /\ r < l + SIZE_ALIGN
    <3>1. PICK m : m = r % Width
      OBVIOUS
    <3>2. m \in 0 .. Width - 1 /\ l = r - m /\ l \in Nat
      BY <1>0, <1>1, <2>2, <3>1, ClassConstants, DivRound DEF Least
    <3> QED
      BY <1>0, <3>2, ClassConstants
  <2>4. ASSUME NEW s \in Grain
        PROVE  AtOrAbove(MAPPING_INSERT(s), MAPPING_SEARCH(r).class) <=> s >= r
    <3>1. s \in Nat
      BY GrainNat
    <3>2. AtOrAbove(MAPPING_INSERT(s), MAPPING_INSERT(r)) <=> s >= l
      BY <1>0, <2>2, <3>1, ClassOrder
    <3>3. s >= l <=> s >= r
      <4>1. ASSUME s >= l PROVE s >= r
        <5>1. SUFFICES ASSUME s < r PROVE FALSE
          BY <1>0, <3>1
        <5>2. s + SIZE_ALIGN <= r
          BY <5>1, GrainLess
        <5> QED
          BY <1>0, <2>3, <3>1, <4>1, <5>2
      <4> QED
        BY <1>0, <2>3, <3>1, <4>1
    <3>4. MAPPING_SEARCH(r).class = MAPPING_INSERT(r)
      BY <2>1
    <3> QED
      BY <3>2, <3>3, <3>4, Zenon
  <2> QED
    BY <1>0, <2>1, <2>4
<1>2. CASE ~(r < SMALL_BLOCK)
  <2>1. PICK k : k = MS(r)
    OBVIOUS
  <2>2. PICK p : p = StepOf(k)
    OBVIOUS
  <2>3. PICK tr, w : tr = r + p - 1 /\ w = Least(tr)
    OBVIOUS
  <2>4. r >= SMALL_BLOCK
    BY <1>0, <1>2
  <2>5. /\ p \in Nat \ {0} /\ tr \in Nat
        /\ MAPPING_SEARCH(r) = [size |-> w, class |-> MAPPING_INSERT(tr)]
        /\ w = (tr \div p) * p /\ w \in Nat /\ w >= r
    BY <1>0, <2>1, <2>2, <2>3, <2>4, SearchBig
  <2>6. w \in Grain
    <3>1. PICK g \in Nat : SIZE_ALIGN = 2 ^ g
      BY Settings
    <3>2. PICK i : i = k - MAX_LOG2_SLI
      OBVIOUS
    <3>3. i \in Nat
      BY <1>0, <2>1, <2>4, <3>2, BigBit, Settings
    <3>4. p = 2 ^ i /\ 2 ^ i \in Nat
      BY <2>2, <3>2, <3>3, PowNat DEF StepOf
    <3>5. CASE g <= i
      <4>1. tr \div p \in Nat
        BY <2>5, DivRound
      <4> QED
        BY <2>5, <3>1, <3>3, <3>4, <3>5, <4>1, GrainOfPowers
    <3>6. CASE ~(g <= i)
      <4>1. PICK d : d = g - i
        OBVIOUS
      <4>2. d \in Nat /\ i + d = g
        BY <3>1, <3>3, <3>6, <4>1
      <4>3. SIZE_ALIGN = p * 2 ^ d /\ 2 ^ d \in Nat
        BY <3>1, <3>3, <3>4, <4>2, PowAdd, PowNat
      <4>4. PICK j \in Nat : r = j * SIZE_ALIGN
        BY DEF Grain
      <4>5. PICK e : e = j * 2 ^ d
        OBVIOUS
      <4>6. e \in Nat /\ r = e * p
        <5>1. PICK x : x = 2 ^ d
          OBVIOUS
        <5>2. x \in Nat /\ r = j * (p * x)
          BY <4>3, <4>4, <5>1
        <5>3. j * (p * x) = (j * x) * p
          BY <2>5, <5>2
        <5> QED
          BY <4>5, <5>1, <5>2, <5>3
      <4>7. tr \div p = e
        <5>1. tr >= e * p
          BY <1>0, <2>3, <2>5, <4>6
        <5>2. (e + 1) * p = e * p + p
          BY <2>5, <4>6
        <5>3. PICK y : y = e * p
          OBVIOUS
        <5>4. ~(tr >= (e + 1) * p)
          BY <1>0, <2>3, <2>5, <4>6, <5>2, <5>3
        <5>5. tr \div p \in Nat /\ tr \div p >= e /\ ~(tr \div p >= e + 1)
          BY <2>5, <4>6, <5>1, <5>4, DivAtLeast
        <5> QED
          BY <4>6, <5>5
      <4> QED
        BY <2>5, <4>6, <4>7
    <3> QED
      BY <3>5, <3>6
  <2>7. ASSUME NEW s \in Grain
        PROVE  AtOrAbove(MAPPING_INSERT(s), MAPPING_SEARCH(r).class) <=> s >= w
    <3>1. s \in Nat
      BY GrainNat
    <3>2. AtOrAbove(MAPPING_INSERT(s), MAPPING_INSERT(tr)) <=> s >= w
      BY <2>3, <2>5, <3>1, ClassOrder
    <3>3. MAPPING_SEARCH(r).class = MAPPING_INSERT(tr)
      BY <2>5
    <3> QED
      BY <3>2, <3>3, Zenon
  <2>8. MAPPING_SEARCH(r).size = w
    BY <2>5
  <2> QED
    BY <2>5, <2>6, <2>7, <2>8
<1> QED
  BY <1>1, <1>2

-----------------------------------------------------------------------------
(***************************************************************************)
(* The lists of the classes.  cl is the class of every member and rk its   *)
(* rank, the higher the later it was inserted: a list holds the members of *)
(* its class in descending rank.  That is what a chain of links means, and *)
(* it excludes a cycle that no head reaches.                               *)
(***************************************************************************)

Below(cl, rk, x) == {y \in DOMAIN cl : cl[y] = cl[x] /\ rk[y] < rk[x]}
Above(cl, rk, x) == {y \in DOMAIN cl : cl[y] = cl[x] /\ rk[x] < rk[y]}

Ranking(cl, rk) ==
    /\ DOMAIN cl \subseteq Nat /\ cl \in [DOMAIN cl -> Class] /\ rk \in [DOMAIN cl -> Nat]
    /\ \A x, y \in DOMAIN cl : rk[x] = rk[y] => x = y

IsLinks(node, cl) ==
    node \in [DOMAIN cl -> [prev : DOMAIN cl \cup {Null}, next : DOMAIN cl \cup {Null}]]

NextLinks(node, cl, rk) ==
    \A x \in DOMAIN cl :
        /\ node[x].next \in Below(cl, rk, x) \cup {Null}
        /\ \A y \in Below(cl, rk, x) : node[x].next # Null /\ rk[y] <= rk[node[x].next]

PrevLinks(node, cl, rk) ==
    \A x \in DOMAIN cl :
        /\ node[x].prev \in Above(cl, rk, x) \cup {Null}
        /\ \A y \in Above(cl, rk, x) : node[x].prev # Null /\ rk[node[x].prev] <= rk[y]

Heads(matrix, cl, rk) ==
    /\ matrix \in [Class -> DOMAIN cl \cup {Null}]
    /\ \A c \in Class : matrix[c] # Null => cl[matrix[c]] = c
    /\ \A x \in DOMAIN cl : matrix[cl[x]] # Null /\ rk[x] <= rk[matrix[cl[x]]]

Bitmaps(matrix, sl, fl) ==
    /\ sl = {c \in Class : matrix[c] # Null}
    /\ fl = {c[1] : c \in sl}

(* The two directions of a link agree.                                     *)
LEMMA LinksAgree ==
  ASSUME NEW cl, NEW rk, NEW node, Ranking(cl, rk), IsLinks(node, cl),
         NextLinks(node, cl, rk), PrevLinks(node, cl, rk),
         NEW x \in DOMAIN cl
  PROVE  /\ node[x].next # Null => node[x].next \in DOMAIN cl /\ node[node[x].next].prev = x
         /\ node[x].prev # Null => node[x].prev \in DOMAIN cl /\ node[node[x].prev].next = x
<1>1. DOMAIN cl \subseteq Nat /\ Null \notin DOMAIN cl
  BY Settings DEF Ranking
<1>2. \A y \in DOMAIN cl : rk[y] \in Nat
  BY DEF Ranking
<1>3. ASSUME node[x].next # Null
      PROVE  node[x].next \in DOMAIN cl /\ node[node[x].next].prev = x
  <2>1. PICK n : n = node[x].next
    OBVIOUS
  <2>2. n \in DOMAIN cl /\ cl[n] = cl[x] /\ rk[n] < rk[x]
    BY <1>3, <2>1 DEF NextLinks, Below
  <2>3. x \in Above(cl, rk, n)
    BY <2>2 DEF Above
  <2>4. PICK p : p = node[n].prev
    OBVIOUS
  <2>5. p \in DOMAIN cl /\ cl[p] = cl[n] /\ rk[n] < rk[p] /\ rk[p] <= rk[x]
    BY <1>1, <2>2, <2>3, <2>4 DEF PrevLinks, Above
  <2>6. ~(rk[p] < rk[x])
    <3>1. SUFFICES ASSUME rk[p] < rk[x] PROVE FALSE
      OBVIOUS
    <3>2. p \in Below(cl, rk, x)
      BY <2>2, <2>5, <3>1 DEF Below
    <3>3. rk[p] <= rk[n]
      BY <2>1, <3>2 DEF NextLinks
    <3> QED
      BY <1>2, <2>2, <2>5, <3>3
  <2>7. rk[p] = rk[x]
    BY <1>2, <2>5, <2>6
  <2>8. p = x
    BY <2>5, <2>7 DEF Ranking
  <2> QED
    BY <2>1, <2>2, <2>4, <2>8
<1>4. ASSUME node[x].prev # Null
      PROVE  node[x].prev \in DOMAIN cl /\ node[node[x].prev].next = x
  <2>1. PICK n : n = node[x].prev
    OBVIOUS
  <2>2. n \in DOMAIN cl /\ cl[n] = cl[x] /\ rk[x] < rk[n]
    BY <1>4, <2>1 DEF PrevLinks, Above
  <2>3. x \in Below(cl, rk, n)
    BY <2>2 DEF Below
  <2>4. PICK p : p = node[n].next
    OBVIOUS
  <2>5. p \in DOMAIN cl /\ cl[p] = cl[n] /\ rk[p] < rk[n] /\ rk[x] <= rk[p]
    BY <1>1, <2>2, <2>3, <2>4 DEF NextLinks, Below
  <2>6. ~(rk[x] < rk[p])
    <3>1. SUFFICES ASSUME rk[x] < rk[p] PROVE FALSE
      OBVIOUS
    <3>2. p \in Above(cl, rk, x)
      BY <2>2, <2>5, <3>1 DEF Above
    <3>3. rk[n] <= rk[p]
      BY <2>1, <3>2 DEF PrevLinks
    <3> QED
      BY <1>2, <2>2, <2>5, <3>3
  <2>7. rk[p] = rk[x]
    BY <1>2, <2>5, <2>6
  <2>8. p = x
    BY <2>5, <2>7 DEF Ranking
  <2> QED
    BY <2>1, <2>2, <2>4, <2>8
<1> QED
  BY <1>3, <1>4

(* A member has no link back exactly if it is the head of its list.        *)
LEMMA HeadIffFirst ==
  ASSUME NEW cl, NEW rk, NEW node, NEW matrix, Ranking(cl, rk),
         PrevLinks(node, cl, rk), Heads(matrix, cl, rk), NEW x \in DOMAIN cl
  PROVE  node[x].prev = Null <=> matrix[cl[x]] = x
<1>1. DOMAIN cl \subseteq Nat /\ Null \notin DOMAIN cl /\ cl[x] \in Class
  BY Settings DEF Ranking
<1>2. \A y \in DOMAIN cl : rk[y] \in Nat
  BY DEF Ranking
<1>3. PICK t : t = matrix[cl[x]]
  OBVIOUS
<1>4. t \in DOMAIN cl /\ cl[t] = cl[x] /\ rk[x] <= rk[t]
  BY <1>1, <1>3 DEF Heads
<1>5. ASSUME node[x].prev = Null PROVE t = x
  <2>1. SUFFICES ASSUME t # x PROVE FALSE
    OBVIOUS
  <2>2. rk[x] # rk[t]
    BY <1>4, <2>1 DEF Ranking
  <2>3. t \in Above(cl, rk, x)
    BY <1>2, <1>4, <2>2 DEF Above
  <2> QED
    BY <1>5, <2>3 DEF PrevLinks
<1>6. ASSUME t = x, node[x].prev # Null PROVE FALSE
  <2>1. PICK p : p = node[x].prev
    OBVIOUS
  <2>2. p \in DOMAIN cl /\ cl[p] = cl[x] /\ rk[x] < rk[p]
    BY <1>6, <2>1 DEF PrevLinks, Above
  <2>3. rk[p] <= rk[t]
    BY <1>3, <2>2 DEF Heads
  <2> QED
    BY <1>2, <1>6, <2>2, <2>3
<1> QED
  BY <1>3, <1>5, <1>6

Without(f, b) == [x \in DOMAIN f \ {b} |-> f[x]]
Plus(f, b, v) == [x \in DOMAIN f \cup {b} |-> IF x = b THEN v ELSE f[x]]

UnlinkNode(node, b) ==
    [x \in DOMAIN node \ {b} |->
        [prev |-> IF x = node[b].next THEN node[b].prev ELSE node[x].prev,
         next |-> IF x = node[b].prev THEN node[b].next ELSE node[x].next]]

LinkNode(node, b, first) ==
    [x \in DOMAIN node \cup {b} |->
        IF x = b THEN [prev |-> Null, next |-> first]
        ELSE IF x = first THEN [node[x] EXCEPT !.prev = b] ELSE node[x]]

(* Links forward skip the node removed.                                    *)
LEMMA UnlinkKeepsNext ==
  ASSUME NEW cl, NEW rk, NEW node, Ranking(cl, rk), IsLinks(node, cl),
         NextLinks(node, cl, rk), PrevLinks(node, cl, rk), NEW b \in DOMAIN cl
  PROVE  NextLinks(UnlinkNode(node, b), Without(cl, b), Without(rk, b))
<1>1. DOMAIN cl \subseteq Nat /\ Null \notin DOMAIN cl
  BY Settings DEF Ranking
<1>2. \A y \in DOMAIN cl : rk[y] \in Nat
  BY DEF Ranking
<1>3. DOMAIN node = DOMAIN cl /\ DOMAIN rk = DOMAIN cl
  BY DEF IsLinks, Ranking
<1>4. DOMAIN Without(cl, b) = DOMAIN cl \ {b}
  BY DEF Without
<1>5. SUFFICES ASSUME NEW x \in DOMAIN cl \ {b}
               PROVE  /\ UnlinkNode(node, b)[x].next
                           \in Below(Without(cl, b), Without(rk, b), x) \cup {Null}
                      /\ \A y \in Below(Without(cl, b), Without(rk, b), x) :
                           /\ UnlinkNode(node, b)[x].next # Null
                           /\ Without(rk, b)[y] <= Without(rk, b)[UnlinkNode(node, b)[x].next]
  BY <1>4 DEF NextLinks
<1>6. PICK n : n = UnlinkNode(node, b)[x].next
  OBVIOUS
<1>7. n = IF x = node[b].prev THEN node[b].next ELSE node[x].next
  BY <1>3, <1>6 DEF UnlinkNode
<1>8. Below(Without(cl, b), Without(rk, b), x) = Below(cl, rk, x) \ {b}
  BY <1>3 DEF Below, Without
<1>9. n \in (Below(cl, rk, x) \ {b}) \cup {Null}
  <2>1. CASE x = node[b].prev
    <3>1. cl[x] = cl[b] /\ rk[b] < rk[x]
      BY <1>1, <2>1 DEF PrevLinks, Above
    <3>2. n \in Below(cl, rk, b) \cup {Null}
      BY <1>7, <2>1 DEF NextLinks
    <3> QED
      BY <1>2, <3>1, <3>2 DEF Below
  <2>2. CASE x # node[b].prev
    <3>1. n \in Below(cl, rk, x) \cup {Null}
      BY <1>7, <2>2 DEF NextLinks
    <3>2. n # b
      BY <1>1, <1>7, <2>2, LinksAgree
    <3> QED
      BY <3>1, <3>2
  <2> QED
    BY <2>1, <2>2
<1>10. ASSUME NEW y \in Below(cl, rk, x) \ {b}
       PROVE  n # Null /\ rk[y] <= rk[n]
  <2>1. CASE x = node[b].prev
    <3>1. node[x].next = b
      BY <1>1, <2>1, LinksAgree
    <3>2. cl[y] = cl[x] /\ y \in DOMAIN cl /\ rk[y] <= rk[b]
      BY <3>1 DEF NextLinks, Below
    <3>3. rk[y] # rk[b]
      BY <3>2 DEF Ranking
    <3>4. cl[x] = cl[b]
      BY <1>1, <2>1 DEF PrevLinks, Above
    <3>5. y \in Below(cl, rk, b)
      BY <1>2, <3>2, <3>3, <3>4 DEF Below
    <3> QED
      BY <1>7, <2>1, <3>5 DEF NextLinks
  <2>2. CASE x # node[b].prev
    BY <1>7, <2>2 DEF NextLinks
  <2> QED
    BY <2>1, <2>2
<1>11. \A y \in Below(cl, rk, x) \ {b} : Without(rk, b)[y] = rk[y]
  BY <1>3 DEF Without, Below
<1>12. n # Null => Without(rk, b)[n] = rk[n]
  BY <1>3, <1>9 DEF Without, Below
<1> QED
  BY <1>6, <1>8, <1>9, <1>10, <1>11, <1>12

(* Links back skip the node removed.                                       *)
LEMMA UnlinkKeepsPrev ==
  ASSUME NEW cl, NEW rk, NEW node, Ranking(cl, rk), IsLinks(node, cl),
         NextLinks(node, cl, rk), PrevLinks(node, cl, rk), NEW b \in DOMAIN cl
  PROVE  PrevLinks(UnlinkNode(node, b), Without(cl, b), Without(rk, b))
<1>1. DOMAIN cl \subseteq Nat /\ Null \notin DOMAIN cl
  BY Settings DEF Ranking
<1>2. \A y \in DOMAIN cl : rk[y] \in Nat
  BY DEF Ranking
<1>3. DOMAIN node = DOMAIN cl /\ DOMAIN rk = DOMAIN cl
  BY DEF IsLinks, Ranking
<1>4. DOMAIN Without(cl, b) = DOMAIN cl \ {b}
  BY DEF Without
<1>5. SUFFICES ASSUME NEW x \in DOMAIN cl \ {b}
               PROVE  /\ UnlinkNode(node, b)[x].prev
                           \in Above(Without(cl, b), Without(rk, b), x) \cup {Null}
                      /\ \A y \in Above(Without(cl, b), Without(rk, b), x) :
                           /\ UnlinkNode(node, b)[x].prev # Null
                           /\ Without(rk, b)[UnlinkNode(node, b)[x].prev] <= Without(rk, b)[y]
  BY <1>4 DEF PrevLinks
<1>6. PICK n : n = UnlinkNode(node, b)[x].prev
  OBVIOUS
<1>7. n = IF x = node[b].next THEN node[b].prev ELSE node[x].prev
  BY <1>3, <1>6 DEF UnlinkNode
<1>8. Above(Without(cl, b), Without(rk, b), x) = Above(cl, rk, x) \ {b}
  BY <1>3 DEF Above, Without
<1>9. n \in (Above(cl, rk, x) \ {b}) \cup {Null}
  <2>1. CASE x = node[b].next
    <3>1. cl[x] = cl[b] /\ rk[x] < rk[b]
      BY <1>1, <2>1 DEF NextLinks, Below
    <3>2. n \in Above(cl, rk, b) \cup {Null}
      BY <1>7, <2>1 DEF PrevLinks
    <3> QED
      BY <1>2, <3>1, <3>2 DEF Above
  <2>2. CASE x # node[b].next
    <3>1. n \in Above(cl, rk, x) \cup {Null}
      BY <1>7, <2>2 DEF PrevLinks
    <3>2. n # b
      BY <1>1, <1>7, <2>2, LinksAgree
    <3> QED
      BY <3>1, <3>2
  <2> QED
    BY <2>1, <2>2
<1>10. ASSUME NEW y \in Above(cl, rk, x) \ {b}
       PROVE  n # Null /\ rk[n] <= rk[y]
  <2>1. CASE x = node[b].next
    <3>1. node[x].prev = b
      BY <1>1, <2>1, LinksAgree
    <3>2. cl[y] = cl[x] /\ y \in DOMAIN cl /\ rk[b] <= rk[y]
      BY <3>1 DEF PrevLinks, Above
    <3>3. rk[y] # rk[b]
      BY <3>2 DEF Ranking
    <3>4. cl[x] = cl[b]
      BY <1>1, <2>1 DEF NextLinks, Below
    <3>5. y \in Above(cl, rk, b)
      BY <1>2, <3>2, <3>3, <3>4 DEF Above
    <3> QED
      BY <1>7, <2>1, <3>5 DEF PrevLinks
  <2>2. CASE x # node[b].next
    BY <1>7, <2>2 DEF PrevLinks
  <2> QED
    BY <2>1, <2>2
<1>11. \A y \in Above(cl, rk, x) \ {b} : Without(rk, b)[y] = rk[y]
  BY <1>3 DEF Without, Above
<1>12. n # Null => Without(rk, b)[n] = rk[n]
  BY <1>3, <1>9 DEF Without, Above
<1> QED
  BY <1>6, <1>8, <1>9, <1>10, <1>11, <1>12

(* The lists, their heads and the bitmaps over them.                       *)
Lists(node, matrix, sl, fl, cl, rk) ==
    /\ Ranking(cl, rk) /\ IsLinks(node, cl)
    /\ NextLinks(node, cl, rk) /\ PrevLinks(node, cl, rk)
    /\ Heads(matrix, cl, rk) /\ Bitmaps(matrix, sl, fl)

HeadWithout(matrix, node, c, b) ==
    [matrix EXCEPT ![c] = IF @ = b THEN node[b].next ELSE @]

(* What remains has classes, ranks and links of its own only.              *)
LEMMA UnlinkKeepsTypes ==
  ASSUME NEW cl, NEW rk, NEW node, Ranking(cl, rk), IsLinks(node, cl),
         NextLinks(node, cl, rk), PrevLinks(node, cl, rk), NEW b \in DOMAIN cl
  PROVE  /\ Ranking(Without(cl, b), Without(rk, b))
         /\ IsLinks(UnlinkNode(node, b), Without(cl, b))
<1>1. DOMAIN node = DOMAIN cl /\ DOMAIN rk = DOMAIN cl /\ DOMAIN Without(cl, b) = DOMAIN cl \ {b}
  BY DEF IsLinks, Ranking, Without
<1>2. Ranking(Without(cl, b), Without(rk, b))
  <2>1. Without(cl, b) \in [DOMAIN cl \ {b} -> Class]
    BY DEF Ranking, Without
  <2>2. Without(rk, b) \in [DOMAIN cl \ {b} -> Nat]
    BY <1>1 DEF Ranking, Without
  <2>3. \A x \in DOMAIN cl \ {b} : Without(rk, b)[x] = rk[x]
    BY <1>1 DEF Without
  <2>4. \A x, y \in DOMAIN cl \ {b} : Without(rk, b)[x] = Without(rk, b)[y] => x = y
    BY <2>3 DEF Ranking
  <2>5. DOMAIN cl \ {b} \subseteq Nat
    BY DEF Ranking
  <2> QED
    BY <1>1, <2>1, <2>2, <2>4, <2>5 DEF Ranking
<1>3. DOMAIN cl \subseteq Nat /\ Null \notin DOMAIN cl
  BY Settings DEF Ranking
<1>4. \A y \in DOMAIN cl : rk[y] \in Nat
  BY DEF Ranking
<1> DEFINE M == DOMAIN cl \ {b}
<1>5. ASSUME NEW x \in DOMAIN cl
      PROVE  /\ node[x].next \in (DOMAIN cl \ {x}) \cup {Null}
             /\ node[x].prev \in (DOMAIN cl \ {x}) \cup {Null}
             /\ node[x].next = b => node[b].prev = x
             /\ node[x].prev = b => node[b].next = x
  <2>1. node[x].next \in (DOMAIN cl \ {x}) \cup {Null}
    BY <1>4 DEF NextLinks, Below
  <2>2. node[x].prev \in (DOMAIN cl \ {x}) \cup {Null}
    BY <1>4 DEF PrevLinks, Above
  <2>3. node[x].next = b => node[b].prev = x
    BY <1>3, LinksAgree
  <2>4. node[x].prev = b => node[b].next = x
    BY <1>3, LinksAgree
  <2> QED
    BY <2>1, <2>2, <2>3, <2>4
<1>6. ASSUME NEW x \in M
      PROVE  UnlinkNode(node, b)[x] \in [prev : M \cup {Null}, next : M \cup {Null}]
  <2>1. PICK p : p = IF x = node[b].next THEN node[b].prev ELSE node[x].prev
    OBVIOUS
  <2>2. PICK n : n = IF x = node[b].prev THEN node[b].next ELSE node[x].next
    OBVIOUS
  <2>3. UnlinkNode(node, b)[x] = [prev |-> p, next |-> n]
    BY <1>1, <2>1, <2>2 DEF UnlinkNode
  <2>4. p \in M \cup {Null}
    BY <1>5, <2>1
  <2>5. n \in M \cup {Null}
    BY <1>5, <2>2
  <2> QED
    BY <2>3, <2>4, <2>5
<1>7. UnlinkNode(node, b) = [x \in M |-> UnlinkNode(node, b)[x]]
  BY <1>1 DEF UnlinkNode
<1>8. IsLinks(UnlinkNode(node, b), Without(cl, b))
  <2> HIDE DEF M
  <2>1. UnlinkNode(node, b) \in [M -> [prev : M \cup {Null}, next : M \cup {Null}]]
    BY <1>6, <1>7
  <2> QED
    BY <1>1, <2>1 DEF IsLinks, M
<1> QED
  BY <1>2, <1>8

(* The list of the node removed begins with the next one, if it was the    *)
(* head.                                                                   *)
LEMMA UnlinkKeepsHeads ==
  ASSUME NEW cl, NEW rk, NEW node, NEW matrix, Ranking(cl, rk), IsLinks(node, cl),
         NextLinks(node, cl, rk), PrevLinks(node, cl, rk), Heads(matrix, cl, rk),
         NEW b \in DOMAIN cl
  PROVE  Heads(HeadWithout(matrix, node, cl[b], b), Without(cl, b), Without(rk, b))
<1>1. /\ DOMAIN rk = DOMAIN cl /\ DOMAIN Without(cl, b) = DOMAIN cl \ {b}
      /\ DOMAIN matrix = Class /\ cl[b] \in Class
  BY DEF Ranking, Without, Heads
<1>2. DOMAIN cl \subseteq Nat /\ Null \notin DOMAIN cl
  BY Settings DEF Ranking
<1>3. \A y \in DOMAIN cl : rk[y] \in Nat
  BY DEF Ranking
<1>4. PICK c : c = cl[b]
  OBVIOUS
<1>5. PICK m : m = HeadWithout(matrix, node, c, b)
  OBVIOUS
<1>6. /\ m = [matrix EXCEPT ![c] = m[c]] /\ DOMAIN m = Class
      /\ m[c] = IF matrix[c] = b THEN node[b].next ELSE matrix[c]
      /\ \A d \in Class \ {c} : m[d] = matrix[d]
  BY <1>1, <1>4, <1>5 DEF HeadWithout
<1>7. \A x \in DOMAIN cl \ {b} : Without(cl, b)[x] = cl[x] /\ Without(rk, b)[x] = rk[x]
  BY <1>1 DEF Without
<1>8. ASSUME NEW d \in Class
      PROVE  m[d] \in (DOMAIN cl \ {b}) \cup {Null} /\ (m[d] # Null => cl[m[d]] = d)
  <2>1. CASE d # c
    BY <1>4, <1>6, <2>1 DEF Heads
  <2>2. CASE d = c /\ matrix[c] # b
    BY <1>6, <2>2 DEF Heads
  <2>3. CASE d = c /\ matrix[c] = b
    BY <1>3, <1>4, <1>6, <2>3 DEF NextLinks, Below
  <2> QED
    BY <2>1, <2>2, <2>3
<1>9. ASSUME NEW x \in DOMAIN cl \ {b}
      PROVE  m[cl[x]] # Null /\ rk[x] <= rk[m[cl[x]]]
  <2>0. cl[x] \in Class
    BY DEF Ranking
  <2>1. CASE cl[x] # c
    BY <1>6, <2>0, <2>1 DEF Heads
  <2>2. CASE cl[x] = c /\ matrix[c] # b
    BY <1>6, <2>2 DEF Heads
  <2>3. CASE cl[x] = c /\ matrix[c] = b
    <3>1. rk[x] <= rk[b]
      BY <2>3 DEF Heads
    <3>2. rk[x] # rk[b]
      BY DEF Ranking
    <3>3. x \in Below(cl, rk, b)
      BY <1>3, <1>4, <2>3, <3>1, <3>2 DEF Below
    <3> QED
      BY <1>6, <2>3, <3>3 DEF NextLinks
  <2> QED
    BY <2>1, <2>2, <2>3
<1>10. m \in [Class -> (DOMAIN cl \ {b}) \cup {Null}]
  <2>1. m = [d \in Class |-> m[d]]
    BY <1>5, <1>1 DEF HeadWithout
  <2> QED
    BY <1>8, <2>1
<1>11. \A d \in Class : m[d] # Null => Without(cl, b)[m[d]] = d
  BY <1>7, <1>8
<1>12. ASSUME NEW x \in DOMAIN cl \ {b}
       PROVE  /\ m[Without(cl, b)[x]] # Null
              /\ Without(rk, b)[x] <= Without(rk, b)[m[Without(cl, b)[x]]]
  <2>1. cl[x] \in Class
    BY DEF Ranking
  <2>2. m[cl[x]] \in DOMAIN cl \ {b}
    BY <1>8, <1>9, <2>1
  <2> QED
    BY <1>7, <1>9, <2>2
<1> QED
  BY <1>1, <1>4, <1>5, <1>10, <1>11, <1>12 DEF Heads

(* The lists without a node, the bits of an emptied class cleared.         *)
LEMMA ListsRemove ==
  ASSUME NEW cl, NEW rk, NEW node, NEW matrix, NEW sl, NEW fl,
         Lists(node, matrix, sl, fl, cl, rk), NEW b \in DOMAIN cl, NEW empties \in BOOLEAN,
         empties <=> matrix[cl[b]] = b /\ node[b].next = Null
  PROVE  Lists(UnlinkNode(node, b), HeadWithout(matrix, node, cl[b], b),
               IF empties THEN sl \ {cl[b]} ELSE sl,
               IF empties /\ \A e \in sl \ {cl[b]} : e[1] # cl[b][1] THEN fl \ {cl[b][1]} ELSE fl,
               Without(cl, b), Without(rk, b))
<1>1. PICK c : c = cl[b]
  OBVIOUS
<1>2. PICK m : m = HeadWithout(matrix, node, c, b)
  OBVIOUS
<1>3. c \in Class /\ DOMAIN matrix = Class
  BY <1>1 DEF Lists, Ranking, Heads
<1>4. /\ m[c] = IF matrix[c] = b THEN node[b].next ELSE matrix[c]
      /\ \A d \in Class \ {c} : m[d] = matrix[d]
  BY <1>2, <1>3 DEF HeadWithout
<1>5. empties <=> m[c] = Null
  <2>1. matrix[c] # Null
    BY <1>1 DEF Lists, Heads
  <2> QED
    BY <1>1, <1>4, <2>1
<1>6. PICK sl2 : sl2 = IF empties THEN sl \ {c} ELSE sl
  OBVIOUS
<1>7. PICK fl2 : fl2 = IF empties /\ \A e \in sl \ {c} : e[1] # c[1] THEN fl \ {c[1]} ELSE fl
  OBVIOUS
<1>8. sl = {d \in Class : matrix[d] # Null} /\ fl = {d[1] : d \in sl}
  BY DEF Lists, Bitmaps
<1>9. sl2 = {d \in Class : m[d] # Null}
  <2>1. c \in sl
    BY <1>1, <1>3, <1>8 DEF Lists, Heads
  <2>2. CASE empties
    BY <1>4, <1>5, <1>6, <1>8, <2>2
  <2>3. CASE ~empties
    BY <1>4, <1>5, <1>6, <1>8, <2>1, <2>3
  <2> QED
    BY <2>2, <2>3
<1>10. fl2 = {d[1] : d \in sl2}
  <2>1. CASE empties /\ \A e \in sl \ {c} : e[1] # c[1]
    <3>1. fl2 = fl \ {c[1]} /\ sl2 = sl \ {c}
      BY <1>6, <1>7, <2>1
    <3> QED
      BY <1>8, <2>1, <3>1
  <2>2. CASE empties /\ ~\A e \in sl \ {c} : e[1] # c[1]
    <3>1. fl2 = fl /\ sl2 = sl \ {c}
      BY <1>6, <1>7, <2>2
    <3> QED
      BY <1>8, <2>2, <3>1
  <2>3. CASE ~empties
    BY <1>6, <1>7, <1>8, <2>3
  <2> QED
    BY <2>1, <2>2, <2>3
<1>11. Bitmaps(m, sl2, fl2)
  BY <1>9, <1>10 DEF Bitmaps
<1>12. /\ Ranking(Without(cl, b), Without(rk, b))
       /\ IsLinks(UnlinkNode(node, b), Without(cl, b))
  BY UnlinkKeepsTypes DEF Lists
<1>13. NextLinks(UnlinkNode(node, b), Without(cl, b), Without(rk, b))
  BY UnlinkKeepsNext DEF Lists
<1>14. PrevLinks(UnlinkNode(node, b), Without(cl, b), Without(rk, b))
  BY UnlinkKeepsPrev DEF Lists
<1>15. Heads(m, Without(cl, b), Without(rk, b))
  BY <1>1, <1>2, UnlinkKeepsHeads DEF Lists
<1> QED
  BY <1>1, <1>2, <1>6, <1>7, <1>11, <1>12, <1>13, <1>14, <1>15 DEF Lists

(* A new member comes with a class and the highest rank.                   *)
LEMMA LinkKeepsTypes ==
  ASSUME NEW cl, NEW rk, NEW node, NEW matrix, Ranking(cl, rk), IsLinks(node, cl),
         Heads(matrix, cl, rk), NEW b \in Nat, b \notin DOMAIN cl, NEW c \in Class,
         NEW top \in Nat, \A x \in DOMAIN cl : rk[x] < top
  PROVE  /\ Ranking(Plus(cl, b, c), Plus(rk, b, top))
         /\ IsLinks(LinkNode(node, b, matrix[c]), Plus(cl, b, c))
<1>1. DOMAIN node = DOMAIN cl /\ DOMAIN rk = DOMAIN cl /\ DOMAIN Plus(cl, b, c) = DOMAIN cl \cup {b}
  BY DEF IsLinks, Ranking, Plus
<1>2. DOMAIN cl \subseteq Nat /\ (\A y \in DOMAIN cl : rk[y] \in Nat /\ cl[y] \in Class)
  BY DEF Ranking
<1>3. Ranking(Plus(cl, b, c), Plus(rk, b, top))
  <2>1. Plus(cl, b, c) \in [DOMAIN cl \cup {b} -> Class]
    BY <1>2 DEF Plus
  <2>2. Plus(rk, b, top) \in [DOMAIN cl \cup {b} -> Nat]
    BY <1>1, <1>2 DEF Plus
  <2>3. \A x \in DOMAIN cl : Plus(rk, b, top)[x] = rk[x]
    BY <1>1 DEF Plus
  <2>4. Plus(rk, b, top)[b] = top
    BY DEF Plus
  <2>5. ASSUME NEW x \in DOMAIN cl \cup {b}, NEW y \in DOMAIN cl \cup {b},
               Plus(rk, b, top)[x] = Plus(rk, b, top)[y]
        PROVE  x = y
    <3>1. CASE x = b /\ y = b
      BY <3>1
    <3>2. CASE x = b /\ y # b
      BY <1>2, <2>3, <2>4, <2>5, <3>2
    <3>3. CASE x # b /\ y = b
      BY <1>2, <2>3, <2>4, <2>5, <3>3
    <3>4. CASE x # b /\ y # b
      BY <2>3, <2>5, <3>4 DEF Ranking
    <3> QED
      BY <3>1, <3>2, <3>3, <3>4
  <2> QED
    BY <1>1, <1>2, <2>1, <2>2, <2>5 DEF Ranking
<1> DEFINE M == DOMAIN cl \cup {b}
<1>4. matrix[c] \in M \cup {Null}
  BY DEF Heads
<1>5. ASSUME NEW x \in M
      PROVE  LinkNode(node, b, matrix[c])[x] \in [prev : M \cup {Null}, next : M \cup {Null}]
  <2>1. CASE x = b
    BY <1>1, <1>4, <2>1 DEF LinkNode
  <2>2. CASE x # b
    <3>1. node[x] \in [prev : M \cup {Null}, next : M \cup {Null}]
      BY <2>2 DEF IsLinks
    <3>2. [node[x] EXCEPT !.prev = b] \in [prev : M \cup {Null}, next : M \cup {Null}]
      BY <3>1
    <3> QED
      BY <1>1, <2>2, <3>1, <3>2 DEF LinkNode
  <2> QED
    BY <2>1, <2>2
<1>6. LinkNode(node, b, matrix[c]) = [x \in M |-> LinkNode(node, b, matrix[c])[x]]
  BY <1>1 DEF LinkNode
<1>7. IsLinks(LinkNode(node, b, matrix[c]), Plus(cl, b, c))
  <2> HIDE DEF M
  <2>1. LinkNode(node, b, matrix[c]) \in [M -> [prev : M \cup {Null}, next : M \cup {Null}]]
    BY <1>5, <1>6
  <2> QED
    BY <1>1, <2>1 DEF IsLinks, M
<1> QED
  BY <1>3, <1>7

(* What the links of the nodes are once b is linked in before first.       *)
LEMMA LinkedNodes ==
  ASSUME NEW cl, NEW node, IsLinks(node, cl), NEW b, b \notin DOMAIN cl, NEW first
  PROVE  /\ LinkNode(node, b, first)[b].prev = Null /\ LinkNode(node, b, first)[b].next = first
         /\ \A x \in DOMAIN cl :
              /\ LinkNode(node, b, first)[x].next = node[x].next
              /\ LinkNode(node, b, first)[x].prev = IF x = first THEN b ELSE node[x].prev
<1>1. DOMAIN node = DOMAIN cl
  BY DEF IsLinks
<1>2. LinkNode(node, b, first)[b].prev = Null /\ LinkNode(node, b, first)[b].next = first
  BY DEF LinkNode
<1>3. ASSUME NEW x \in DOMAIN cl
      PROVE  /\ LinkNode(node, b, first)[x].next = node[x].next
             /\ LinkNode(node, b, first)[x].prev = IF x = first THEN b ELSE node[x].prev
  <2>1. node[x] \in [prev : DOMAIN cl \cup {Null}, next : DOMAIN cl \cup {Null}]
    BY DEF IsLinks
  <2>2. CASE x = first
    <3>1. LinkNode(node, b, first)[x] = [node[x] EXCEPT !.prev = b]
      BY <1>1, <2>2 DEF LinkNode
    <3> QED
      BY <2>1, <2>2, <3>1
  <2>3. CASE x # first
    BY <1>1, <2>3 DEF LinkNode
  <2> QED
    BY <2>2, <2>3
<1> QED
  BY <1>2, <1>3

(* A new member comes before what was the head.                            *)
LEMMA LinkKeepsLinks ==
  ASSUME NEW cl, NEW rk, NEW node, NEW matrix, Ranking(cl, rk), IsLinks(node, cl),
         NextLinks(node, cl, rk), PrevLinks(node, cl, rk),
         Heads(matrix, cl, rk), NEW b \in Nat, b \notin DOMAIN cl, NEW c \in Class,
         NEW top \in Nat, \A x \in DOMAIN cl : rk[x] < top
  PROVE  /\ NextLinks(LinkNode(node, b, matrix[c]), Plus(cl, b, c), Plus(rk, b, top))
         /\ PrevLinks(LinkNode(node, b, matrix[c]), Plus(cl, b, c), Plus(rk, b, top))
<1> DEFINE D == DOMAIN cl
<1>1. DOMAIN node = D /\ DOMAIN rk = D /\ DOMAIN Plus(cl, b, c) = D \cup {b}
  BY DEF IsLinks, Ranking, Plus
<1>2. D \subseteq Nat /\ (\A y \in D : rk[y] \in Nat /\ cl[y] \in Class) /\ Null \notin D /\ Null # b
  BY Settings DEF Ranking
<1>3. PICK f : f = matrix[c]
  OBVIOUS
<1>4. PICK N : N = LinkNode(node, b, f)
  OBVIOUS
<1>5. PICK C, R : C = Plus(cl, b, c) /\ R = Plus(rk, b, top)
  OBVIOUS
<1>6. /\ C[b] = c /\ R[b] = top /\ DOMAIN C = D \cup {b}
      /\ \A x \in D : C[x] = cl[x] /\ R[x] = rk[x]
  BY <1>1, <1>5 DEF Plus
<1>7. /\ N[b].prev = Null /\ N[b].next = f
      /\ \A x \in D : N[x].next = node[x].next
                      /\ N[x].prev = IF x = f THEN b ELSE node[x].prev
  BY <1>4, LinkedNodes
<1>8. \A x \in D : /\ Below(C, R, x) = Below(cl, rk, x)
                   /\ cl[x] # c => Above(C, R, x) = Above(cl, rk, x)
                   /\ cl[x] = c => Above(C, R, x) = Above(cl, rk, x) \cup {b}
  BY <1>2, <1>6 DEF Below, Above
<1>9. /\ Below(C, R, b) = {y \in D : cl[y] = c}
      /\ Above(C, R, b) = {}
  BY <1>2, <1>6 DEF Below, Above
<1>10. /\ f \in D \cup {Null} /\ (f # Null => cl[f] = c)
       /\ \A x \in D : cl[x] = c => f # Null /\ rk[x] <= rk[f]
  BY <1>3 DEF Heads
<1>11. NextLinks(N, C, R)
  <2>1. SUFFICES ASSUME NEW x \in D \cup {b}
                 PROVE  /\ N[x].next \in Below(C, R, x) \cup {Null}
                        /\ \A y \in Below(C, R, x) : N[x].next # Null /\ R[y] <= R[N[x].next]
    BY <1>6 DEF NextLinks
  <2>2. CASE x = b
    BY <1>6, <1>7, <1>9, <1>10, <2>2
  <2>3. CASE x # b
    <3>1. x \in D
      BY <2>3
    <3>2. /\ node[x].next \in Below(cl, rk, x) \cup {Null}
          /\ \A y \in Below(cl, rk, x) : node[x].next # Null /\ rk[y] <= rk[node[x].next]
      BY <3>1 DEF NextLinks
    <3>3. Below(cl, rk, x) \subseteq D
      BY DEF Below
    <3> QED
      BY <1>6, <1>7, <1>8, <3>1, <3>2, <3>3
  <2> QED
    BY <2>2, <2>3
<1>12. PrevLinks(N, C, R)
  <2>1. SUFFICES ASSUME NEW x \in D \cup {b}
                 PROVE  /\ N[x].prev \in Above(C, R, x) \cup {Null}
                        /\ \A y \in Above(C, R, x) : N[x].prev # Null /\ R[N[x].prev] <= R[y]
    BY <1>6 DEF PrevLinks
  <2>2. CASE x = b
    BY <1>7, <1>9, <2>2
  <2>3. CASE x # b /\ x = f
    <3>1. x \in D /\ cl[x] = c /\ N[x].prev = b
      BY <1>2, <1>7, <1>10, <2>3
    <3>2. Above(cl, rk, x) = {}
      <4>1. SUFFICES ASSUME NEW y \in Above(cl, rk, x) PROVE FALSE
        OBVIOUS
      <4>2. y \in D /\ cl[y] = c /\ rk[x] < rk[y]
        BY <3>1, <4>1 DEF Above
      <4>3. rk[y] <= rk[x]
        BY <1>10, <2>3, <4>2
      <4> QED
        BY <1>2, <3>1, <4>2, <4>3
    <3>3. Above(C, R, x) = {b}
      BY <1>8, <3>1, <3>2
    <3> QED
      BY <1>2, <1>6, <3>1, <3>3
  <2>4. CASE x # b /\ x # f
    <3>1. x \in D /\ N[x].prev = node[x].prev
      BY <1>7, <2>4
    <3>2. /\ node[x].prev \in Above(cl, rk, x) \cup {Null}
          /\ \A y \in Above(cl, rk, x) : node[x].prev # Null /\ rk[node[x].prev] <= rk[y]
      BY <3>1 DEF PrevLinks
    <3>3. Above(cl, rk, x) \subseteq D
      BY DEF Above
    <3>4. CASE cl[x] # c
      BY <1>6, <1>8, <3>1, <3>2, <3>3, <3>4
    <3>5. CASE cl[x] = c
      <4>1. f \in D /\ rk[x] <= rk[f] /\ cl[f] = c
        BY <1>10, <3>1, <3>5
      <4>2. rk[x] # rk[f]
        BY <2>4, <3>1, <4>1 DEF Ranking
      <4>3. f \in Above(cl, rk, x)
        BY <1>2, <3>1, <3>5, <4>1, <4>2 DEF Above
      <4>4. node[x].prev \in Above(cl, rk, x)
        BY <3>2, <4>3
      <4>5. node[x].prev \in D /\ node[x].prev # Null
        BY <1>2, <3>3, <4>4
      <4>6. rk[node[x].prev] < top
        BY <4>5
      <4>7. ASSUME NEW y \in Above(C, R, x) PROVE R[node[x].prev] <= R[y]
        <5>1. CASE y = b
          BY <1>2, <1>6, <4>5, <4>6, <5>1
        <5>2. CASE y # b
          BY <1>6, <1>8, <3>1, <3>2, <3>3, <3>5, <4>5, <5>2
        <5> QED
          BY <5>1, <5>2
      <4>8. node[x].prev \in Above(C, R, x)
        BY <1>8, <3>1, <3>5, <4>4
      <4> QED
        BY <3>1, <4>5, <4>7, <4>8
    <3> QED
      BY <3>4, <3>5
  <2> QED
    BY <2>2, <2>3, <2>4
<1> QED
  BY <1>3, <1>4, <1>5, <1>11, <1>12

(* The lists with a node more, its bits set.                               *)
LEMMA ListsInsert ==
  ASSUME NEW cl, NEW rk, NEW node, NEW matrix, NEW sl, NEW fl,
         Lists(node, matrix, sl, fl, cl, rk), NEW b \in Nat, b \notin DOMAIN cl, NEW c \in Class,
         NEW top \in Nat, \A x \in DOMAIN cl : rk[x] < top
  PROVE  Lists(LinkNode(node, b, matrix[c]), [matrix EXCEPT ![c] = b],
               sl \cup {c}, fl \cup {c[1]}, Plus(cl, b, c), Plus(rk, b, top))
<1> DEFINE D == DOMAIN cl
<1>1. DOMAIN rk = D /\ DOMAIN matrix = Class /\ Null # b
      /\ (\A y \in D : rk[y] \in Nat /\ cl[y] \in Class)
  BY Settings DEF Lists, Ranking, Heads
<1>2. PICK m : m = [matrix EXCEPT ![c] = b]
  OBVIOUS
<1>3. m[c] = b /\ DOMAIN m = Class /\ \A d \in Class \ {c} : m[d] = matrix[d]
  BY <1>1, <1>2
<1>4. PICK C, R : C = Plus(cl, b, c) /\ R = Plus(rk, b, top)
  OBVIOUS
<1>5. /\ C[b] = c /\ R[b] = top /\ DOMAIN C = D \cup {b}
      /\ \A x \in D : C[x] = cl[x] /\ R[x] = rk[x]
  BY <1>1, <1>4 DEF Plus
<1>6. Heads(m, C, R)
  <2>1. m \in [Class -> D \cup {b} \cup {Null}]
    BY <1>2 DEF Lists, Heads
  <2>2. ASSUME NEW d \in Class, m[d] # Null PROVE C[m[d]] = d
    <3>1. CASE d = c
      BY <1>3, <1>5, <3>1
    <3>2. CASE d # c
      <4>1. m[d] = matrix[d] /\ matrix[d] # Null
        BY <1>3, <2>2, <3>2
      <4>2. matrix[d] \in D /\ cl[matrix[d]] = d
        BY <4>1 DEF Lists, Heads
      <4> QED
        BY <1>5, <4>1, <4>2
    <3> QED
      BY <3>1, <3>2
  <2>3. ASSUME NEW x \in D \cup {b} PROVE m[C[x]] # Null /\ R[x] <= R[m[C[x]]]
    <3>1. CASE x = b
      BY <1>1, <1>3, <1>5, <3>1
    <3>2. CASE x # b /\ cl[x] = c
      <4>1. x \in D /\ rk[x] < top /\ C[x] = c /\ R[x] = rk[x] /\ rk[x] \in Nat
        BY <1>1, <1>5, <3>2
      <4> QED
        BY <1>1, <1>3, <1>5, <4>1
    <3>3. CASE x # b /\ cl[x] # c
      <4>1. x \in D /\ C[x] = cl[x] /\ R[x] = rk[x] /\ m[cl[x]] = matrix[cl[x]]
        BY <1>1, <1>3, <1>5, <3>3
      <4>2. matrix[cl[x]] # Null /\ rk[x] <= rk[matrix[cl[x]]]
        BY <4>1 DEF Lists, Heads
      <4>3. matrix[cl[x]] \in D
        BY <1>1, <4>1, <4>2 DEF Lists, Heads
      <4> QED
        BY <1>5, <4>1, <4>2, <4>3
    <3> QED
      BY <3>1, <3>2, <3>3
  <2> QED
    BY <1>5, <2>1, <2>2, <2>3 DEF Heads
<1>7. Bitmaps(m, sl \cup {c}, fl \cup {c[1]})
  <2>1. sl \cup {c} = {d \in Class : m[d] # Null}
    BY <1>1, <1>3 DEF Lists, Bitmaps
  <2>2. fl \cup {c[1]} = {d[1] : d \in sl \cup {c}}
    BY DEF Lists, Bitmaps
  <2> QED
    BY <2>1, <2>2 DEF Bitmaps
<1>8. Ranking(C, R) /\ IsLinks(LinkNode(node, b, matrix[c]), C)
  BY <1>4, LinkKeepsTypes DEF Lists
<1>9. NextLinks(LinkNode(node, b, matrix[c]), C, R) /\ PrevLinks(LinkNode(node, b, matrix[c]), C, R)
  BY <1>4, LinkKeepsLinks DEF Lists
<1> QED
  BY <1>2, <1>4, <1>6, <1>7, <1>8, <1>9 DEF Lists

-----------------------------------------------------------------------------
(***************************************************************************)
(* free_size.  The bytes in the blocks of M, as pairs of a block and a     *)
(* place in it, so that their number is a sum without a fold.              *)
(***************************************************************************)
Held(g, M) == {q \in M \X (1 .. PoolSize) : q[2] <= g[q[1]].size}

(* Finitely many blocks hold finitely many bytes.                          *)
LEMMA HeldFinite ==
  ASSUME NEW g, NEW M, IsFiniteSet(M)
  PROVE  IsFiniteSet(Held(g, M)) /\ Cardinality(Held(g, M)) \in Nat
<1>1. IsFiniteSet(1 .. PoolSize)
  BY FS_Interval, Settings
<1>2. IsFiniteSet(M \X (1 .. PoolSize))
  BY <1>1, FS_Product
<1>3. Held(g, M) \in SUBSET (M \X (1 .. PoolSize))
  BY DEF Held
<1> QED
  BY <1>2, <1>3, FS_Subset, FS_CardinalityType

(* A block holds as many bytes as its length.                              *)
LEMMA HeldOne ==
  ASSUME NEW g, NEW b, g[b].size \in 1 .. PoolSize
  PROVE  IsFiniteSet(Held(g, {b})) /\ Cardinality(Held(g, {b})) = g[b].size
<1>1. PICK n : n = g[b].size
  OBVIOUS
<1>2. n \in 1 .. PoolSize /\ PoolSize \in Nat
  BY <1>1, Settings
<1> DEFINE f == [i \in 1 .. n |-> <<b, i>>]
<1>3. Held(g, {b}) = {<<b, i>> : i \in 1 .. n}
  BY <1>1, <1>2 DEF Held
<1>4. f \in Bijection(1 .. n, Held(g, {b}))
  <2>1. f \in [1 .. n -> Held(g, {b})]
    BY <1>3
  <2>2. \A i, j \in 1 .. n : f[i] = f[j] => i = j
    OBVIOUS
  <2>3. \A q \in Held(g, {b}) : \E i \in 1 .. n : f[i] = q
    BY <1>3
  <2> HIDE DEF f
  <2> QED
    BY <2>1, <2>2, <2>3 DEF Bijection, Injection, Surjection, IsInjective
<1>5. ExistsBijection(1 .. n, Held(g, {b}))
  BY <1>4 DEF ExistsBijection
<1>6. IsFiniteSet(1 .. n) /\ Cardinality(1 .. n) = n
  BY <1>2, FS_Interval
<1> QED
  BY <1>1, <1>5, <1>6, FS_Bijection

(* A block more adds its length.                                           *)
LEMMA HeldPlus ==
  ASSUME NEW g, NEW M, IsFiniteSet(M), NEW b, b \notin M, g[b].size \in 1 .. PoolSize
  PROVE  /\ IsFiniteSet(M \cup {b})
         /\ Cardinality(Held(g, M \cup {b})) = Cardinality(Held(g, M)) + g[b].size
<1>1. Held(g, M \cup {b}) = Held(g, M) \cup Held(g, {b})
  BY DEF Held
<1>2. Held(g, M) \cap Held(g, {b}) = {}
  BY DEF Held
<1>3. Cardinality(Held(g, M) \cap Held(g, {b})) = 0
  BY <1>2, FS_EmptySet
<1>4. PICK x, y, z : x = Cardinality(Held(g, M)) /\ y = Cardinality(Held(g, {b}))
                     /\ z = Cardinality(Held(g, M \cup {b}))
  OBVIOUS
<1>5. x \in Nat /\ y = g[b].size /\ y \in Nat
  <2>1. x \in Nat
    BY <1>4, HeldFinite
  <2>2. y = g[b].size
    BY <1>4, HeldOne
  <2> QED
    BY <2>1, <2>2, Settings
<1>6. z = x + y - 0
  BY <1>1, <1>3, <1>4, HeldFinite, HeldOne, FS_Union
<1>7. IsFiniteSet(M \cup {b})
  BY FS_AddElement
<1> QED
  BY <1>4, <1>5, <1>6, <1>7

(* A block less takes its length away.                                     *)
LEMMA HeldMinus ==
  ASSUME NEW g, NEW M, IsFiniteSet(M), NEW b \in M, g[b].size \in 1 .. PoolSize
  PROVE  /\ IsFiniteSet(M \ {b})
         /\ Cardinality(Held(g, M \ {b})) = Cardinality(Held(g, M)) - g[b].size
<1>1. IsFiniteSet(M \ {b})
  BY FS_RemoveElement
<1>2. (M \ {b}) \cup {b} = M /\ b \notin M \ {b}
  OBVIOUS
<1>3. Cardinality(Held(g, (M \ {b}) \cup {b})) = Cardinality(Held(g, M \ {b})) + g[b].size
  BY <1>1, HeldPlus
<1>4. Cardinality(Held(g, M \ {b})) \in Nat
  BY <1>1, HeldFinite
<1>5. g[b].size \in Nat
  BY Settings
<1> QED
  BY <1>1, <1>2, <1>3, <1>4, <1>5

-----------------------------------------------------------------------------
(* The pool as a record.                                                   *)
IsHeap(h) ==
    h = [hdr |-> h.hdr, node |-> h.node, matrix |-> h.matrix,
         slbitmap |-> h.slbitmap, flbitmap |-> h.flbitmap, free_size |-> h.free_size]

SameLists(h, k) ==
    /\ k.node = h.node /\ k.matrix = h.matrix
    /\ k.slbitmap = h.slbitmap /\ k.flbitmap = h.flbitmap /\ k.free_size = h.free_size

Classes(g, M) == [x \in M |-> MAPPING_INSERT(g[x].size)]

(* The lists of h hold the blocks of M.                                    *)
Carries(h, M) ==
    /\ IsFiniteSet(M) /\ \A x \in M : h.hdr[x].size \in 1 .. PoolSize
    /\ \E rk, top : /\ top \in Nat /\ \A x \in M : rk[x] < top
                    /\ Lists(h.node, h.matrix, h.slbitmap, h.flbitmap, Classes(h.hdr, M), rk)
    /\ h.free_size = Cardinality(Held(h.hdr, M))

(* Lists and lengths are all that the lists depend on.                     *)
LEMMA CarriesSame ==
  ASSUME NEW h, NEW k, NEW M, Carries(h, M), SameLists(h, k),
         \A x \in M : k.hdr[x].size = h.hdr[x].size
  PROVE  Carries(k, M)
<1>1. Classes(k.hdr, M) = Classes(h.hdr, M)
  BY DEF Classes
<1>2. Held(k.hdr, M) = Held(h.hdr, M)
  BY DEF Held
<1>3. k.free_size = Cardinality(Held(k.hdr, M))
  BY <1>2 DEF Carries, SameLists
<1>4. \A x \in M : k.hdr[x].size \in 1 .. PoolSize
  BY DEF Carries
<1>5. PICK rk, top : /\ top \in Nat /\ \A x \in M : rk[x] < top
                    /\ Lists(h.node, h.matrix, h.slbitmap, h.flbitmap, Classes(h.hdr, M), rk)
  BY DEF Carries
<1>6. Lists(k.node, k.matrix, k.slbitmap, k.flbitmap, Classes(k.hdr, M), rk)
  BY <1>1, <1>5 DEF SameLists
<1>7. IsFiniteSet(M)
  BY DEF Carries
<1> QED
  BY <1>3, <1>4, <1>5, <1>6, <1>7 DEF Carries

ClassesAfter(h, b, c) == IF Empties(h, b, c) THEN h.slbitmap \ {c} ELSE h.slbitmap
LevelsAfter(h, b, c) ==
    IF Empties(h, b, c) /\ \A e \in h.slbitmap \ {c} : e[1] # c[1]
    THEN h.flbitmap \ {c[1]} ELSE h.flbitmap

(* What REMOVE_HEADER does to each part of the pool.                       *)
LEMMA RemoveParts ==
  ASSUME NEW h, IsHeap(h), NEW b, NEW c, h.hdr[b].size # 0,
         NEW r, r = REMOVE_HEADER(h, b, c)
  PROVE  /\ IsHeap(r)
         /\ r.hdr = h.hdr
         /\ r.node = UnlinkNode(h.node, b)
         /\ r.matrix = HeadWithout(h.matrix, h.node, c, b)
         /\ r.slbitmap = ClassesAfter(h, b, c)
         /\ r.flbitmap = LevelsAfter(h, b, c)
         /\ r.free_size = h.free_size - h.hdr[b].size
<1>1. PICK n, m, s, f, z :
        /\ n = UnlinkNode(h.node, b)
        /\ m = HeadWithout(h.matrix, h.node, c, b)
        /\ s = ClassesAfter(h, b, c) /\ f = LevelsAfter(h, b, c)
        /\ z = h.free_size - h.hdr[b].size
  OBVIOUS
<1>2. Unlink(h, b) = n
  BY <1>1 DEF Unlink, UnlinkNode
<1>3. REMOVE_HEADER(h, b, c)
        = [h EXCEPT !.node = n, !.free_size = z, !.matrix = m, !.slbitmap = s, !.flbitmap = f]
  <2>1. h.matrix = h["matrix"]
    OBVIOUS
  <2>2. ~(Size(h, b) = 0)
    BY DEF Size
  <2> QED
    BY <1>1, <1>2, <2>2
      DEF REMOVE_HEADER, HeadWithout, IsHeap, Size, ClassesAfter, LevelsAfter
<1>4. r = [hdr |-> h.hdr, node |-> n, matrix |-> m,
                                slbitmap |-> s, flbitmap |-> f, free_size |-> z]
  BY <1>3 DEF IsHeap
<1> HIDE <1>3
<1>5. IsHeap(r)
  BY <1>4 DEF IsHeap
<1>6. r.hdr = h.hdr
  BY <1>4
<1>7. /\ r.node = n /\ r.matrix = m
      /\ r.slbitmap = s /\ r.flbitmap = f
      /\ r.free_size = z
  BY <1>4
<1> QED
  BY <1>1, <1>5, <1>6, <1>7, Zenon

(* What INSERT_FREE_BLOCK does to each part of the pool.                   *)
LEMMA InsertParts ==
  ASSUME NEW h, IsHeap(h), NEW b, NEW c, c = MAPPING_INSERT(h.hdr[b].size), h.hdr[b].size # 0,
         NEW r, r = INSERT_FREE_BLOCK(h, b)
  PROVE  /\ IsHeap(r)
         /\ r.hdr = h.hdr
         /\ r.node = LinkNode(h.node, b, h.matrix[c])
         /\ r.matrix = [h.matrix EXCEPT ![c] = b]
         /\ r.slbitmap = h.slbitmap \cup {c}
         /\ r.flbitmap = h.flbitmap \cup {c[1]}
         /\ r.free_size = h.free_size + h.hdr[b].size
<1>1. PICK n, m, s, f, z :
        /\ n = LinkNode(h.node, b, h.matrix[c])
        /\ m = [h.matrix EXCEPT ![c] = b]
        /\ s = h.slbitmap \cup {c} /\ f = h.flbitmap \cup {c[1]}
        /\ z = h.free_size + h.hdr[b].size
  OBVIOUS
<1>2. INSERT_FREE_BLOCK(h, b)
        = [h EXCEPT !.node = n, !.free_size = z, !.matrix = m, !.slbitmap = s, !.flbitmap = f]
  <2>1. ~(Size(h, b) = 0) /\ c = MAPPING_INSERT(Size(h, b))
    BY DEF Size
  <2> QED
    BY <1>1, <2>1 DEF INSERT_FREE_BLOCK, LinkNode, IsHeap, Size
<1>3. r = [hdr |-> h.hdr, node |-> n, matrix |-> m,
                                slbitmap |-> s, flbitmap |-> f, free_size |-> z]
  BY <1>2 DEF IsHeap
<1> HIDE <1>2
<1>4. IsHeap(r)
  BY <1>3 DEF IsHeap
<1>5. r.hdr = h.hdr
  BY <1>3
<1>6. /\ r.node = n /\ r.matrix = m
      /\ r.slbitmap = s /\ r.flbitmap = f
      /\ r.free_size = z
  BY <1>3
<1> QED
  BY <1>1, <1>4, <1>5, <1>6, Zenon

(* A block taken from its list.  One without memory is in none.            *)
LEMMA RemoveCarries ==
  ASSUME NEW h, IsHeap(h), NEW M, Carries(h, M), NEW b,
         b \in M \/ (h.hdr[b].size = 0 /\ b \notin M)
  PROVE  LET r == REMOVE_HEADER(h, b, MAPPING_INSERT(Size(h, b)))
         IN  IsHeap(r) /\ r.hdr = h.hdr /\ Carries(r, M \ {b})
<1>1. CASE b \in M
  <2>1. PICK c : c = MAPPING_INSERT(h.hdr[b].size)
    OBVIOUS
  <2>2. PICK r : r = REMOVE_HEADER(h, b, c)
    OBVIOUS
  <2>3. PICK rk, top : /\ top \in Nat /\ \A x \in M : rk[x] < top
                    /\ Lists(h.node, h.matrix, h.slbitmap, h.flbitmap, Classes(h.hdr, M), rk)
    BY DEF Carries
  <2>4. PICK cl : cl = Classes(h.hdr, M)
    OBVIOUS
  <2>5. DOMAIN cl = M /\ cl[b] = c /\ Without(cl, b) = Classes(h.hdr, M \ {b})
    BY <1>1, <2>1, <2>4 DEF Classes, Without
  <2>6. h.hdr[b].size \in 1 .. PoolSize /\ h.hdr[b].size # 0
    BY <1>1, Settings DEF Carries
  <2>7. /\ IsHeap(r) /\ r.hdr = h.hdr
        /\ r.node = UnlinkNode(h.node, b)
        /\ r.matrix = HeadWithout(h.matrix, h.node, c, b)
        /\ r.slbitmap = ClassesAfter(h, b, c) /\ r.flbitmap = LevelsAfter(h, b, c)
        /\ r.free_size = h.free_size - h.hdr[b].size
    BY <2>2, <2>6, RemoveParts
  <2>8. Lists(r.node, r.matrix, r.slbitmap, r.flbitmap, Without(cl, b), Without(rk, b))
    <3>1. PICK e \in BOOLEAN : e <=> Empties(h, b, c)
      OBVIOUS
    <3>2. e <=> h.matrix[cl[b]] = b /\ h.node[b].next = Null
      BY <2>5, <3>1 DEF Empties
    <3>3. Lists(UnlinkNode(h.node, b), HeadWithout(h.matrix, h.node, cl[b], b),
               IF e THEN h.slbitmap \ {cl[b]} ELSE h.slbitmap,
               IF e /\ \A d \in h.slbitmap \ {cl[b]} : d[1] # cl[b][1]
               THEN h.flbitmap \ {cl[b][1]} ELSE h.flbitmap,
               Without(cl, b), Without(rk, b))
      <4>1. Lists(h.node, h.matrix, h.slbitmap, h.flbitmap, cl, rk)
        BY <2>3, <2>4
      <4>2. b \in DOMAIN cl
        BY <1>1, <2>5
      <4> QED
        BY <3>2, <4>1, <4>2, ListsRemove
    <3>4. /\ ClassesAfter(h, b, c) = IF e THEN h.slbitmap \ {cl[b]} ELSE h.slbitmap
          /\ LevelsAfter(h, b, c)
               = IF e /\ \A d \in h.slbitmap \ {cl[b]} : d[1] # cl[b][1]
                 THEN h.flbitmap \ {cl[b][1]} ELSE h.flbitmap
      BY <2>5, <3>1 DEF ClassesAfter, LevelsAfter
    <3> QED
      BY <2>5, <2>7, <3>3, <3>4
  <2>9. \A x \in M \ {b} : Without(rk, b)[x] < top
    BY <2>3, <2>4, <2>5 DEF Without, Lists, Ranking
  <2>10. /\ IsFiniteSet(M \ {b})
         /\ Cardinality(Held(h.hdr, M \ {b})) = Cardinality(Held(h.hdr, M)) - h.hdr[b].size
    BY <1>1, <2>6, HeldMinus DEF Carries
  <2>11. r.free_size = Cardinality(Held(r.hdr, M \ {b}))
    BY <2>7, <2>10 DEF Carries
  <2>12. \A x \in M \ {b} : r.hdr[x].size \in 1 .. PoolSize
    BY <2>7 DEF Carries
  <2>13. Classes(r.hdr, M \ {b}) = Without(cl, b)
    BY <2>5, <2>7
  <2>14. Carries(r, M \ {b})
    BY <2>3, <2>8, <2>9, <2>10, <2>11, <2>12, <2>13 DEF Carries
  <2>15. r = REMOVE_HEADER(h, b, MAPPING_INSERT(Size(h, b)))
    BY <2>1, <2>2 DEF Size
  <2> QED
    BY <2>7, <2>14, <2>15
<1>2. CASE b \notin M /\ h.hdr[b].size = 0
  <2>1. REMOVE_HEADER(h, b, MAPPING_INSERT(Size(h, b))) = h
    BY <1>2 DEF REMOVE_HEADER, Size
  <2>2. M \ {b} = M
    BY <1>2
  <2> QED
    BY <2>1, <2>2
<1> QED
  BY <1>1, <1>2

(* A block put on its list. One without memory goes on none.               *)
LEMMA InsertCarries ==
  ASSUME NEW h, IsHeap(h), NEW M, Carries(h, M), NEW b \in Nat, b \notin M,
         h.hdr[b].size \in 0 .. PoolSize
  PROVE  /\ IsHeap(INSERT_FREE_BLOCK(h, b)) /\ INSERT_FREE_BLOCK(h, b).hdr = h.hdr
         /\ Carries(INSERT_FREE_BLOCK(h, b), IF h.hdr[b].size > 0 THEN M \cup {b} ELSE M)
<1>1. CASE h.hdr[b].size # 0
  <2>1. PICK c : c = MAPPING_INSERT(h.hdr[b].size)
    OBVIOUS
  <2>2. PICK r : r = INSERT_FREE_BLOCK(h, b)
    OBVIOUS
  <2>3. PICK rk, top : /\ top \in Nat /\ \A x \in M : rk[x] < top
                    /\ Lists(h.node, h.matrix, h.slbitmap, h.flbitmap, Classes(h.hdr, M), rk)
    BY DEF Carries
  <2>4. PICK cl : cl = Classes(h.hdr, M)
    OBVIOUS
  <2>5. DOMAIN cl = M /\ Plus(cl, b, c) = Classes(h.hdr, M \cup {b})
    BY <2>1, <2>4 DEF Classes, Plus
  <2>6. h.hdr[b].size \in 1 .. PoolSize /\ h.hdr[b].size > 0 /\ c \in Class
    BY <1>1, <2>1, ClassInClass, Settings
  <2>7. /\ IsHeap(r) /\ r.hdr = h.hdr
        /\ r.node = LinkNode(h.node, b, h.matrix[c])
        /\ r.matrix = [h.matrix EXCEPT ![c] = b]
        /\ r.slbitmap = h.slbitmap \cup {c}
        /\ r.flbitmap = h.flbitmap \cup {c[1]}
        /\ r.free_size = h.free_size + h.hdr[b].size
    BY <1>1, <2>1, <2>2, InsertParts
  <2>8. Lists(r.node, r.matrix, r.slbitmap, r.flbitmap, Plus(cl, b, c), Plus(rk, b, top))
    <3>1. Lists(LinkNode(h.node, b, h.matrix[c]), [h.matrix EXCEPT ![c] = b],
               h.slbitmap \cup {c}, h.flbitmap \cup {c[1]}, Plus(cl, b, c), Plus(rk, b, top))
      BY <2>3, <2>4, <2>5, <2>6, ListsInsert
    <3> QED
      BY <2>7, <3>1
  <2>9. \A x \in M \cup {b} : Plus(rk, b, top)[x] < top + 1
    <3>1. DOMAIN rk = M /\ \A x \in M : rk[x] \in Nat
      BY <2>3, <2>4, <2>5 DEF Lists, Ranking
    <3>2. ASSUME NEW x \in M \cup {b} PROVE Plus(rk, b, top)[x] < top + 1
      <4>1. CASE x = b
        BY <2>3, <4>1 DEF Plus
      <4>2. CASE x # b
        <5>1. x \in M /\ Plus(rk, b, top)[x] = rk[x]
          BY <3>1, <4>2 DEF Plus
        <5> QED
          BY <2>3, <3>1, <5>1
      <4> QED
        BY <4>1, <4>2
    <3> QED
      BY <3>2
  <2>10. /\ IsFiniteSet(M \cup {b})
         /\ Cardinality(Held(h.hdr, M \cup {b})) = Cardinality(Held(h.hdr, M)) + h.hdr[b].size
    BY <2>6, HeldPlus DEF Carries
  <2>11. r.free_size = Cardinality(Held(r.hdr, M \cup {b}))
    BY <2>7, <2>10 DEF Carries
  <2>12. \A x \in M \cup {b} : r.hdr[x].size \in 1 .. PoolSize
    BY <2>6, <2>7 DEF Carries
  <2>13. Classes(r.hdr, M \cup {b}) = Plus(cl, b, c)
    BY <2>5, <2>7
  <2>14. top + 1 \in Nat
    BY <2>3
  <2>15. Carries(r, M \cup {b})
    BY <2>8, <2>9, <2>10, <2>11, <2>12, <2>13, <2>14 DEF Carries
  <2> QED
    BY <2>2, <2>6, <2>7, <2>15
<1>2. CASE h.hdr[b].size = 0
  <2>1. INSERT_FREE_BLOCK(h, b) = h
    BY <1>2 DEF INSERT_FREE_BLOCK, Size
  <2> QED
    BY <1>2, <2>1
<1> QED
  BY <1>1, <1>2

-----------------------------------------------------------------------------
(***************************************************************************)
(* The headers, as a function g.  While an operation is at work X are the  *)
(* headers that have not been told what the block before them is, and Y    *)
(* the blocks in hand: they are in no list, and may have free neighbours.  *)
(***************************************************************************)
Header == [prev : Nat \cup {Null}, size : Grain, free : BOOLEAN, prevFree : BOOLEAN]

Fol(g, b) == b + SIZE_ALIGN + g[b].size

Tiles(g) ==
    /\ g \in [DOMAIN g -> Header]
    /\ DOMAIN g \subseteq Grain \cap (0 .. End) /\ 0 \in DOMAIN g /\ End \in DOMAIN g
    /\ g[0].size = SIZE_ALIGN /\ ~g[0].free /\ g[End].size = 0 /\ ~g[End].free
    /\ \A b \in DOMAIN g \ {End} :
          Fol(g, b) \in DOMAIN g /\ \A x \in DOMAIN g : b < x => Fol(g, b) <= x

Linked(g, X) ==
    \A x \in DOMAIN g \ ({0} \cup X) :
        /\ g[x].prev \in DOMAIN g \ {End} /\ Fol(g, g[x].prev) = x
        /\ g[x].prevFree <=> g[g[x].prev].free

Merged(g, Y) ==
    \A b \in DOMAIN g \ ({End} \cup Y) :
        g[b].free /\ Fol(g, b) \notin Y => ~g[Fol(g, b)].free

Busy(g) == {b \in DOMAIN g : ~g[b].free}

(* Nothing happens to the busy blocks outside Z.                           *)
Kept(g, k, Z) ==
    /\ Busy(g) \ Z = Busy(k) \ Z
    /\ \A x \in Busy(g) \ Z : k[x].size = g[x].size

(* Where the first block and the last header lie.                          *)
LEMMA EndFacts == /\ End \in Grain /\ End \in Nat /\ End > 3 * SIZE_ALIGN
                  /\ Block0 \in Grain /\ Block0 \in Nat /\ Block0 < End /\ Block0 # 0
                  /\ PoolSize \in Grain /\ End + SIZE_ALIGN = PoolSize
<1>1. PoolSize \in Grain
  BY GrainIff, Settings
<1>2. SIZE_ALIGN \in Grain /\ SIZE_ALIGN \in Nat \ {0} /\ PoolSize \in Nat /\ PoolSize > 4 * SIZE_ALIGN
  BY GrainNat, Settings
<1>3. End \in Grain
  BY <1>1, <1>2, GrainSub DEF End
<1>4. 2 * SIZE_ALIGN \in Grain
  BY GrainTimes
<1> QED
  BY <1>1, <1>2, <1>3, <1>4 DEF End, Block0

(* What a header says of itself and of the addresses around it.            *)
LEMMA TileFacts ==
  ASSUME NEW g, Tiles(g), NEW b \in DOMAIN g
  PROVE  /\ g[b] \in Header /\ b \in Grain /\ b \in Nat /\ b <= End
         /\ g[b].size \in Grain /\ g[b].size \in 0 .. PoolSize
         /\ b # End => /\ b < End /\ Fol(g, b) \in DOMAIN g /\ Fol(g, b) \in Nat
                       /\ b + SIZE_ALIGN <= Fol(g, b) /\ Fol(g, b) <= End
                       /\ \A x \in DOMAIN g : x <= b \/ Fol(g, b) <= x
<1>1. g[b] \in Header /\ b \in Grain /\ b \in Nat /\ b <= End
  BY GrainNat DEF Tiles
<1>2. g[b].size \in Grain /\ g[b].size \in Nat
  BY <1>1, GrainNat DEF Header
<1>3. SIZE_ALIGN \in Nat \ {0} /\ End \in Nat /\ PoolSize = End + SIZE_ALIGN
  BY Settings, EndFacts
<1>4. \A x \in DOMAIN g : x \in Nat
  BY GrainNat DEF Tiles
<1>5. ASSUME b # End
      PROVE  /\ b < End /\ Fol(g, b) \in DOMAIN g /\ Fol(g, b) \in Nat
             /\ b + SIZE_ALIGN <= Fol(g, b) /\ Fol(g, b) <= End
             /\ \A x \in DOMAIN g : x <= b \/ Fol(g, b) <= x
  <2>1. Fol(g, b) \in DOMAIN g /\ \A x \in DOMAIN g : b < x => Fol(g, b) <= x
    BY <1>5 DEF Tiles
  <2>2. b < End
    BY <1>1, <1>3, <1>5
  <2>3. End \in DOMAIN g
    BY DEF Tiles
  <2>4. b + SIZE_ALIGN <= Fol(g, b)
    BY <1>1, <1>2, <1>3 DEF Fol
  <2>5. \A x \in DOMAIN g : x <= b \/ Fol(g, b) <= x
    BY <1>1, <1>4, <2>1
  <2> QED
    BY <1>4, <2>1, <2>2, <2>3, <2>4, <2>5
<1>6. g[b].size <= PoolSize
  <2>1. CASE b = End
    BY <1>3, <2>1 DEF Tiles
  <2>2. CASE b # End
    <3>1. Fol(g, b) <= End
      BY <1>5, <2>2
    <3> QED
      BY <1>1, <1>2, <1>3, <3>1 DEF Fol
  <2> QED
    BY <2>1, <2>2
<1> QED
  BY <1>1, <1>2, <1>3, <1>5, <1>6

(* Different blocks are followed by different headers.                     *)
LEMMA FolInjective ==
  ASSUME NEW g, Tiles(g), NEW b \in DOMAIN g \ {End}, NEW x \in DOMAIN g \ {End},
         Fol(g, b) = Fol(g, x)
  PROVE  b = x
<1>1. SIZE_ALIGN \in Nat \ {0}
  BY Settings
<1>2. /\ b \in Nat /\ x \in Nat /\ Fol(g, b) \in Nat
      /\ b < Fol(g, b) /\ x < Fol(g, x)
      /\ x <= b \/ Fol(g, b) <= x
      /\ b <= x \/ Fol(g, x) <= b
  BY <1>1, TileFacts
<1> QED
  BY <1>2

(* Nothing is followed by the first header or by itself.                   *)
LEMMA FolNotZero ==
  ASSUME NEW g, Tiles(g), NEW b \in DOMAIN g \ {End}
  PROVE  Fol(g, b) # 0 /\ Fol(g, b) # b
<1>1. SIZE_ALIGN \in Nat \ {0} /\ b \in Nat /\ Fol(g, b) \in Nat /\ b + SIZE_ALIGN <= Fol(g, b)
  BY Settings, TileFacts
<1> QED
  BY <1>1

(* What the header after a block says of it.                               *)
LEMMA LinkedForward ==
  ASSUME NEW g, NEW X, Tiles(g), Linked(g, X), NEW b \in DOMAIN g \ {End}, Fol(g, b) \notin X
  PROVE  g[Fol(g, b)].prev = b /\ (g[Fol(g, b)].prevFree <=> g[b].free)
<1>1. PICK n : n = Fol(g, b)
  OBVIOUS
<1>2. n \in DOMAIN g /\ n # 0 /\ n \notin X
  BY <1>1, TileFacts, FolNotZero
<1>3. /\ g[n].prev \in DOMAIN g \ {End} /\ Fol(g, g[n].prev) = n
      /\ g[n].prevFree <=> g[g[n].prev].free
  BY <1>2 DEF Linked
<1>4. g[n].prev = b
  BY <1>1, <1>3, FolInjective
<1> QED
  BY <1>1, <1>3, <1>4

-----------------------------------------------------------------------------
(* The changes that operations make to headers, k being what becomes of g. *)

(* Block b ends at s and another begins there.                             *)
IsCut(g, k, b, s) ==
    /\ k \in [DOMAIN g \cup {s} -> Header]
    /\ \A x \in DOMAIN g \ {b} : k[x] = g[x]
    /\ b + SIZE_ALIGN + k[b].size = s /\ s + SIZE_ALIGN + k[s].size = Fol(g, b)
    /\ k[b].prev = g[b].prev /\ k[b].prevFree = g[b].prevFree
    /\ k[s].prev = b /\ k[s].prevFree = k[b].free

(* Block n becomes part of b, the block before it.                         *)
IsGlue(g, k, b, n) ==
    /\ k \in [DOMAIN g \ {n} -> Header]
    /\ \A x \in DOMAIN g \ {b, n} : k[x] = g[x]
    /\ k[b].size = g[b].size + SIZE_ALIGN + g[n].size
    /\ k[b].prev = g[b].prev /\ k[b].prevFree = g[b].prevFree /\ k[b].free = g[b].free

(* Block b changes hands.                                                  *)
IsMark(g, k, b) ==
    /\ k \in [DOMAIN g -> Header]
    /\ \A x \in DOMAIN g \ {b} : k[x] = g[x]
    /\ k[b].size = g[b].size /\ k[b].prev = g[b].prev /\ k[b].prevFree = g[b].prevFree

(* The header after b is told what b is.                                   *)
IsTold(g, k, b) ==
    /\ k \in [DOMAIN g -> Header]
    /\ \A x \in DOMAIN g \ {Fol(g, b)} : k[x] = g[x]
    /\ k[Fol(g, b)].size = g[Fol(g, b)].size /\ k[Fol(g, b)].free = g[Fol(g, b)].free
    /\ k[Fol(g, b)].prev = b /\ k[Fol(g, b)].prevFree = g[b].free

(* A block that changes hands leaves only the header after it untold.      *)
LEMMA MarkKeeps ==
  ASSUME NEW g, NEW k, NEW X, NEW Y, Tiles(g), Linked(g, X), Merged(g, Y),
         NEW b \in DOMAIN g \ {0, End}, b \in Y, IsMark(g, k, b)
  PROVE  /\ Tiles(k) /\ Linked(k, X \cup {Fol(g, b)}) /\ Merged(k, Y) /\ Kept(g, k, {b})
         /\ DOMAIN k = DOMAIN g /\ \A x \in DOMAIN g : Fol(k, x) = Fol(g, x)
<1> DEFINE D == DOMAIN g
<1>1. DOMAIN k = D /\ 0 \in D /\ End \in D
  BY DEF IsMark, Tiles
<1>2. \A x \in D : k[x].size = g[x].size /\ k[x].prev = g[x].prev
                   /\ k[x].prevFree = g[x].prevFree /\ (x # b => k[x].free = g[x].free)
  BY DEF IsMark
<1>3. \A x \in D : Fol(k, x) = Fol(g, x)
  BY <1>2 DEF Fol
<1>4. Tiles(k)
  <2>1. k \in [D -> Header]
    BY DEF IsMark
  <2>2. k[0] = g[0] /\ k[End] = g[End]
    BY <1>1 DEF IsMark
  <2> QED
    BY <1>1, <1>3, <2>1, <2>2 DEF Tiles
<1>5. Linked(k, X \cup {Fol(g, b)})
  <2>1. SUFFICES ASSUME NEW x \in D \ ({0} \cup X), x # Fol(g, b)
                 PROVE  /\ k[x].prev \in D \ {End} /\ Fol(k, k[x].prev) = x
                        /\ k[x].prevFree <=> k[k[x].prev].free
    BY <1>1 DEF Linked
  <2>2. PICK p : p = g[x].prev
    OBVIOUS
  <2>3. p \in D \ {End} /\ Fol(g, p) = x /\ (g[x].prevFree <=> g[p].free)
    BY <2>1, <2>2 DEF Linked
  <2>4. p # b
    BY <2>1, <2>3
  <2> QED
    BY <1>2, <1>3, <2>2, <2>3, <2>4
<1>6. Merged(k, Y)
  <2>1. SUFFICES ASSUME NEW x \in D \ ({End} \cup Y), k[x].free, Fol(k, x) \notin Y
                 PROVE  ~k[Fol(k, x)].free
    BY <1>1 DEF Merged
  <2>2. x # b /\ Fol(g, x) # b /\ Fol(g, x) \in D /\ Fol(k, x) = Fol(g, x)
    BY <1>3, <2>1, TileFacts
  <2> QED
    BY <1>2, <2>1, <2>2 DEF Merged
<1>7. Kept(g, k, {b})
  BY <1>1, <1>2 DEF Kept, Busy
<1> QED
  BY <1>1, <1>3, <1>4, <1>5, <1>6, <1>7

(* A header told what is before it is linked again.                        *)
LEMMA ToldKeeps ==
  ASSUME NEW g, NEW k, NEW Y, Tiles(g), NEW b \in DOMAIN g \ {End}, Linked(g, {Fol(g, b)}),
         Merged(g, Y), IsTold(g, k, b)
  PROVE  /\ Tiles(k) /\ Linked(k, {}) /\ Merged(k, Y) /\ Kept(g, k, {})
         /\ DOMAIN k = DOMAIN g
         /\ \A x \in DOMAIN g : Fol(k, x) = Fol(g, x) /\ k[x].size = g[x].size
                                /\ k[x].free = g[x].free
         /\ k[b] = g[b]
<1> DEFINE D == DOMAIN g
<1>0. PICK n : n = Fol(g, b)
  OBVIOUS
<1>1. DOMAIN k = D /\ 0 \in D /\ End \in D /\ n \in D /\ n # 0 /\ n # b
  BY <1>0, TileFacts, FolNotZero DEF IsTold, Tiles
<1>2. /\ \A x \in D : k[x].size = g[x].size /\ k[x].free = g[x].free
      /\ \A x \in D \ {n} : k[x] = g[x]
      /\ k[n].prev = b /\ k[n].prevFree = g[b].free
  BY <1>0 DEF IsTold
<1>3. \A x \in D : Fol(k, x) = Fol(g, x)
  BY <1>2 DEF Fol
<1>4. Tiles(k)
  <2>1. k \in [D -> Header]
    BY DEF IsTold
  <2>2. k[0].size = g[0].size /\ k[End].size = g[End].size
        /\ k[0].free = g[0].free /\ k[End].free = g[End].free
    BY <1>1, <1>2
  <2> QED
    BY <1>1, <1>3, <2>1, <2>2 DEF Tiles
<1>5. Linked(k, {})
  <2>1. SUFFICES ASSUME NEW x \in D \ {0}
                 PROVE  /\ k[x].prev \in D \ {End} /\ Fol(k, k[x].prev) = x
                        /\ k[x].prevFree <=> k[k[x].prev].free
    BY <1>1 DEF Linked
  <2>2. CASE x = n
    <3>1. k[x].prev = b /\ k[x].prevFree = k[b].free
      BY <1>2, <2>2
    <3> QED
      BY <1>0, <1>3, <2>2, <3>1
  <2>3. CASE x # n
    <3>1. k[x] = g[x]
      BY <1>2, <2>3
    <3>2. PICK p : p = g[x].prev
      OBVIOUS
    <3>3. p \in D \ {End} /\ Fol(g, p) = x /\ (g[x].prevFree <=> g[p].free)
      BY <1>0, <2>1, <2>3, <3>2 DEF Linked
    <3>4. k[p].free = g[p].free /\ Fol(k, p) = x
      BY <1>2, <1>3, <3>3
    <3> QED
      BY <3>1, <3>2, <3>3, <3>4
  <2> QED
    BY <2>2, <2>3
<1>6. Merged(k, Y)
  <2>1. SUFFICES ASSUME NEW x \in D \ ({End} \cup Y), k[x].free, Fol(k, x) \notin Y
                 PROVE  ~k[Fol(k, x)].free
    BY <1>1 DEF Merged
  <2>2. Fol(g, x) \in D /\ Fol(k, x) = Fol(g, x)
    BY <1>3, <2>1, TileFacts
  <2> QED
    BY <1>2, <2>1, <2>2 DEF Merged
<1>7. Kept(g, k, {})
  BY <1>1, <1>2 DEF Kept, Busy
<1> QED
  BY <1>1, <1>2, <1>3, <1>4, <1>5, <1>6, <1>7

(* What holds after a cut and after a merge.                               *)
HasCut(g, k, X2, Y2, b, s) ==
    /\ s \notin DOMAIN g /\ DOMAIN k = DOMAIN g \cup {s}
    /\ Tiles(k) /\ Linked(k, X2) /\ Merged(k, Y2)
    /\ Kept(g, k, Y2) /\ Fol(k, b) = s /\ Fol(k, s) = Fol(g, b)

HasGlue(g, k, X2, Y, b, n) ==
    /\ DOMAIN k = DOMAIN g \ {n} /\ Tiles(k)
    /\ Linked(k, X2) /\ Merged(k, Y)
    /\ Kept(g, k, Y) /\ Fol(k, b) = Fol(g, n)

(* A cut leaves tiles; the header after the second part is untold.         *)
LEMMA CutKeeps ==
  ASSUME NEW g, NEW k, NEW X, NEW Y, Tiles(g), Linked(g, X), Merged(g, Y),
         NEW b \in DOMAIN g \ {0, End}, b \in Y, NEW s \in Grain,
         b + SIZE_ALIGN <= s, s + SIZE_ALIGN <= Fol(g, b), IsCut(g, k, b, s),
         NEW X2, X2 = X \cup {Fol(g, b)}, NEW Y2, Y2 = Y \cup {s}
  PROVE  HasCut(g, k, X2, Y2, b, s)
<1> DEFINE D == DOMAIN g
<1>0. PICK n : n = Fol(g, b)
  OBVIOUS
<1>1. /\ DOMAIN k = D \cup {s} /\ 0 \in D /\ End \in D /\ n \in D /\ D \subseteq Nat
      /\ s \in Nat /\ b \in Nat /\ n \in Nat /\ SIZE_ALIGN \in Nat \ {0} /\ n <= End
      /\ b + SIZE_ALIGN <= s /\ s + SIZE_ALIGN <= n /\ End \in Nat
  BY <1>0, TileFacts, GrainNat, Settings, EndFacts DEF IsCut, Tiles
<1>2. \A x \in D : x <= b \/ n <= x
  BY <1>0, TileFacts
<1>3. s \notin D /\ s # 0 /\ s < End /\ b < s /\ s < n
  <2>1. s # 0 /\ s < End /\ b < s /\ s < n
    BY <1>1
  <2> QED
    BY <1>1, <1>2, <2>1
<1>4. /\ \A x \in D \ {b} : k[x] = g[x]
      /\ k[b].prev = g[b].prev /\ k[b].prevFree = g[b].prevFree
      /\ k[s].prev = b /\ k[s].prevFree = k[b].free
  BY DEF IsCut
<1>5. Fol(k, b) = s /\ Fol(k, s) = n /\ \A x \in D \ {b} : Fol(k, x) = Fol(g, x)
  BY <1>0, <1>4 DEF IsCut, Fol
<1>6. Tiles(k)
  <2>1. ASSUME NEW x \in (D \cup {s}) \ {End}
        PROVE  Fol(k, x) \in D \cup {s} /\ \A y \in D \cup {s} : x < y => Fol(k, x) <= y
    <3>1. CASE x = b
      <4>1. ASSUME NEW y \in D, b < y PROVE s <= y
        BY <1>1, <1>2, <1>3, <4>1
      <4> QED
        BY <1>1, <1>5, <3>1, <4>1
    <3>2. CASE x = s
      <4>1. ASSUME NEW y \in D, s < y PROVE n <= y
        BY <1>1, <1>2, <1>3, <4>1
      <4> QED
        BY <1>1, <1>5, <3>2, <4>1
    <3>3. CASE x # b /\ x # s
      <4>1. x \in D \ {b, End} /\ Fol(k, x) = Fol(g, x) /\ Fol(g, x) \in D
            /\ \A y \in D : x < y => Fol(g, x) <= y
        BY <1>5, <3>3 DEF Tiles
      <4>2. ASSUME x < s PROVE Fol(g, x) <= s
        <5>1. x \in Nat /\ Fol(g, x) \in Nat
          BY <1>1, <4>1
        <5>2. x < b
          BY <1>1, <1>2, <1>3, <4>1, <4>2, <5>1
        <5>3. Fol(g, x) <= b
          BY <4>1, <5>2
        <5> QED
          BY <1>1, <1>3, <5>1, <5>3
      <4> QED
        BY <4>1, <4>2
    <3> QED
      BY <3>1, <3>2, <3>3
  <2>2. k \in [D \cup {s} -> Header]
    BY DEF IsCut
  <2>3. k[0] = g[0] /\ k[End] = g[End]
    BY <1>1, <1>4
  <2>4. D \cup {s} \subseteq Grain \cap (0 .. End)
    BY <1>1, <1>3 DEF Tiles
  <2> QED
    BY <1>1, <2>1, <2>2, <2>3, <2>4 DEF Tiles
<1>7. Linked(k, X \cup {n})
  <2>1. SUFFICES ASSUME NEW x \in (D \cup {s}) \ ({0} \cup X), x # n
                 PROVE  /\ k[x].prev \in (D \cup {s}) \ {End} /\ Fol(k, k[x].prev) = x
                        /\ k[x].prevFree <=> k[k[x].prev].free
    BY <1>1 DEF Linked
  <2>2. CASE x = s
    BY <1>4, <1>5, <2>2
  <2>3. CASE x # s
    <3>1. PICK p : p = g[x].prev
      OBVIOUS
    <3>2. p \in D \ {End} /\ Fol(g, p) = x /\ (g[x].prevFree <=> g[p].free)
      BY <2>1, <2>3, <3>1 DEF Linked
    <3>3. p # b
      BY <1>0, <2>1, <3>2
    <3>4. k[p] = g[p] /\ Fol(k, p) = x
      BY <1>4, <1>5, <3>2, <3>3
    <3>5. k[x].prev = p /\ k[x].prevFree = g[x].prevFree
      BY <1>4, <2>3, <3>1
    <3> QED
      BY <3>2, <3>4, <3>5
  <2> QED
    BY <2>2, <2>3
<1>8. Merged(k, Y \cup {s})
  <2>1. SUFFICES ASSUME NEW x \in D \ ({End} \cup Y), k[x].free, Fol(k, x) \notin Y, Fol(k, x) # s
                 PROVE  ~k[Fol(k, x)].free
    BY <1>1 DEF Merged
  <2>2. x # b /\ Fol(k, x) = Fol(g, x) /\ Fol(g, x) \in D /\ Fol(g, x) # b
    BY <1>5, <2>1, TileFacts
  <2> QED
    BY <1>4, <2>1, <2>2 DEF Merged
<1>9. Kept(g, k, Y2)
  BY <1>1, <1>4 DEF Kept, Busy
<1> QED
  BY <1>0, <1>1, <1>3, <1>5, <1>6, <1>7, <1>8, <1>9 DEF HasCut

(* Two neighbours made one leave tiles; the header after them is untold.   *)
LEMMA GlueKeeps ==
  ASSUME NEW g, NEW k, NEW X, NEW Y, Tiles(g), Linked(g, X), Merged(g, Y),
         NEW b \in DOMAIN g \ {0, End}, b \in Y, NEW n, n = Fol(g, b), n # End, IsGlue(g, k, b, n),
         n \in Y, NEW X2, X2 = (X \cup {Fol(g, n)}) \ {n}
  PROVE  HasGlue(g, k, X2, Y, b, n)
<1> DEFINE D == DOMAIN g
<1>1. n \in D \ {0, End, b} /\ DOMAIN k = D \ {n} /\ 0 \in D /\ End \in D
  BY TileFacts, FolNotZero DEF IsGlue, Tiles
<1>2. PICK m : m = Fol(g, n)
  OBVIOUS
<1>3. /\ m \in D /\ m \in Nat /\ n \in Nat /\ b \in Nat /\ SIZE_ALIGN \in Nat \ {0}
      /\ D \subseteq Nat /\ n + SIZE_ALIGN <= m
  BY <1>1, <1>2, TileFacts, GrainNat, Settings DEF Tiles
<1>4. /\ \A x \in D \ {b, n} : k[x] = g[x]
      /\ k[b].prev = g[b].prev /\ k[b].prevFree = g[b].prevFree /\ k[b].free = g[b].free
  BY DEF IsGlue
<1>5. Fol(k, b) = m /\ \A x \in D \ {b, n} : Fol(k, x) = Fol(g, x)
  <2>1. g[b].size \in Nat /\ g[n].size \in Nat
    BY <1>1, TileFacts, GrainNat
  <2>2. Fol(k, b) = m
    BY <1>2, <1>3, <2>1 DEF IsGlue, Fol
  <2> QED
    BY <1>4, <2>2 DEF Fol
<1>6. \A x \in D \ {b, End} : Fol(g, x) # n
  BY FolInjective
<1>7. Tiles(k)
  <2>1. ASSUME NEW x \in (D \ {n}) \ {End}
        PROVE  Fol(k, x) \in D \ {n} /\ \A y \in D \ {n} : x < y => Fol(k, x) <= y
    <3>1. CASE x = b
      <4>1. m # n
        BY <1>3
      <4>2. ASSUME NEW y \in D \ {n}, b < y PROVE m <= y
        <5>1. n <= y
          BY <4>2 DEF Tiles
        <5>2. n < y
          BY <1>3, <5>1
        <5> QED
          BY <1>1, <1>2, <5>2 DEF Tiles
      <4> QED
        BY <1>3, <1>5, <3>1, <4>1, <4>2
    <3>2. CASE x # b
      <4>1. Fol(k, x) = Fol(g, x) /\ Fol(g, x) \in D /\ Fol(g, x) # n
            /\ \A y \in D : x < y => Fol(g, x) <= y
        BY <1>5, <1>6, <3>2 DEF Tiles
      <4> QED
        BY <4>1
    <3> QED
      BY <3>1, <3>2
  <2>2. k \in [D \ {n} -> Header]
    BY DEF IsGlue
  <2>3. k[0] = g[0] /\ k[End] = g[End]
    BY <1>1, <1>4
  <2> QED
    BY <1>1, <2>1, <2>2, <2>3 DEF Tiles
<1>8. Linked(k, (X \cup {m}) \ {n})
  <2>1. SUFFICES ASSUME NEW x \in (D \ {n}) \ ({0} \cup X), x # m
                 PROVE  /\ k[x].prev \in (D \ {n}) \ {End} /\ Fol(k, k[x].prev) = x
                        /\ k[x].prevFree <=> k[k[x].prev].free
    BY <1>1 DEF Linked
  <2>2. PICK p : p = g[x].prev
    OBVIOUS
  <2>3. p \in D \ {End} /\ Fol(g, p) = x /\ (g[x].prevFree <=> g[p].free)
    BY <2>1, <2>2 DEF Linked
  <2>4. p # n /\ p # b
    BY <1>2, <2>1, <2>3
  <2>5. k[p] = g[p] /\ Fol(k, p) = x
    BY <1>4, <1>5, <2>3, <2>4
  <2>6. k[x].prev = p /\ k[x].prevFree = g[x].prevFree
    BY <1>4, <2>2
  <2> QED
    BY <2>3, <2>4, <2>5, <2>6
<1>9. Merged(k, Y)
  <2>1. SUFFICES ASSUME NEW x \in (D \ {n}) \ ({End} \cup Y), k[x].free, Fol(k, x) \notin Y
                 PROVE  ~k[Fol(k, x)].free
    BY <1>1 DEF Merged
  <2>2. x # b /\ Fol(k, x) = Fol(g, x) /\ Fol(g, x) \in D \ {n} /\ Fol(g, x) # b
    BY <1>5, <1>6, <2>1, TileFacts
  <2> QED
    BY <1>4, <2>1, <2>2 DEF Merged
<1>10. Kept(g, k, Y)
  BY <1>1, <1>4 DEF Kept, Busy
<1> QED
  BY <1>1, <1>2, <1>5, <1>7, <1>8, <1>9, <1>10 DEF HasGlue

-----------------------------------------------------------------------------
(* The heap in the middle of an operation, with X and Y as above.          *)
Members(g) == {b \in DOMAIN g : g[b].free /\ g[b].size > 0}

Sound(h, X, Y) ==
    /\ IsHeap(h) /\ Tiles(h.hdr) /\ Linked(h.hdr, X) /\ Merged(h.hdr, Y)
    /\ Carries(h, Members(h.hdr) \ Y)

(* A pool with other headers.                                              *)
LEMMA HdrParts ==
  ASSUME NEW h, IsHeap(h), NEW g, NEW k, k = [h EXCEPT !.hdr = g]
  PROVE  IsHeap(k) /\ SameLists(h, k) /\ k.hdr = g
<1>1. k = [hdr |-> g, node |-> h.node, matrix |-> h.matrix,
           slbitmap |-> h.slbitmap, flbitmap |-> h.flbitmap, free_size |-> h.free_size]
  BY DEF IsHeap
<1>2. /\ k.hdr = g /\ k.node = h.node /\ k.matrix = h.matrix
      /\ k.slbitmap = h.slbitmap /\ k.flbitmap = h.flbitmap /\ k.free_size = h.free_size
  BY <1>1
<1>3. IsHeap(k)
  BY <1>1 DEF IsHeap
<1> QED
  BY <1>2, <1>3 DEF SameLists

(* Only headers of h have changed.                                         *)
Rewritten(h, k) == IsHeap(k) /\ SameLists(h, k)

(* A change of headers that leaves the lists and their members alone.      *)
LEMMA HdrSound ==
  ASSUME NEW h, NEW X, NEW Y, Sound(h, X, Y), NEW k, Rewritten(h, k),
         NEW X2, NEW Y2, Tiles(k.hdr), Linked(k.hdr, X2), Merged(k.hdr, Y2),
         Members(k.hdr) \ Y2 = Members(h.hdr) \ Y,
         \A x \in Members(h.hdr) \ Y : k.hdr[x].size = h.hdr[x].size
  PROVE  Sound(k, X2, Y2)
<1>1. PICK M : M = Members(h.hdr) \ Y
  OBVIOUS
<1>2. Carries(h, M) /\ SameLists(h, k)
  BY <1>1 DEF Sound, Rewritten
<1>3. \A x \in M : k.hdr[x].size = h.hdr[x].size
  BY <1>1
<1>4. Carries(k, M)
  BY <1>2, <1>3, CarriesSame
<1> QED
  BY <1>1, <1>4 DEF Sound, Rewritten

(* A block in hand that is busy is like any other one.                     *)
LEMMA DropBusy ==
  ASSUME NEW h, NEW X, NEW Y, NEW b, ~h.hdr[b].free, Sound(h, X, Y \cup {b})
  PROVE  Sound(h, X, Y)
<1>1. Members(h.hdr) \ (Y \cup {b}) = Members(h.hdr) \ Y
  BY DEF Members
<1>2. Merged(h.hdr, Y)
  BY DEF Sound, Merged
<1> QED
  BY <1>1, <1>2 DEF Sound

(* A busy block may be taken in hand.                                      *)
LEMMA TakeBusy ==
  ASSUME NEW h, NEW X, NEW Y, NEW b, ~h.hdr[b].free, Sound(h, X, Y)
  PROVE  Sound(h, X, Y \cup {b})
<1>1. Members(h.hdr) \ (Y \cup {b}) = Members(h.hdr) \ Y
  BY DEF Members
<1>2. Merged(h.hdr, Y \cup {b})
  BY DEF Sound, Merged
<1> QED
  BY <1>1, <1>2 DEF Sound

(* Headers may be treated as untold that are not.                          *)
LEMMA MoreUntold ==
  ASSUME NEW h, NEW X, NEW Y, NEW Z, Sound(h, X, Y), X \subseteq Z
  PROVE  Sound(h, Z, Y)
<1>1. Linked(h.hdr, Z)
  BY DEF Sound, Linked
<1> QED
  BY <1>1 DEF Sound

(* A free block off its list is in hand.                                   *)
LEMMA RemoveSound ==
  ASSUME NEW h, NEW X, NEW Y, Sound(h, X, Y), NEW b \in DOMAIN h.hdr, h.hdr[b].free, b \notin Y,
         NEW r, r = REMOVE_HEADER(h, b, MAPPING_INSERT(Size(h, b)))
  PROVE  Sound(r, X, Y \cup {b}) /\ r.hdr = h.hdr
<1>1. h.hdr[b].size \in 0 .. PoolSize
  BY TileFacts DEF Sound
<1>2. b \in Members(h.hdr) \ Y \/ (h.hdr[b].size = 0 /\ b \notin Members(h.hdr) \ Y)
  BY <1>1, Settings DEF Members
<1>3. IsHeap(r) /\ r.hdr = h.hdr /\ Carries(r, (Members(h.hdr) \ Y) \ {b})
  BY <1>2, RemoveCarries DEF Sound
<1>4. (Members(h.hdr) \ Y) \ {b} = Members(h.hdr) \ (Y \cup {b})
  OBVIOUS
<1>5. Merged(h.hdr, Y \cup {b})
  BY DEF Sound, Merged
<1> QED
  BY <1>3, <1>4, <1>5 DEF Sound

(* A free block in hand without free neighbours goes on its list.          *)
LEMMA InsertSound ==
  ASSUME NEW h, NEW X, NEW b \in DOMAIN h.hdr \ {0, End}, Sound(h, X, {b}), h.hdr[b].free,
         b \notin X, ~h.hdr[b].prevFree, ~h.hdr[Fol(h.hdr, b)].free,
         NEW r, r = INSERT_FREE_BLOCK(h, b)
  PROVE  Sound(r, X, {}) /\ r.hdr = h.hdr
<1>1. h.hdr[b].size \in 0 .. PoolSize /\ b \in Nat
  BY TileFacts DEF Sound
<1>2. /\ IsHeap(r) /\ r.hdr = h.hdr
      /\ Carries(r, IF h.hdr[b].size > 0 THEN (Members(h.hdr) \ {b}) \cup {b}
                    ELSE Members(h.hdr) \ {b})
  BY <1>1, InsertCarries DEF Sound
<1>3. (IF h.hdr[b].size > 0 THEN (Members(h.hdr) \ {b}) \cup {b} ELSE Members(h.hdr) \ {b})
        = Members(h.hdr) \ {}
  BY <1>1 DEF Members
<1>4. Merged(h.hdr, {})
  <2>1. SUFFICES ASSUME NEW x \in DOMAIN h.hdr \ {End}, h.hdr[x].free
                 PROVE  ~h.hdr[Fol(h.hdr, x)].free
    BY DEF Merged
  <2>2. CASE x = b
    BY <2>2
  <2>3. CASE Fol(h.hdr, x) = b
    <3>1. h.hdr[b].prevFree <=> h.hdr[x].free
      BY <2>3, LinkedForward DEF Sound
    <3> QED
      BY <2>1, <3>1
  <2>4. CASE x # b /\ Fol(h.hdr, x) # b
    BY <2>1, <2>4 DEF Sound, Merged
  <2> QED
    BY <2>2, <2>3, <2>4
<1> QED
  BY <1>2, <1>3, <1>4 DEF Sound

(* What holds after a step of an operation, as one statement each.         *)

(* Block b has changed hands, and the header behind it is not told.        *)
MarkDone(h, k, X, b) ==
    /\ Sound(k, X \cup {Fol(h.hdr, b)}, {b}) /\ DOMAIN k.hdr = DOMAIN h.hdr
    /\ \A x \in DOMAIN h.hdr : Fol(k.hdr, x) = Fol(h.hdr, x)
    /\ \A x \in DOMAIN h.hdr \ {b} : k.hdr[x] = h.hdr[x]
    /\ k.hdr[b].size = h.hdr[b].size
    /\ k.hdr[b].prev = h.hdr[b].prev /\ k.hdr[b].prevFree = h.hdr[b].prevFree
    /\ Kept(h.hdr, k.hdr, {b}) /\ SameLists(h, k)

(* The header behind b is told what b is.                                  *)
ToldDone(h, k, Y, b) ==
    /\ Sound(k, {}, Y) /\ DOMAIN k.hdr = DOMAIN h.hdr /\ k.hdr[b] = h.hdr[b]
    /\ \A x \in DOMAIN h.hdr : /\ Fol(k.hdr, x) = Fol(h.hdr, x)
                               /\ k.hdr[x].size = h.hdr[x].size
                               /\ k.hdr[x].free = h.hdr[x].free
    /\ \A x \in DOMAIN h.hdr \ {Fol(h.hdr, b)} : k.hdr[x] = h.hdr[x]
    /\ Kept(h.hdr, k.hdr, {})

(* Block b ends at s, and another begins there.                            *)
CutDone(h, k, X, b, s) ==
    /\ Sound(k, X \cup {Fol(h.hdr, b)}, {b, s})
    /\ s \notin DOMAIN h.hdr /\ DOMAIN k.hdr = DOMAIN h.hdr \cup {s}
    /\ Fol(k.hdr, b) = s /\ Fol(k.hdr, s) = Fol(h.hdr, b)
    /\ \A x \in DOMAIN h.hdr \ {b} : k.hdr[x] = h.hdr[x]
    /\ k.hdr[b].prev = h.hdr[b].prev /\ k.hdr[b].prevFree = h.hdr[b].prevFree
    /\ Kept(h.hdr, k.hdr, {b, s})

(* Block n, which came after b, is part of b.                              *)
GlueDone(h, k, X, b, n) ==
    /\ Sound(k, (X \cup {Fol(h.hdr, n)}) \ {n}, {b})
    /\ Fol(k.hdr, b) = Fol(h.hdr, n) /\ DOMAIN k.hdr = DOMAIN h.hdr \ {n}
    /\ k.hdr[b].free = h.hdr[b].free /\ k.hdr[b].prevFree = h.hdr[b].prevFree
    /\ k.hdr[b].prev = h.hdr[b].prev
    /\ k.hdr[b].size = h.hdr[b].size + SIZE_ALIGN + h.hdr[n].size
    /\ \A x \in DOMAIN h.hdr \ {b, n} : k.hdr[x] = h.hdr[x]
    /\ Kept(h.hdr, k.hdr, {b, n})

(* One step of an operation after the other.                               *)
LEMMA MarkSound ==
  ASSUME NEW h, NEW X, NEW b \in DOMAIN h.hdr \ {0, End}, Sound(h, X, {b}),
         NEW k, Rewritten(h, k), IsMark(h.hdr, k.hdr, b)
  PROVE  MarkDone(h, k, X, b)
<1>1. PICK Y, e, g : Y = {b} /\ e = h.hdr /\ g = k.hdr
  OBVIOUS
<1>2. Tiles(e) /\ Linked(e, X) /\ Merged(e, Y) /\ b \in Y /\ b \in DOMAIN e \ {0, End}
      /\ IsMark(e, g, b)
  BY <1>1 DEF Sound
<1>3. /\ Tiles(g) /\ Linked(g, X \cup {Fol(e, b)}) /\ Merged(g, Y)
      /\ DOMAIN g = DOMAIN e /\ \A x \in DOMAIN e : Fol(g, x) = Fol(e, x)
      /\ Kept(e, g, {b})
  BY <1>2, MarkKeeps
<1>4. \A x \in DOMAIN e \ {b} : g[x] = e[x]
  BY <1>2 DEF IsMark
<1>5. Members(g) \ Y = Members(e) \ Y
  BY <1>1, <1>3, <1>4 DEF Members
<1>6. \A x \in Members(e) \ Y : g[x].size = e[x].size
  BY <1>1, <1>4 DEF Members
<1>7. Sound(k, X \cup {Fol(e, b)}, Y)
  BY <1>1, <1>3, <1>5, <1>6, HdrSound
<1>8. /\ g[b].size = e[b].size /\ g[b].prev = e[b].prev /\ g[b].prevFree = e[b].prevFree
      /\ SameLists(h, k)
  BY <1>2 DEF IsMark, Rewritten
<1> QED
  BY <1>1, <1>3, <1>4, <1>7, <1>8 DEF MarkDone

(* After TellNext nothing is untold.                                       *)
LEMMA ToldSound ==
  ASSUME NEW h, NEW Y, NEW b \in DOMAIN h.hdr \ {End}, Sound(h, {Fol(h.hdr, b)}, Y),
         NEW k, Rewritten(h, k), IsTold(h.hdr, k.hdr, b)
  PROVE  ToldDone(h, k, Y, b)
<1>1. PICK e, g : e = h.hdr /\ g = k.hdr
  OBVIOUS
<1>2. Tiles(e) /\ Linked(e, {Fol(e, b)}) /\ Merged(e, Y) /\ IsTold(e, g, b)
      /\ b \in DOMAIN e \ {End}
  BY <1>1 DEF Sound
<1>3. /\ Tiles(g) /\ Linked(g, {}) /\ Merged(g, Y) /\ DOMAIN g = DOMAIN e
      /\ \A x \in DOMAIN e : Fol(g, x) = Fol(e, x) /\ g[x].size = e[x].size
                             /\ g[x].free = e[x].free
      /\ g[b] = e[b] /\ Kept(e, g, {})
  BY <1>2, ToldKeeps
<1>4. Members(g) \ Y = Members(e) \ Y
  BY <1>3 DEF Members
<1>5. \A x \in Members(e) \ Y : g[x].size = e[x].size
  BY <1>3 DEF Members
<1>6. Sound(k, {}, Y)
  BY <1>1, <1>3, <1>4, <1>5, HdrSound
<1>7. \A x \in DOMAIN e \ {Fol(e, b)} : g[x] = e[x]
  BY <1>2 DEF IsTold
<1> QED
  BY <1>1, <1>3, <1>6, <1>7 DEF ToldDone

(* A cut of the block in hand leaves two blocks in hand.                   *)
LEMMA CutSound ==
  ASSUME NEW h, NEW X, NEW b \in DOMAIN h.hdr \ {0, End}, Sound(h, X, {b}),
         NEW s \in Grain, b + SIZE_ALIGN <= s, s + SIZE_ALIGN <= Fol(h.hdr, b),
         NEW k, Rewritten(h, k), IsCut(h.hdr, k.hdr, b, s)
  PROVE  CutDone(h, k, X, b, s)
<1>1. PICK Y, e, g : Y = {b} /\ e = h.hdr /\ g = k.hdr
  OBVIOUS
<1>2. Tiles(e) /\ Linked(e, X) /\ Merged(e, Y) /\ b \in Y /\ b \in DOMAIN e \ {0, End}
      /\ IsCut(e, g, b, s) /\ s + SIZE_ALIGN <= Fol(e, b)
  BY <1>1 DEF Sound
<1>3. PICK W, Z : W = X \cup {Fol(e, b)} /\ Z = Y \cup {s}
  OBVIOUS
<1>4. /\ s \notin DOMAIN e /\ DOMAIN g = DOMAIN e \cup {s}
      /\ Tiles(g) /\ Linked(g, W) /\ Merged(g, Z)
      /\ Fol(g, b) = s /\ Fol(g, s) = Fol(e, b) /\ Kept(e, g, Z)
  <2>1. HasCut(e, g, W, Z, b, s)
    BY <1>2, <1>3, CutKeeps
  <2> QED
    BY <2>1 DEF HasCut
<1>5. \A x \in DOMAIN e \ {b} : g[x] = e[x]
  BY <1>2 DEF IsCut
<1>6. Members(g) \ Z = Members(e) \ Y
  BY <1>1, <1>3, <1>4, <1>5 DEF Members
<1>7. \A x \in Members(e) \ Y : g[x].size = e[x].size
  BY <1>1, <1>5 DEF Members
<1>8. Sound(k, W, Z)
  BY <1>1, <1>4, <1>6, <1>7, HdrSound
<1>9. Z = {b, s}
  BY <1>1, <1>3
<1>10. g[b].prev = e[b].prev /\ g[b].prevFree = e[b].prevFree
  BY <1>2 DEF IsCut
<1> QED
  BY <1>1, <1>3, <1>4, <1>5, <1>8, <1>9, <1>10 DEF CutDone

(* Two blocks in hand made one leave one in hand.                          *)
LEMMA GlueSound ==
  ASSUME NEW h, NEW X, NEW b \in DOMAIN h.hdr \ {0, End}, NEW n, n = Fol(h.hdr, b), n # End,
         Sound(h, X, {b, n}), NEW k, Rewritten(h, k), IsGlue(h.hdr, k.hdr, b, n)
  PROVE  GlueDone(h, k, X, b, n)
<1>1. PICK Y, e, g : Y = {b, n} /\ e = h.hdr /\ g = k.hdr
  OBVIOUS
<1>2. Tiles(e) /\ Linked(e, X) /\ Merged(e, Y) /\ b \in Y /\ b \in DOMAIN e \ {0, End}
      /\ IsGlue(e, g, b, n) /\ n = Fol(e, b)
  BY <1>1 DEF Sound
<1>3. PICK W, Z : W = (X \cup {Fol(e, n)}) \ {n} /\ Z = {b}
  OBVIOUS
<1>4. /\ DOMAIN g = DOMAIN e \ {n} /\ Tiles(g) /\ Linked(g, W) /\ Merged(g, Y)
      /\ Kept(e, g, Y) /\ Fol(g, b) = Fol(e, n)
  <2>1. n \in Y
    BY <1>1
  <2>2. HasGlue(e, g, W, Y, b, n)
    BY <1>2, <1>3, <2>1, GlueKeeps
  <2> QED
    BY <2>2 DEF HasGlue
<1>5. Merged(g, Z)
  <2>1. SUFFICES ASSUME NEW x \in DOMAIN g \ ({End} \cup Z), g[x].free, Fol(g, x) \notin Z
                 PROVE  ~g[Fol(g, x)].free
    BY DEF Merged
  <2>2. Fol(g, x) \in DOMAIN g
    BY <1>4, TileFacts
  <2>3. x \notin Y /\ Fol(g, x) \notin Y
    BY <1>1, <1>3, <1>4, <2>1, <2>2
  <2> QED
    BY <1>4, <2>1, <2>3 DEF Merged
<1>6. \A x \in DOMAIN e \ {b, n} : g[x] = e[x]
  BY <1>2 DEF IsGlue
<1>7. Members(g) \ Z = Members(e) \ Y
  BY <1>1, <1>3, <1>4, <1>6 DEF Members
<1>8. \A x \in Members(e) \ Y : g[x].size = e[x].size
  BY <1>1, <1>6 DEF Members
<1>9. Sound(k, W, Z)
  BY <1>1, <1>4, <1>5, <1>7, <1>8, HdrSound
<1>10. /\ g[b].prev = e[b].prev /\ g[b].prevFree = e[b].prevFree /\ g[b].free = e[b].free
       /\ g[b].size = e[b].size + SIZE_ALIGN + e[n].size
  BY <1>2 DEF IsGlue
<1> QED
  BY <1>1, <1>3, <1>4, <1>6, <1>9, <1>10 DEF GlueDone

-----------------------------------------------------------------------------
(* The operators of the model that rewrite headers, as such changes.       *)

(* Two rewritings are one.                                                 *)
LEMMA RewrittenTwice ==
  ASSUME NEW h, NEW k, NEW l, Rewritten(h, k), Rewritten(k, l)
  PROVE  Rewritten(h, l)
  BY DEF Rewritten, SameLists

(* Other headers, the same lists.                                          *)
LEMMA HdrRewritten ==
  ASSUME NEW h, IsHeap(h), NEW g, NEW k, k = [h EXCEPT !.hdr = g]
  PROVE  Rewritten(h, k) /\ k.hdr = g
  BY HdrParts DEF Rewritten

(* What the operators of the model make of the headers.                    *)
SizedHdr(g, b, n)   == [g EXCEPT ![b].size = n]
PutHdr(g, b, r)     == [x \in DOMAIN g \cup {b} |-> IF x = b THEN r ELSE g[x]]
FreedHdr(g, b, f)   == [g EXCEPT ![b].free = f]
LinkedHdr(g, b)     == [g EXCEPT ![Fol(g, b)].prevFree = TRUE, ![Fol(g, b)].prev = b]
GluedHdr(g, b, n)   ==
    [x \in DOMAIN g \ {n} |->
        IF x = b THEN [g[b] EXCEPT !.size = @ + g[n].size + SIZE_ALIGN] ELSE g[x]]

(* k is h with the headers g.                                              *)
HasHdr(h, k, g) == Rewritten(h, k) /\ k.hdr = g

(* SetSize changes one header.                                             *)
LEMMA SetSizeParts ==
  ASSUME NEW h, IsHeap(h), NEW b, NEW n
  PROVE  HasHdr(h, SetSize(h, b, n), SizedHdr(h.hdr, b, n))
<1>1. SetSize(h, b, n) = [h EXCEPT !.hdr = SizedHdr(h.hdr, b, n)]
  BY DEF SetSize, SizedHdr
<1> QED
  BY <1>1, HdrRewritten DEF HasHdr

(* Put adds or replaces one header.                                        *)
LEMMA PutParts ==
  ASSUME NEW h, IsHeap(h), NEW b, NEW r
  PROVE  HasHdr(h, Put(h, b, r), PutHdr(h.hdr, b, r))
<1>1. Put(h, b, r) = [h EXCEPT !.hdr = PutHdr(h.hdr, b, r)]
  BY DEF Put, PutHdr
<1> QED
  BY <1>1, HdrRewritten DEF HasHdr

FreeSet(h, b, f) == [h EXCEPT !.hdr[b].free = f]

(* A flag set changes one header.                                          *)
LEMMA FreeSetParts ==
  ASSUME NEW h, IsHeap(h), NEW b, NEW f
  PROVE  HasHdr(h, FreeSet(h, b, f), FreedHdr(h.hdr, b, f))
<1>1. FreeSet(h, b, f) = [h EXCEPT !.hdr = FreedHdr(h.hdr, b, f)]
  BY DEF FreeSet, FreedHdr
<1> QED
  BY <1>1, HdrRewritten DEF HasHdr

(* TellNext changes the header after a block.                              *)
LEMMA TellNextParts ==
  ASSUME NEW h, IsHeap(h), NEW b
  PROVE  HasHdr(h, TellNext(h, b), LinkedHdr(h.hdr, b))
<1>1. Following(h, b) = Fol(h.hdr, b)
  BY DEF Following, Fol
<1>2. TellNext(h, b) = [h EXCEPT !.hdr = LinkedHdr(h.hdr, b)]
  BY <1>1 DEF TellNext, LinkedHdr, IsHeap
<1> QED
  BY <1>2, HdrRewritten DEF HasHdr

(* MERGE removes a header and lengthens the one before it.                 *)
LEMMA MergeParts ==
  ASSUME NEW h, IsHeap(h), NEW b, NEW n
  PROVE  HasHdr(h, MERGE(h, b, n), GluedHdr(h.hdr, b, n))
<1>1. MERGE(h, b, n) = [h EXCEPT !.hdr = GluedHdr(h.hdr, b, n)]
  BY DEF MERGE, GluedHdr
<1> QED
  BY <1>1, HdrRewritten DEF HasHdr

-----------------------------------------------------------------------------
(* A header with one field changed.                                        *)
LEMMA WithSize ==
  ASSUME NEW r \in Header, NEW n \in Grain, NEW s, s = [r EXCEPT !.size = n]
  PROVE  /\ s \in Header /\ s.size = n /\ s.prev = r.prev
         /\ s.free = r.free /\ s.prevFree = r.prevFree
  BY DEF Header

(* A header with another flag.                                             *)
LEMMA WithFree ==
  ASSUME NEW r \in Header, NEW f \in BOOLEAN, NEW s, s = [r EXCEPT !.free = f]
  PROVE  /\ s \in Header /\ s.size = r.size /\ s.prev = r.prev
         /\ s.free = f /\ s.prevFree = r.prevFree
  BY DEF Header

(* A header with another link back.                                        *)
LEMMA WithLink ==
  ASSUME NEW r \in Header, NEW b \in Nat, NEW f \in BOOLEAN,
         NEW s, s = [r EXCEPT !.prevFree = f, !.prev = b]
  PROVE  /\ s \in Header /\ s.size = r.size /\ s.prev = b
         /\ s.free = r.free /\ s.prevFree = f
  BY DEF Header

(* To set the flag is to mark a block.                                     *)
LEMMA IsMarkFree ==
  ASSUME NEW g, g \in [DOMAIN g -> Header], NEW b \in DOMAIN g, NEW f \in BOOLEAN,
         NEW k, k = [g EXCEPT ![b].free = f]
  PROVE  IsMark(g, k, b) /\ k[b].free = f
<1>1. PICK r : r = [g[b] EXCEPT !.free = f]
  OBVIOUS
<1>2. /\ r \in Header /\ r.size = g[b].size /\ r.prev = g[b].prev
      /\ r.free = f /\ r.prevFree = g[b].prevFree
  BY <1>1, WithFree
<1>3. k = [g EXCEPT ![b] = r]
  BY <1>1
<1>4. k \in [DOMAIN g -> Header] /\ k[b] = r /\ \A x \in DOMAIN g \ {b} : k[x] = g[x]
  BY <1>2, <1>3
<1> QED
  BY <1>2, <1>4 DEF IsMark

(* A header rewritten so is told.                                          *)
LEMMA ToldBy ==
  ASSUME NEW g, g \in [DOMAIN g -> Header], NEW b \in Nat, NEW n \in DOMAIN g, n = Fol(g, b),
         NEW r \in Header, r.size = g[n].size, r.free = g[n].free,
         r.prev = b, r.prevFree = g[b].free, NEW k, k = [g EXCEPT ![n] = r]
  PROVE  IsTold(g, k, b)
<1>1. k \in [DOMAIN g -> Header] /\ k[n] = r /\ \A x \in DOMAIN g \ {n} : k[x] = g[x]
  OBVIOUS
<1> QED
  BY <1>1 DEF IsTold

(* Two headers written so cut a block.                                     *)
LEMMA CutBy ==
  ASSUME NEW g, g \in [DOMAIN g -> Header], NEW b \in DOMAIN g, NEW s, s # b, s \notin DOMAIN g,
         NEW r1 \in Header, NEW r2 \in Header,
         b + SIZE_ALIGN + r1.size = s, s + SIZE_ALIGN + r2.size = Fol(g, b),
         r1.prev = g[b].prev, r1.prevFree = g[b].prevFree, r2.prev = b, r2.prevFree = r1.free,
         NEW k, k = [x \in DOMAIN g \cup {s} |->
                       IF x = s THEN r2 ELSE IF x = b THEN r1 ELSE g[x]]
  PROVE  IsCut(g, k, b, s) /\ k[b] = r1 /\ k[s] = r2
<1>1. k[b] = r1 /\ k[s] = r2 /\ \A x \in DOMAIN g \ {b} : k[x] = g[x]
  OBVIOUS
<1>2. k \in [DOMAIN g \cup {s} -> Header]
  <2>1. \A x \in DOMAIN g \cup {s} : k[x] \in Header
    BY <1>1
  <2> QED
    BY <2>1
<1> QED
  BY <1>1, <1>2 DEF IsCut

(* A header lengthened so makes two blocks one.                            *)
LEMMA GlueBy ==
  ASSUME NEW g, g \in [DOMAIN g -> Header], NEW b \in DOMAIN g, NEW n \in DOMAIN g, n # b,
         NEW r \in Header, r.size = g[b].size + SIZE_ALIGN + g[n].size, r.free = g[b].free,
         r.prev = g[b].prev, r.prevFree = g[b].prevFree,
         NEW k, k = [x \in DOMAIN g \ {n} |-> IF x = b THEN r ELSE g[x]]
  PROVE  IsGlue(g, k, b, n)
<1>1. k[b] = r /\ \A x \in DOMAIN g \ {b, n} : k[x] = g[x]
  OBVIOUS
<1>2. k \in [DOMAIN g \ {n} -> Header]
  <2>1. \A x \in DOMAIN g \ {n} : k[x] \in Header
    BY <1>1
  <2> QED
    BY <2>1
<1> QED
  BY <1>1, <1>2 DEF IsGlue

-----------------------------------------------------------------------------
(* Steps of the operations on a sound heap.                                *)

Typed(h) == h.hdr \in [DOMAIN h.hdr -> Header]

(* The headers of a sound pool are headers.                                *)
LEMMA SoundTyped ==
  ASSUME NEW h, NEW X, NEW Y, Sound(h, X, Y)
  PROVE  IsHeap(h) /\ Tiles(h.hdr) /\ Typed(h)
  BY DEF Sound, Tiles, Typed

(* A block is marked free or busy.                                         *)
LEMMA FreeSetSound ==
  ASSUME NEW h, NEW X, NEW b \in DOMAIN h.hdr \ {0, End}, Sound(h, X, {b}),
         NEW f \in BOOLEAN, NEW k, k = FreeSet(h, b, f)
  PROVE  MarkDone(h, k, X, b) /\ k.hdr[b].free = f
<1>1. IsHeap(h) /\ Typed(h)
  BY SoundTyped
<1>2. HasHdr(h, k, FreedHdr(h.hdr, b, f))
  BY <1>1, FreeSetParts
<1>3. Rewritten(h, k) /\ k.hdr = [h.hdr EXCEPT ![b].free = f]
  BY <1>2 DEF HasHdr, FreedHdr
<1>4. PICK g, e : g = h.hdr /\ e = k.hdr
  OBVIOUS
<1>5. g \in [DOMAIN g -> Header] /\ b \in DOMAIN g /\ e = [g EXCEPT ![b].free = f]
  BY <1>1, <1>3, <1>4 DEF Typed
<1>6. IsMark(g, e, b) /\ e[b].free = f
  BY <1>5, IsMarkFree, ZenonT(40)
<1>7. MarkDone(h, k, X, b)
  BY <1>3, <1>4, <1>6, MarkSound, ZenonT(40)
<1> QED
  BY <1>4, <1>6, <1>7

(* The header behind a block is told what the block is.                    *)
LEMMA RecordTold ==
  ASSUME NEW h, NEW Y, NEW b \in DOMAIN h.hdr \ {End}, Sound(h, {Fol(h.hdr, b)}, Y),
         NEW k, Rewritten(h, k), NEW n, n = Fol(h.hdr, b),
         NEW r \in Header, r.size = h.hdr[n].size, r.free = h.hdr[n].free,
         r.prev = b, r.prevFree = h.hdr[b].free, k.hdr = [h.hdr EXCEPT ![n] = r]
  PROVE  ToldDone(h, k, Y, b)
<1>1. IsHeap(h) /\ Typed(h) /\ Tiles(h.hdr)
  BY SoundTyped
<1>2. n \in DOMAIN h.hdr /\ b \in Nat
  BY <1>1, TileFacts
<1>3. PICK g, e : g = h.hdr /\ e = k.hdr
  OBVIOUS
<1>4. /\ g \in [DOMAIN g -> Header] /\ b \in Nat /\ n \in DOMAIN g /\ n = Fol(g, b)
      /\ r.size = g[n].size /\ r.free = g[n].free /\ r.prevFree = g[b].free
      /\ e = [g EXCEPT ![n] = r]
  BY <1>1, <1>2, <1>3 DEF Typed
<1>5. IsTold(g, e, b)
  BY <1>4, ToldBy
<1>6. IsTold(h.hdr, k.hdr, b)
  BY <1>3, <1>5
<1> QED
  BY <1>6, ToldSound

(* TellNext in the middle of an operation.                                 *)
LEMMA TellNextSound ==
  ASSUME NEW h, NEW Y, NEW b \in DOMAIN h.hdr \ {End}, Sound(h, {Fol(h.hdr, b)}, Y),
         h.hdr[b].free, NEW k, k = TellNext(h, b)
  PROVE  ToldDone(h, k, Y, b)
<1>1. IsHeap(h) /\ Typed(h) /\ Tiles(h.hdr)
  BY SoundTyped
<1>2. PICK n : n = Fol(h.hdr, b)
  OBVIOUS
<1>3. n \in DOMAIN h.hdr /\ b \in Nat /\ h.hdr[b] \in Header /\ h.hdr[n] \in Header
  BY <1>1, <1>2, TileFacts
<1>4. HasHdr(h, k, LinkedHdr(h.hdr, b))
  BY <1>1, TellNextParts
<1>5. Rewritten(h, k) /\ k.hdr = [h.hdr EXCEPT ![n].prevFree = TRUE, ![n].prev = b]
  BY <1>2, <1>4 DEF HasHdr, LinkedHdr
<1>6. PICK q, r : q = h.hdr[n] /\ r = [q EXCEPT !.prevFree = TRUE, !.prev = b]
  OBVIOUS
<1>7. q \in Header
  BY <1>3, <1>6
<1>8. /\ r \in Header /\ r.size = q.size /\ r.prev = b
      /\ r.free = q.free /\ r.prevFree = TRUE
  BY <1>3, <1>6, <1>7 DEF Header
<1>9. k.hdr = [h.hdr EXCEPT ![n] = r]
  BY <1>1, <1>3, <1>5, <1>6 DEF Typed
<1>10. h.hdr[b].free = TRUE
  BY <1>3 DEF Header
<1>11. r.size = h.hdr[n].size /\ r.free = h.hdr[n].free /\ r.prevFree = h.hdr[b].free
  BY <1>6, <1>8, <1>10
<1> QED
  BY <1>2, <1>5, <1>8, <1>9, <1>11, RecordTold

(* A block becomes part of the one before it.                              *)
LEMMA MergeSound ==
  ASSUME NEW h, NEW X, NEW b \in DOMAIN h.hdr \ {0, End}, NEW n, n = Fol(h.hdr, b), n # End,
         Sound(h, X, {b, n}), NEW k, k = MERGE(h, b, n)
  PROVE  GlueDone(h, k, X, b, n)
<1>1. IsHeap(h) /\ Typed(h) /\ Tiles(h.hdr)
  BY SoundTyped
<1>2. n \in DOMAIN h.hdr /\ n # b
  BY <1>1, TileFacts, FolNotZero
<1>3. PICK g, e : g = h.hdr /\ e = k.hdr
  OBVIOUS
<1>4. g \in [DOMAIN g -> Header] /\ b \in DOMAIN g /\ n \in DOMAIN g /\ g[b] \in Header
  BY <1>1, <1>2, <1>3 DEF Typed
<1>5. HasHdr(h, k, GluedHdr(h.hdr, b, n))
  BY <1>1, MergeParts
<1>6. PICK w : w = g[b].size + g[n].size + SIZE_ALIGN
  OBVIOUS
<1>7. w \in Grain /\ w = g[b].size + SIZE_ALIGN + g[n].size
  <2>1. g[b].size \in Grain /\ g[n].size \in Grain /\ SIZE_ALIGN \in Grain
    BY <1>1, <1>3, <1>4, TileFacts, GrainNat
  <2>2. g[b].size + g[n].size \in Grain
    BY <2>1, GrainAdd
  <2>3. w \in Grain
    BY <1>6, <2>1, <2>2, GrainAdd
  <2>4. g[b].size \in Nat /\ g[n].size \in Nat /\ SIZE_ALIGN \in Nat
    BY <2>1, GrainNat
  <2> QED
    BY <1>6, <2>3, <2>4
<1>8. PICK r : r = [g[b] EXCEPT !.size = w]
  OBVIOUS
<1>9. /\ r \in Header /\ r.size = w /\ r.prev = g[b].prev
      /\ r.free = g[b].free /\ r.prevFree = g[b].prevFree
  BY <1>4, <1>7, <1>8, WithSize
<1>10. e = GluedHdr(g, b, n) /\ Rewritten(h, k)
  BY <1>3, <1>5 DEF HasHdr
<1>11. e = [x \in DOMAIN g \ {n} |-> IF x = b THEN r ELSE g[x]]
  BY <1>6, <1>8, <1>10 DEF GluedHdr
<1>12. r.size = g[b].size + SIZE_ALIGN + g[n].size
  BY <1>7, <1>9
<1>13. IsGlue(g, e, b, n)
  BY <1>2, <1>4, <1>9, <1>11, <1>12, GlueBy
<1>14. IsGlue(h.hdr, k.hdr, b, n)
  BY <1>3, <1>13
<1> QED
  BY <1>10, <1>14, GlueSound

(* Where a block may be cut.                                               *)
LEMMA CutPoint ==
  ASSUME NEW h, NEW X, NEW Y, Sound(h, X, Y), NEW b \in DOMAIN h.hdr \ {End},
         NEW n \in Grain, NEW m \in Grain, NEW s, s = b + SIZE_ALIGN + n,
         s + SIZE_ALIGN + m = Fol(h.hdr, b)
  PROVE  /\ s \in Grain /\ s # b /\ s \notin DOMAIN h.hdr
         /\ b + SIZE_ALIGN <= s /\ s + SIZE_ALIGN <= Fol(h.hdr, b)
<1>1. PICK g, f : g = h.hdr /\ f = Fol(g, b)
  OBVIOUS
<1>2. Tiles(g) /\ b \in DOMAIN g \ {End}
  BY <1>1 DEF Sound
<1>3. b \in Grain /\ b \in Nat /\ \A x \in DOMAIN g : x <= b \/ f <= x
  BY <1>1, <1>2, TileFacts
<1>4. SIZE_ALIGN \in Grain /\ SIZE_ALIGN \in Nat \ {0} /\ n \in Nat /\ m \in Nat
  BY Settings, GrainNat
<1>5. b + SIZE_ALIGN \in Grain
  BY <1>3, <1>4, GrainAdd
<1>6. s \in Grain
  BY <1>5, GrainAdd
<1>7. s \in Nat /\ b < s /\ s < f /\ b + SIZE_ALIGN <= s /\ s + SIZE_ALIGN <= f /\ f \in Nat
  BY <1>1, <1>3, <1>4
<1>8. ASSUME s \in DOMAIN g PROVE FALSE
  BY <1>3, <1>7, <1>8
<1> QED
  BY <1>1, <1>6, <1>7, <1>8

(* The end of a busy block becomes a free one.                             *)
RestDone(h, k, X, b, s, n, m) ==
    /\ CutDone(h, k, X, b, s)
    /\ ~k.hdr[b].free /\ k.hdr[b].size = n
    /\ k.hdr[s].free /\ ~k.hdr[s].prevFree /\ k.hdr[s].size = m

(* The rest of a block written down as a free block.                       *)
LEMMA FreeBlockSound ==
  ASSUME NEW h, NEW X, NEW b \in DOMAIN h.hdr \ {0, End}, Sound(h, X, {b}), ~h.hdr[b].free,
         NEW n \in Grain, NEW m \in Grain, NEW s, s = b + SIZE_ALIGN + n,
         s + SIZE_ALIGN + m = Fol(h.hdr, b),
         NEW k, k = FreeBlock(SetSize(h, b, n), s, m, b)
  PROVE  RestDone(h, k, X, b, s, n, m)
<1>1. IsHeap(h) /\ Typed(h) /\ Tiles(h.hdr)
  BY SoundTyped
<1>2. PICK g, e, j, r1, r2 :
        /\ g = h.hdr /\ e = k.hdr /\ j = SetSize(h, b, n)
        /\ r1 = [g[b] EXCEPT !.size = n]
        /\ r2 = [prev |-> b, size |-> m, free |-> TRUE, prevFree |-> FALSE]
  OBVIOUS
<1>3. g \in [DOMAIN g -> Header] /\ b \in DOMAIN g /\ g[b] \in Header /\ b \in Nat
  BY <1>1, <1>2, TileFacts DEF Typed
<1>4. /\ r1 \in Header /\ r1.size = n /\ r1.prev = g[b].prev
      /\ r1.free = g[b].free /\ r1.prevFree = g[b].prevFree
  BY <1>2, <1>3, WithSize
<1>5. /\ r2 \in Header /\ r2.size = m /\ r2.prev = b /\ r2.free = TRUE /\ r2.prevFree = FALSE
  BY <1>2, <1>3 DEF Header
<1>6. HasHdr(h, j, SizedHdr(g, b, n))
  BY <1>1, <1>2, SetSizeParts
<1>7. HasHdr(j, k, PutHdr(j.hdr, s, r2))
  <2>1. k = Put(j, s, r2)
    BY <1>2 DEF FreeBlock
  <2>2. IsHeap(j)
    BY <1>6 DEF HasHdr, Rewritten
  <2> QED
    BY <2>1, <2>2, PutParts
<1>8. Rewritten(h, k) /\ e = PutHdr(SizedHdr(g, b, n), s, r2)
  BY <1>2, <1>6, <1>7, RewrittenTwice DEF HasHdr
<1>9. e = [x \in DOMAIN g \cup {s} |-> IF x = s THEN r2 ELSE IF x = b THEN r1 ELSE g[x]]
  <2>1. SizedHdr(g, b, n) = [x \in DOMAIN g |-> IF x = b THEN r1 ELSE g[x]]
    BY <1>2, <1>3 DEF SizedHdr
  <2> QED
    BY <1>8, <2>1 DEF PutHdr
<1>10. /\ s \in Grain /\ s # b /\ s \notin DOMAIN g
       /\ b + SIZE_ALIGN <= s /\ s + SIZE_ALIGN <= Fol(g, b)
  BY <1>2, CutPoint
<1>11. r2.prevFree = r1.free
  <2>1. g[b].free = FALSE
    BY <1>2, <1>3 DEF Header
  <2> QED
    BY <1>4, <1>5, <2>1
<1>12. IsCut(g, e, b, s) /\ e[b] = r1 /\ e[s] = r2
  <2>1. b + SIZE_ALIGN + r1.size = s /\ s + SIZE_ALIGN + r2.size = Fol(g, b)
    BY <1>2, <1>4, <1>5
  <2> QED
    BY <1>3, <1>4, <1>5, <1>9, <1>10, <1>11, <2>1, CutBy
<1>13. CutDone(h, k, X, b, s)
  <2>1. IsCut(h.hdr, k.hdr, b, s) /\ b + SIZE_ALIGN <= s /\ s + SIZE_ALIGN <= Fol(h.hdr, b)
    BY <1>2, <1>10, <1>12
  <2> QED
    BY <1>8, <1>10, <2>1, CutSound
<1> QED
  BY <1>2, <1>4, <1>5, <1>11, <1>12, <1>13 DEF RestDone

(* The beginning of a busy block becomes a free one.                       *)
BeginCut(h, b, a, n) ==
    [Put(SetSize(h, b, a - b - SIZE_ALIGN), a,
         [prev |-> b, size |-> n, free |-> FALSE, prevFree |-> TRUE]) EXCEPT !.hdr[b].free = TRUE]

BeginDone(h, k, X, b, s, m) ==
    /\ CutDone(h, k, X, b, s)
    /\ k.hdr[b].free /\ ~k.hdr[s].free /\ k.hdr[s].size = m
    /\ k.hdr[b].size = s - b - SIZE_ALIGN

(* The beginning of a block cut off.                                       *)
LEMMA BeginCutSound ==
  ASSUME NEW h, NEW X, NEW b \in DOMAIN h.hdr \ {0, End}, Sound(h, X, {b}),
         NEW n \in Grain, NEW m \in Grain, NEW s, s = b + SIZE_ALIGN + n,
         s + SIZE_ALIGN + m = Fol(h.hdr, b),
         NEW k, k = BeginCut(h, b, s, m)
  PROVE  BeginDone(h, k, X, b, s, m)
<1>1. IsHeap(h) /\ Typed(h) /\ Tiles(h.hdr)
  BY SoundTyped
<1>2. PICK g, e, j, l, r0, r1, r2 :
        /\ g = h.hdr /\ e = k.hdr /\ j = SetSize(h, b, n) /\ l = Put(j, s, r2)
        /\ r0 = [g[b] EXCEPT !.size = n] /\ r1 = [r0 EXCEPT !.free = TRUE]
        /\ r2 = [prev |-> b, size |-> m, free |-> FALSE, prevFree |-> TRUE]
  OBVIOUS
<1>3. g \in [DOMAIN g -> Header] /\ b \in DOMAIN g /\ g[b] \in Header /\ b \in Nat
      /\ n \in Nat /\ SIZE_ALIGN \in Nat
  BY <1>1, <1>2, TileFacts, GrainNat, Settings DEF Typed
<1>4. s - b - SIZE_ALIGN = n
  BY <1>3
<1>5. /\ r1 \in Header /\ r1.size = n /\ r1.prev = g[b].prev
      /\ r1.free = TRUE /\ r1.prevFree = g[b].prevFree
  <2>1. /\ r0 \in Header /\ r0.size = n /\ r0.prev = g[b].prev
        /\ r0.prevFree = g[b].prevFree
    BY <1>2, <1>3, WithSize
  <2> QED
    BY <1>2, <2>1 DEF Header
<1>6. /\ r2 \in Header /\ r2.size = m /\ r2.prev = b /\ r2.free = FALSE /\ r2.prevFree = TRUE
  BY <1>2, <1>3 DEF Header
<1>7. HasHdr(h, j, SizedHdr(g, b, n))
  BY <1>1, <1>2, SetSizeParts
<1>8. HasHdr(j, l, PutHdr(j.hdr, s, r2))
  <2>1. IsHeap(j)
    BY <1>7 DEF HasHdr, Rewritten
  <2> QED
    BY <1>2, <2>1, PutParts
<1>9. HasHdr(l, k, FreedHdr(l.hdr, b, TRUE))
  <2>1. k = FreeSet(l, b, TRUE)
    BY <1>2, <1>4 DEF BeginCut, FreeSet
  <2>2. IsHeap(l)
    BY <1>8 DEF HasHdr, Rewritten
  <2> QED
    BY <2>1, <2>2, FreeSetParts
<1>10. Rewritten(h, k) /\ e = FreedHdr(PutHdr(SizedHdr(g, b, n), s, r2), b, TRUE)
  BY <1>2, <1>7, <1>8, <1>9, RewrittenTwice DEF HasHdr
<1>11. /\ s \in Grain /\ s # b /\ s \notin DOMAIN g
       /\ b + SIZE_ALIGN <= s /\ s + SIZE_ALIGN <= Fol(g, b)
  BY <1>2, CutPoint
<1>12. e = [x \in DOMAIN g \cup {s} |-> IF x = s THEN r2 ELSE IF x = b THEN r1 ELSE g[x]]
  <2>1. SizedHdr(g, b, n) = [x \in DOMAIN g |-> IF x = b THEN r0 ELSE g[x]]
    BY <1>2, <1>3 DEF SizedHdr
  <2>2. PutHdr(SizedHdr(g, b, n), s, r2)
         = [x \in DOMAIN g \cup {s} |-> IF x = s THEN r2 ELSE IF x = b THEN r0 ELSE g[x]]
    BY <2>1 DEF PutHdr
  <2>3. FreedHdr([x \in DOMAIN g \cup {s} |-> IF x = s THEN r2 ELSE IF x = b THEN r0 ELSE g[x]], b, TRUE)
         = [x \in DOMAIN g \cup {s} |-> IF x = s THEN r2 ELSE IF x = b THEN r1 ELSE g[x]]
    BY <1>2, <1>3, <1>11 DEF FreedHdr
  <2> QED
    BY <1>10, <2>2, <2>3
<1>13. IsCut(g, e, b, s) /\ e[b] = r1 /\ e[s] = r2
  <2>1. b + SIZE_ALIGN + r1.size = s /\ s + SIZE_ALIGN + r2.size = Fol(g, b)
    BY <1>2, <1>5, <1>6
  <2>2. r2.prevFree = r1.free
    BY <1>5, <1>6
  <2> QED
    BY <1>3, <1>5, <1>6, <1>11, <1>12, <2>1, <2>2, CutBy
<1>14. CutDone(h, k, X, b, s)
  <2>1. IsCut(h.hdr, k.hdr, b, s) /\ b + SIZE_ALIGN <= s /\ s + SIZE_ALIGN <= Fol(h.hdr, b)
    BY <1>2, <1>11, <1>13
  <2> QED
    BY <1>10, <1>11, <2>1, CutSound
<1> QED
  BY <1>2, <1>4, <1>5, <1>6, <1>13, <1>14 DEF BeginDone

-----------------------------------------------------------------------------
(* Busy blocks across several steps.                                       *)
LEMMA KeptMore ==
  ASSUME NEW g, NEW k, NEW Z, NEW W, Kept(g, k, Z), Z \subseteq W
  PROVE  Kept(g, k, W)
  BY DEF Kept

(* What two steps keep is kept.                                            *)
LEMMA KeptTwice ==
  ASSUME NEW g, NEW k, NEW l, NEW Z, Kept(g, k, Z), Kept(k, l, Z)
  PROVE  Kept(g, l, Z)
  BY DEF Kept

(* Free blocks, and addresses that are none, do not count.                 *)
LEMMA KeptLess ==
  ASSUME NEW g, NEW k, NEW Z, NEW W, Kept(g, k, Z), \A x \in Z \ W : x \notin Busy(g) \cup Busy(k)
  PROVE  Kept(g, k, W)
<1>1. Busy(g) \ W = Busy(k) \ W
  BY DEF Kept
<1>2. \A x \in Busy(g) \ W : k[x].size = g[x].size
  BY DEF Kept
<1> QED
  BY <1>1, <1>2 DEF Kept

-----------------------------------------------------------------------------
(* A free block in hand, with a busy block before it, that the header      *)
(* behind it has not heard of.                                             *)
Settling(h, b) ==
    /\ Sound(h, {Fol(h.hdr, b)}, {b}) /\ b \in DOMAIN h.hdr \ {0, End}
    /\ h.hdr[b].free /\ ~h.hdr[b].prevFree

NextDone(h, k, b) ==
    Settling(k, b) /\ ~k.hdr[Fol(k.hdr, b)].free /\ Kept(h.hdr, k.hdr, {})

(* MERGE_NEXT leaves a free block with a busy one behind it.               *)
LEMMA MergeNextSound ==
  ASSUME NEW h, NEW b, Settling(h, b), NEW k, k = MERGE_NEXT(h, b)
  PROVE  NextDone(h, k, b)
<1>1. PICK g, n : g = h.hdr /\ n = Fol(g, b)
  OBVIOUS
<1>2. /\ Tiles(g) /\ Merged(g, {b}) /\ Sound(h, {n}, {b}) /\ b \in DOMAIN g \ {0, End}
      /\ g[b].free /\ ~g[b].prevFree
  BY <1>1 DEF Settling, Sound
<1>3. n \in DOMAIN g /\ n # b /\ n # 0
  BY <1>1, <1>2, TileFacts, FolNotZero
<1>4. Following(h, b) = n
  BY <1>1 DEF Following, Fol
<1>5. CASE ~g[n].free
  <2>1. k = h
    BY <1>1, <1>4, <1>5 DEF MERGE_NEXT
  <2>2. Kept(g, g, {})
    BY DEF Kept
  <2> QED
    BY <1>1, <1>5, <2>1, <2>2 DEF NextDone
<1>6. CASE g[n].free
  <2>1. PICK r : r = REMOVE_HEADER(h, n, MAPPING_INSERT(Size(h, n)))
    OBVIOUS
  <2>2. k = MERGE(r, b, n)
    BY <1>1, <1>4, <1>6, <2>1 DEF MERGE_NEXT
  <2>3. Sound(r, {n}, {b} \cup {n}) /\ r.hdr = g
    <3>1. n \in DOMAIN h.hdr /\ h.hdr[n].free /\ n \notin {b}
      BY <1>1, <1>3, <1>6
    <3> QED
      BY <1>1, <1>2, <2>1, <3>1, RemoveSound
  <2>4. n # End
    BY <1>2, <1>6 DEF Tiles
  <2>5. PICK X : X = {n}
    OBVIOUS
  <2>6. GlueDone(r, k, X, b, n)
    <3>1. {b} \cup {n} = {b, n}
      OBVIOUS
    <3>2. Sound(r, X, {b, n}) /\ b \in DOMAIN r.hdr \ {0, End} /\ n = Fol(r.hdr, b)
      BY <1>1, <1>2, <2>3, <2>5, <3>1
    <3> QED
      BY <2>2, <2>4, <3>2, MergeSound
  <2>7. PICK m : m = Fol(g, n)
    OBVIOUS
  <2>8. m # n /\ m # b /\ m \in DOMAIN g
    <3>1. /\ m \in DOMAIN g /\ m \in Nat /\ n \in Nat /\ b \in Nat /\ SIZE_ALIGN \in Nat \ {0}
          /\ b + SIZE_ALIGN <= n /\ n + SIZE_ALIGN <= m
      BY <1>1, <1>2, <1>3, <2>4, <2>7, TileFacts, Settings
    <3> QED
      BY <3>1
  <2>9. ~g[m].free
    BY <1>2, <1>3, <1>6, <2>4, <2>7, <2>8 DEF Merged
  <2>10. /\ Sound(k, (X \cup {m}) \ {n}, {b}) /\ Fol(k.hdr, b) = m
         /\ DOMAIN k.hdr = DOMAIN g \ {n} /\ (k.hdr[b].free <=> g[b].free)
         /\ (k.hdr[b].prevFree <=> g[b].prevFree)
         /\ \A x \in DOMAIN g \ {b, n} : k.hdr[x] = g[x]
         /\ Kept(g, k.hdr, {b, n})
    BY <2>3, <2>6, <2>7 DEF GlueDone
  <2>11. (X \cup {m}) \ {n} = {m}
    BY <2>5, <2>8
  <2>12. Settling(k, b)
    BY <1>2, <1>3, <2>10, <2>11 DEF Settling
  <2>13. ~k.hdr[m].free
    BY <2>8, <2>9, <2>10
  <2>14. Kept(g, k.hdr, {})
    <3>1. \A x \in {b, n} : x \notin Busy(g) \cup Busy(k.hdr)
      BY <1>2, <1>6, <2>10 DEF Busy
    <3> QED
      BY <2>10, <3>1, KeptLess
  <2> QED
    BY <1>1, <2>10, <2>12, <2>13, <2>14 DEF NextDone
<1> QED
  BY <1>5, <1>6

(* Nothing is left to do, and no busy block was touched.                   *)
Calm(h, k) == Sound(k, {}, {}) /\ Kept(h.hdr, k.hdr, {})

LastDone(h, k, b) ==
    Calm(h, k) /\ \A x \in DOMAIN h.hdr \ {Fol(h.hdr, b)} : k.hdr[x] = h.hdr[x]

(* A free block with busy neighbours is told of and listed.                *)
LEMMA SettleLast ==
  ASSUME NEW h, NEW b, Settling(h, b), ~h.hdr[Fol(h.hdr, b)].free,
         NEW k, k = INSERT_FREE_BLOCK(TellNext(h, b), b)
  PROVE  LastDone(h, k, b)
<1>1. PICK l : l = TellNext(h, b)
  OBVIOUS
<1>2. ToldDone(h, l, {b}, b)
  <2>1. PICK Y : Y = {b}
    OBVIOUS
  <2>2. Sound(h, {Fol(h.hdr, b)}, Y) /\ b \in DOMAIN h.hdr \ {End} /\ h.hdr[b].free
    BY <2>1 DEF Settling
  <2>3. ToldDone(h, l, Y, b)
    BY <1>1, <2>2, TellNextSound
  <2> QED
    BY <2>1, <2>3
<1>3. /\ Sound(l, {}, {b}) /\ DOMAIN l.hdr = DOMAIN h.hdr /\ l.hdr[b] = h.hdr[b]
      /\ \A x \in DOMAIN h.hdr : /\ Fol(l.hdr, x) = Fol(h.hdr, x)
                                 /\ l.hdr[x].free = h.hdr[x].free
      /\ \A x \in DOMAIN h.hdr \ {Fol(h.hdr, b)} : l.hdr[x] = h.hdr[x]
      /\ Kept(h.hdr, l.hdr, {})
  BY <1>2 DEF ToldDone
<1>4. b \in DOMAIN h.hdr \ {0, End} /\ h.hdr[b].free /\ ~h.hdr[b].prevFree /\ Tiles(h.hdr)
  BY DEF Settling, Sound
<1>5. Fol(l.hdr, b) = Fol(h.hdr, b) /\ Fol(h.hdr, b) \in DOMAIN h.hdr
  BY <1>3, <1>4, TileFacts
<1>6. ~l.hdr[Fol(l.hdr, b)].free
  BY <1>3, <1>5
<1>7. PICK X : X = {}
  OBVIOUS
<1>8. Sound(k, X, {}) /\ k.hdr = l.hdr
  <2>1. Sound(l, X, {b}) /\ b \in DOMAIN l.hdr \ {0, End} /\ l.hdr[b].free
        /\ b \notin X /\ ~l.hdr[b].prevFree
    BY <1>3, <1>4, <1>7
  <2> QED
    BY <1>1, <1>6, <2>1, InsertSound
<1> QED
  BY <1>3, <1>7, <1>8 DEF Calm, LastDone

(* What tlsf_free and the end of a block share.                            *)
LEMMA Settle ==
  ASSUME NEW h, NEW b, Settling(h, b),
         NEW k, k = INSERT_FREE_BLOCK(TellNext(MERGE_NEXT(h, b), b), b)
  PROVE  Calm(h, k)
<1>1. PICK l : l = MERGE_NEXT(h, b)
  OBVIOUS
<1>2. NextDone(h, l, b)
  BY <1>1, MergeNextSound
<1>3. Calm(l, k)
  BY <1>1, <1>2, SettleLast DEF NextDone, LastDone
<1> QED
  BY <1>2, <1>3, KeptTwice DEF NextDone, Calm

-----------------------------------------------------------------------------
PrevDone(h, m) == Settling(m.heap, m.block) /\ Kept(h.hdr, m.heap.hdr, {})

(* MERGE_PREV leaves a free block with a busy one before it.               *)
LEMMA MergePrevSound ==
  ASSUME NEW h, NEW b \in DOMAIN h.hdr \ {0, End}, Sound(h, {Fol(h.hdr, b)}, {b}), h.hdr[b].free,
         NEW m, m = MERGE_PREV(h, b)
  PROVE  PrevDone(h, m)
<1>1. PICK g, p, n : g = h.hdr /\ p = g[b].prev /\ n = Fol(g, b)
  OBVIOUS
<1>2. /\ Tiles(g) /\ Linked(g, {n}) /\ Merged(g, {b}) /\ Sound(h, {n}, {b})
      /\ b \in DOMAIN g \ {0, End} /\ g[b].free
  BY <1>1 DEF Sound
<1>3. CASE ~g[b].prevFree
  <2>1. m.heap = h /\ m.block = b
    BY <1>1, <1>3 DEF MERGE_PREV
  <2>2. Kept(g, g, {})
    BY DEF Kept
  <2>3. Settling(h, b)
    BY <1>1, <1>2, <1>3 DEF Settling
  <2> QED
    BY <1>1, <2>1, <2>2, <2>3 DEF PrevDone
<1>4. CASE g[b].prevFree
  <2>1. b # n /\ n \in DOMAIN g
    BY <1>1, <1>2, TileFacts, FolNotZero
  <2>2. p \in DOMAIN g \ {End} /\ Fol(g, p) = b /\ g[p].free
    BY <1>1, <1>2, <1>4, <2>1 DEF Linked
  <2>3. p # 0 /\ p # b /\ p # n /\ p < b /\ p \in Nat /\ b \in Nat
    <3>1. /\ p \in Nat /\ b \in Nat /\ n \in Nat /\ SIZE_ALIGN \in Nat \ {0}
          /\ p + SIZE_ALIGN <= b /\ b + SIZE_ALIGN <= n
      BY <1>1, <1>2, <2>2, TileFacts, Settings
    <3>2. p # 0
      BY <1>2, <2>2 DEF Tiles
    <3> QED
      BY <3>1, <3>2
  <2>4. ~g[p].prevFree
    <3>1. SUFFICES ASSUME g[p].prevFree PROVE FALSE
      OBVIOUS
    <3>2. PICK q : q = g[p].prev
      OBVIOUS
    <3>3. q \in DOMAIN g \ {End} /\ Fol(g, q) = p /\ g[q].free
      BY <1>2, <2>2, <2>3, <3>1, <3>2 DEF Linked
    <3>4. q # b
      <4>1. q \in Nat /\ SIZE_ALIGN \in Nat \ {0} /\ q + SIZE_ALIGN <= p
        BY <1>2, <3>3, TileFacts, Settings
      <4> QED
        BY <2>3, <4>1
    <3> QED
      BY <1>2, <2>2, <2>3, <3>3, <3>4 DEF Merged
  <2>5. PICK r, k, X : /\ r = REMOVE_HEADER(h, p, MAPPING_INSERT(Size(h, p)))
                       /\ k = MERGE(r, p, b) /\ X = {n}
    OBVIOUS
  <2>6. m.heap = k /\ m.block = p
    BY <1>1, <1>4, <2>5 DEF MERGE_PREV
  <2>7. Sound(r, X, {b} \cup {p}) /\ r.hdr = g
    <3>1. p \in DOMAIN h.hdr /\ h.hdr[p].free /\ p \notin {b} /\ Sound(h, X, {b})
      BY <1>1, <1>2, <2>2, <2>3, <2>5
    <3> QED
      BY <1>1, <2>5, <3>1, RemoveSound
  <2>8. GlueDone(r, k, X, p, b)
    <3>1. {b} \cup {p} = {p, b}
      OBVIOUS
    <3>2. Sound(r, X, {p, b}) /\ p \in DOMAIN r.hdr \ {0, End} /\ b = Fol(r.hdr, p) /\ b # End
      BY <1>2, <2>2, <2>3, <2>7, <3>1
    <3> QED
      BY <2>5, <3>2, MergeSound
  <2>9. /\ Sound(k, (X \cup {n}) \ {b}, {p}) /\ Fol(k.hdr, p) = n
        /\ DOMAIN k.hdr = DOMAIN g \ {b} /\ (k.hdr[p].free <=> g[p].free)
        /\ (k.hdr[p].prevFree <=> g[p].prevFree) /\ Kept(g, k.hdr, {p, b})
    BY <1>1, <2>7, <2>8 DEF GlueDone
  <2>10. (X \cup {n}) \ {b} = {n}
    BY <2>1, <2>5
  <2>11. Settling(k, p)
    BY <2>2, <2>3, <2>4, <2>9, <2>10 DEF Settling
  <2>12. Kept(g, k.hdr, {})
    <3>1. \A x \in {p, b} : x \notin Busy(g) \cup Busy(k.hdr)
      BY <1>2, <2>2, <2>9 DEF Busy
    <3> QED
      BY <2>9, <3>1, KeptLess
  <2> QED
    BY <1>1, <2>6, <2>11, <2>12 DEF PrevDone
<1> QED
  BY <1>3, <1>4

(* tlsf_free.                                                              *)
Released(h, k, b) ==
    Sound(k, {}, {}) /\ Kept(h.hdr, k.hdr, {b}) /\ b \notin Busy(k.hdr)

(* tlsf_free keeps the pool sound and all other busy blocks as they are.   *)
LEMMA ReleaseSound ==
  ASSUME NEW h, Sound(h, {}, {}), NEW b \in DOMAIN h.hdr \ {0, End}, ~h.hdr[b].free,
         NEW k, k = Release(h, b)
  PROVE  Released(h, k, b)
<1>1. PICK j, m, X : j = FreeSet(h, b, TRUE) /\ m = MERGE_PREV(j, b) /\ X = {}
  OBVIOUS
<1>2. k = INSERT_FREE_BLOCK(TellNext(MERGE_NEXT(m.heap, m.block), m.block), m.block)
  BY <1>1 DEF Release, FreeSet
<1>3. Sound(h, X, {b})
  <2>1. Sound(h, X, {} \cup {b})
    BY <1>1, TakeBusy
  <2> QED
    BY <2>1
<1>4. MarkDone(h, j, X, b) /\ j.hdr[b].free = TRUE
  BY <1>1, <1>3, FreeSetSound
<1>5. /\ Sound(j, X \cup {Fol(h.hdr, b)}, {b}) /\ DOMAIN j.hdr = DOMAIN h.hdr
      /\ Fol(j.hdr, b) = Fol(h.hdr, b) /\ Kept(h.hdr, j.hdr, {b})
  BY <1>4 DEF MarkDone
<1>6. X \cup {Fol(h.hdr, b)} = {Fol(j.hdr, b)}
  BY <1>1, <1>5
<1>7. PrevDone(j, m)
  BY <1>1, <1>4, <1>5, <1>6, MergePrevSound
<1>8. Calm(m.heap, k)
  BY <1>2, <1>7, Settle DEF PrevDone
<1>9. Kept(j.hdr, k.hdr, {})
  BY <1>7, <1>8, KeptTwice DEF PrevDone, Calm
<1>10. b \notin Busy(j.hdr)
  BY <1>4 DEF Busy
<1>11. b \notin Busy(k.hdr)
  BY <1>9, <1>10 DEF Kept
<1>12. Kept(h.hdr, k.hdr, {b})
  BY <1>5, <1>9, KeptMore, KeptTwice
<1> QED
  BY <1>8, <1>11, <1>12 DEF Released, Calm

-----------------------------------------------------------------------------
(* The end of a busy block, cut off, is a free block in hand.              *)
RestSettled(h, k, b, s, n) ==
    /\ Settling(k, s) /\ Fol(k.hdr, s) = Fol(h.hdr, b) /\ Kept(h.hdr, k.hdr, {b})
    /\ b \in Busy(k.hdr) /\ k.hdr[b].size = n /\ b # Fol(h.hdr, b)

(* The rest of a block that was cut can be settled.                        *)
LEMMA RestSettling ==
  ASSUME NEW h, NEW X, NEW b \in DOMAIN h.hdr \ {0, End}, Sound(h, X, {b}),
         X \subseteq {Fol(h.hdr, b)}, NEW k, NEW s, NEW n, NEW m, RestDone(h, k, X, b, s, n, m)
  PROVE  RestSettled(h, k, b, s, n)
<1>1. PICK e : e = Fol(h.hdr, b)
  OBVIOUS
<1>2. /\ Sound(k, X \cup {e}, {b, s}) /\ s \notin DOMAIN h.hdr
      /\ DOMAIN k.hdr = DOMAIN h.hdr \cup {s} /\ Fol(k.hdr, s) = e
      /\ Kept(h.hdr, k.hdr, {b, s}) /\ ~k.hdr[b].free /\ k.hdr[b].size = n
      /\ k.hdr[s].free /\ ~k.hdr[s].prevFree
  BY <1>1 DEF RestDone, CutDone
<1>3. Sound(k, {e}, {s})
  <2>1. X \cup {e} = {e} /\ {b, s} = {s} \cup {b}
    BY <1>1
  <2>2. Sound(k, {e}, {s} \cup {b})
    BY <1>2, <2>1
  <2> QED
    BY <1>2, <2>2, DropBusy
<1>4. Tiles(h.hdr) /\ 0 \in DOMAIN h.hdr /\ End \in DOMAIN h.hdr
  BY DEF Sound, Tiles
<1>5. Settling(k, s)
  BY <1>2, <1>3, <1>4 DEF Settling
<1>6. Kept(h.hdr, k.hdr, {b})
  <2>1. \A x \in {b, s} \ {b} : x \notin Busy(h.hdr) \cup Busy(k.hdr)
    BY <1>2 DEF Busy
  <2> QED
    BY <1>2, <2>1, KeptLess
<1>7. b \in Busy(k.hdr) /\ b # e
  BY <1>1, <1>2, <1>4, FolNotZero DEF Busy
<1> QED
  BY <1>1, <1>2, <1>5, <1>6, <1>7 DEF RestSettled

(* Block b is busy, and at least n bytes long.                             *)
Resized(h, k, b, n) ==
    /\ Sound(k, {}, {}) /\ Kept(h.hdr, k.hdr, {b})
    /\ b \in Busy(k.hdr) /\ k.hdr[b].size >= n

(* What is left behind a cut is a multiple of the granularity.             *)
LEMMA CutLength ==
  ASSUME NEW h, NEW X, NEW Y, Sound(h, X, Y), NEW b \in DOMAIN h.hdr \ {End}, NEW n \in Grain,
         NEW s, s = b + SIZE_ALIGN + n, NEW e, e = Fol(h.hdr, b), s + SIZE_ALIGN <= e
  PROVE  /\ e - s - SIZE_ALIGN \in Grain /\ s + SIZE_ALIGN + (e - s - SIZE_ALIGN) = e
         /\ e \in Grain /\ s \in Grain
<1>1. PICK g : g = h.hdr
  OBVIOUS
<1>2. Tiles(g) /\ b \in DOMAIN g \ {End} /\ e = Fol(g, b)
  BY <1>1 DEF Sound
<1>3. b \in Grain /\ e \in DOMAIN g
  BY <1>2, TileFacts
<1>4. e \in Grain
  BY <1>2, <1>3, TileFacts
<1>5. SIZE_ALIGN \in Grain
  BY GrainNat
<1>6. s \in Grain
  BY <1>3, <1>5, GrainAdd
<1>7. e \in Nat /\ s \in Nat /\ SIZE_ALIGN \in Nat
  BY <1>4, <1>5, <1>6, GrainNat
<1>8. e - s \in Grain
  BY <1>4, <1>6, <1>7, GrainSub
<1>9. e - s - SIZE_ALIGN \in Grain
  BY <1>5, <1>7, <1>8, GrainSub
<1> QED
  BY <1>4, <1>6, <1>7, <1>9

(* FreeEnd shortens a busy block and keeps the pool sound.                 *)
LEMMA FreeEndSound ==
  ASSUME NEW h, NEW X, NEW b \in DOMAIN h.hdr \ {0, End}, Sound(h, X, {}),
         X \subseteq {Fol(h.hdr, b)}, ~h.hdr[b].free, NEW n \in Grain,
         NEW e, e = Fol(h.hdr, b), b + SIZE_ALIGN + n + SIZE_ALIGN <= e,
         NEW k, k = FreeEnd(SetSize(h, b, n), b, e)
  PROVE  Resized(h, k, b, n)
<1>1. PICK s, m : s = b + SIZE_ALIGN + n /\ m = e - s - SIZE_ALIGN
  OBVIOUS
<1>2. m \in Grain /\ s + SIZE_ALIGN + m = e
  BY <1>1, CutLength
<1>3. PICK j : j = FreeBlock(SetSize(h, b, n), s, m, b)
  OBVIOUS
<1>4. Sound(h, X, {b})
  <2>1. Sound(h, X, {} \cup {b})
    BY TakeBusy
  <2> QED
    BY <2>1
<1>5. RestDone(h, j, X, b, s, n, m)
  BY <1>1, <1>2, <1>3, <1>4, FreeBlockSound
<1>6. /\ Settling(j, s) /\ Kept(h.hdr, j.hdr, {b})
      /\ b \in Busy(j.hdr) /\ j.hdr[b].size = n
  <2>1. RestSettled(h, j, b, s, n)
    BY <1>4, <1>5, RestSettling
  <2> QED
    BY <2>1 DEF RestSettled
<1>7. Following(SetSize(h, b, n), b) = s
  <2>1. HasHdr(h, SetSize(h, b, n), SizedHdr(h.hdr, b, n))
    <3>1. IsHeap(h)
      BY DEF Sound
    <3> QED
      BY <3>1, SetSizeParts
  <2>2. SetSize(h, b, n).hdr = SizedHdr(h.hdr, b, n)
    BY <2>1 DEF HasHdr
  <2>3. SizedHdr(h.hdr, b, n)[b].size = n
    <3>1. h.hdr \in [DOMAIN h.hdr -> Header] /\ h.hdr[b] \in Header
      BY DEF Sound, Tiles
    <3>2. SizedHdr(h.hdr, b, n)[b] = [h.hdr[b] EXCEPT !.size = n]
      BY <3>1 DEF SizedHdr
    <3> QED
      BY <3>1, <3>2, WithSize
  <2> QED
    BY <1>1, <2>2, <2>3 DEF Following
<1>8. k = INSERT_FREE_BLOCK(TellNext(MERGE_NEXT(j, s), s), s)
  BY <1>1, <1>3, <1>7 DEF FreeEnd
<1>9. Calm(j, k)
  BY <1>6, <1>8, Settle
<1>10. Kept(h.hdr, k.hdr, {b})
  BY <1>6, <1>9, KeptMore, KeptTwice DEF Calm
<1>11. b \in Busy(k.hdr) /\ k.hdr[b].size = n
  BY <1>6, <1>9 DEF Calm, Kept
<1>12. n \in Nat
  BY GrainNat
<1> QED
  BY <1>9, <1>10, <1>11, <1>12 DEF Resized, Calm

ResizedLast(h, k, b, n) == Resized(h, k, b, n) /\ k.hdr[b].prevFree = h.hdr[b].prevFree

(* The end of a block without a free block behind it.                      *)
LEMMA LastRestSound ==
  ASSUME NEW h, NEW X, NEW b \in DOMAIN h.hdr \ {0, End}, Sound(h, X, {b}),
         NEW e, e = Fol(h.hdr, b), X \subseteq {e}, ~h.hdr[b].free, ~h.hdr[e].free,
         NEW n \in Grain, NEW m \in Grain, NEW s, s = b + SIZE_ALIGN + n, s + SIZE_ALIGN + m = e,
         NEW k, k = INSERT_FREE_BLOCK(TellNext(FreeBlock(SetSize(h, b, n), s, m, b), s), s)
  PROVE  ResizedLast(h, k, b, n)
<1>1. PICK j : j = FreeBlock(SetSize(h, b, n), s, m, b)
  OBVIOUS
<1>2. RestDone(h, j, X, b, s, n, m)
  BY <1>1, FreeBlockSound
<1>3. /\ Settling(j, s) /\ Kept(h.hdr, j.hdr, {b}) /\ Fol(j.hdr, s) = e
      /\ b \in Busy(j.hdr) /\ j.hdr[b].size = n /\ b # e
  <2>1. RestSettled(h, j, b, s, n)
    BY <1>2, RestSettling
  <2> QED
    BY <2>1 DEF RestSettled
<1>4. /\ j.hdr[b].prevFree = h.hdr[b].prevFree
      /\ \A x \in DOMAIN h.hdr \ {b} : j.hdr[x] = h.hdr[x]
  BY <1>2 DEF RestDone, CutDone
<1>5. e \in DOMAIN h.hdr
  <2>1. Tiles(h.hdr)
    BY DEF Sound
  <2> QED
    BY <2>1, TileFacts
<1>6. LastDone(j, k, s)
  BY <1>1, <1>3, <1>4, <1>5, SettleLast
<1>7. Kept(h.hdr, k.hdr, {b})
  BY <1>3, <1>6, KeptMore, KeptTwice DEF Calm, LastDone
<1>8. b \in DOMAIN j.hdr \ {e} /\ k.hdr[b] = j.hdr[b]
  BY <1>3, <1>6 DEF LastDone, Busy
<1>9. b \in Busy(k.hdr)
  BY <1>3, <1>6 DEF Calm, LastDone, Kept
<1>10. n \in Nat
  BY GrainNat
<1> QED
  BY <1>3, <1>4, <1>6, <1>7, <1>8, <1>9, <1>10
    DEF Resized, ResizedLast, Calm, LastDone

(* Classes are pairs of numbers.                                           *)
LEMMA ClassNat ==
  ASSUME NEW r \in Nat
  PROVE  MAPPING_INSERT(r)[1] \in Nat /\ MAPPING_INSERT(r)[2] \in Nat
<1>1. MAPPING_INSERT(r)[1] = Level(r) /\ MAPPING_INSERT(r)[2] = Second(r)
  BY ClassOf
<1>2. FLI_OFFSET \in Nat /\ MAX_SLI \in Nat \ {0} /\ Width \in Nat \ {0} /\ SMALL_BLOCK \in Nat
  BY ClassConstants, PowNat, Settings
<1>3. CASE r < SMALL_BLOCK
  <2>1. r \div Width \in Nat
    BY <1>2, DivRound
  <2> QED
    BY <1>1, <1>3, <2>1 DEF Level, Second
<1>4. CASE ~(r < SMALL_BLOCK)
  <2>1. PICK k, p, q : k = MS(r) /\ p = StepOf(k) /\ q = r \div p
    OBVIOUS
  <2>2. r >= SMALL_BLOCK
    BY <1>2, <1>4
  <2>3. q \in MAX_SLI .. 2 * MAX_SLI - 1
    BY <2>1, <2>2, BigSteps
  <2>4. k \in Nat /\ k >= FLI_OFFSET + 1
    BY <2>1, <2>2, BigBit
  <2>5. k - FLI_OFFSET \in Nat /\ q - MAX_SLI \in Nat
    BY <1>2, <2>3, <2>4
  <2> QED
    BY <1>1, <1>4, <2>1, <2>5 DEF Level, Second
<1> QED
  BY <1>3, <1>4

(* So are the classes that searches begin at.                              *)
LEMMA WantClass ==
  ASSUME NEW r \in Nat
  PROVE  MAPPING_SEARCH(r).class[1] \in Nat /\ MAPPING_SEARCH(r).class[2] \in Nat
<1>0. SMALL_BLOCK \in Nat
  BY ClassConstants, PowNat, Settings
<1>1. CASE r < SMALL_BLOCK
  <2>1. MAPPING_SEARCH(r).class = MAPPING_INSERT(r)
    BY <1>1 DEF MAPPING_SEARCH
  <2> QED
    BY <2>1, ClassNat
<1>2. CASE ~(r < SMALL_BLOCK)
  <2>1. PICK p, tr, w : p = StepOf(MS(r)) /\ tr = r + p - 1 /\ w = tr - (tr % p)
    OBVIOUS
  <2>2. r >= SMALL_BLOCK
    BY <1>0, <1>2
  <2>3. tr \in Nat /\ MAPPING_SEARCH(r) = [size |-> w, class |-> MAPPING_INSERT(tr)]
    BY <2>1, <2>2, SearchBig
  <2>4. MAPPING_SEARCH(r).class = MAPPING_INSERT(tr)
    BY <2>3
  <2> QED
    BY <2>3, <2>4, ClassNat
<1> QED
  BY <1>1, <1>2

(* Min of a set of numbers.                                                *)
LEMMA MinIsLeast ==
  ASSUME NEW S \in SUBSET Nat, S # {}
  PROVE  Min(S) \in S /\ \A k \in S : Min(S) <= k
<1>1. \E m \in S : \A k \in S : m <= k
  BY HasSmallest
<1> QED
  BY <1>1 DEF Min

(* The head of the first list at or above c, when there is one.            *)
FoundFor(matrix, cl, c, b) ==
    IF b = Null THEN \A x \in DOMAIN cl : ~AtOrAbove(cl[x], c)
    ELSE b \in DOMAIN cl /\ AtOrAbove(cl[b], c)

(* The search by bitmaps finds the first class at or above c that has      *)
(* members.                                                                *)
LEMMA FindsList ==
  ASSUME NEW h, NEW cl, NEW rk, Lists(h.node, h.matrix, h.slbitmap, h.flbitmap, cl, rk),
         NEW c, c[1] \in Nat, c[2] \in Nat, NEW b, b = FIND_SUITABLE_BLOCK(h, c)
  PROVE  FoundFor(h.matrix, cl, c, b)
<1>1. /\ DOMAIN cl \subseteq Nat /\ Null \notin Nat
      /\ \A d \in Class : h.matrix[d] # Null => h.matrix[d] \in DOMAIN cl /\ cl[h.matrix[d]] = d
      /\ \A x \in DOMAIN cl : cl[x] \in Class /\ h.matrix[cl[x]] # Null
      /\ h.slbitmap = {d \in Class : h.matrix[d] # Null}
      /\ h.flbitmap = {d[1] : d \in h.slbitmap}
  BY Settings DEF Lists, Ranking, Heads, Bitmaps
<1>2. PICK sl, fl, same, above :
        /\ sl = h.slbitmap /\ fl = h.flbitmap
        /\ same = {s \in c[2] .. MAX_SLI - 1 : <<c[1], s>> \in sl}
        /\ above = {f \in fl : f > c[1]}
  OBVIOUS
<1> DEFINE Firsts(f) == {s \in 0 .. MAX_SLI - 1 : <<f, s>> \in sl}
<1>3. b = IF same # {} THEN h.matrix[<<c[1], Min(same)>>]
          ELSE IF above # {} THEN h.matrix[<<Min(above), Min(Firsts(Min(above)))>>]
          ELSE Null
  BY <1>2 DEF FIND_SUITABLE_BLOCK
<1> HIDE DEF Firsts
<1>4. \A d \in Class : /\ d[1] \in Nat /\ d[2] \in Nat /\ d[2] \in 0 .. MAX_SLI - 1
                       /\ d = <<d[1], d[2]>>
  BY Settings, ClassConstants DEF Class
<1>5. MAX_SLI \in Nat
  BY ClassConstants
<1>6. CASE same # {}
  <2>1. same \in SUBSET Nat
    BY <1>1, <1>2, <1>4, <1>5
  <2>2. PICK s : s = Min(same)
    OBVIOUS
  <2>3. s \in same
    BY <1>6, <2>1, <2>2, MinIsLeast
  <2>4. <<c[1], s>> \in Class /\ h.matrix[<<c[1], s>>] # Null /\ s >= c[2]
    BY <1>1, <1>2, <1>5, <2>3
  <2>5. b = h.matrix[<<c[1], s>>]
    BY <1>3, <1>6, <2>2
  <2>6. b # Null /\ b \in DOMAIN cl /\ cl[b] = <<c[1], s>>
    BY <1>1, <2>4, <2>5
  <2> QED
    BY <2>4, <2>6 DEF FoundFor, AtOrAbove
<1>7. CASE same = {} /\ above # {}
  <2>1. above \in SUBSET Nat
    BY <1>1, <1>2, <1>4
  <2>2. PICK f : f = Min(above)
    OBVIOUS
  <2>3. f \in above
    BY <1>7, <2>1, <2>2, MinIsLeast
  <2>4. PICK d \in sl : d[1] = f
    BY <1>1, <1>2, <2>3
  <2>5. d \in Class /\ d = <<f, d[2]>> /\ d[2] \in 0 .. MAX_SLI - 1
    BY <1>1, <1>2, <1>4, <2>4
  <2>6. Firsts(f) # {} /\ Firsts(f) \in SUBSET Nat
    BY <1>5, <2>4, <2>5 DEF Firsts
  <2>7. PICK s : s = Min(Firsts(f))
    OBVIOUS
  <2>8. s \in Firsts(f)
    BY <2>6, <2>7, MinIsLeast
  <2>9. <<f, s>> \in Class /\ h.matrix[<<f, s>>] # Null /\ f > c[1]
    BY <1>1, <1>2, <2>3, <2>8 DEF Firsts
  <2>10. b = h.matrix[<<f, s>>]
    BY <1>3, <1>7, <2>2, <2>7
  <2>11. b # Null /\ b \in DOMAIN cl /\ cl[b] = <<f, s>>
    BY <1>1, <2>9, <2>10
  <2> QED
    BY <2>9, <2>11 DEF FoundFor, AtOrAbove
<1>8. CASE same = {} /\ above = {}
  <2>1. b = Null
    BY <1>3, <1>8
  <2>2. ASSUME NEW x \in DOMAIN cl, AtOrAbove(cl[x], c) PROVE FALSE
    <3>1. PICK d : d = cl[x]
      OBVIOUS
    <3>2. d \in sl /\ d \in Class /\ d[1] \in Nat /\ d[2] \in 0 .. MAX_SLI - 1 /\ d = <<d[1], d[2]>>
      BY <1>1, <1>2, <1>4, <3>1
    <3>3. ~(d[1] > c[1])
      BY <1>1, <1>2, <1>8, <3>2
    <3>4. d[1] = c[1] /\ d[2] >= c[2]
      BY <2>2, <3>1, <3>3 DEF AtOrAbove
    <3>5. d[2] \in same
      BY <1>2, <1>5, <3>2, <3>4
    <3> QED
      BY <1>8, <3>5
  <2> QED
    BY <2>1, <2>2 DEF FoundFor
<1> QED
  BY <1>6, <1>7, <1>8

(* tlsf_intern_malloc looks for a block of at least w bytes.               *)
Found(h, M, b, w) ==
    IF b = Null THEN \A x \in M : h.hdr[x].size < w
    ELSE b \in M /\ h.hdr[b].size >= w

(* FIND_SUITABLE_BLOCK finds a block that is long enough, if there is one  *)
(* of the rounded length.                                                  *)
LEMMA FindSound ==
  ASSUME NEW h, NEW M, Carries(h, M), \A x \in M : h.hdr[x].size \in Grain,
         NEW r \in Grain, r > 0, NEW want, want = MAPPING_SEARCH(r),
         NEW b, b = FIND_SUITABLE_BLOCK(h, want.class)
  PROVE  Found(h, M, b, want.size) /\ want.size \in Grain /\ want.size >= r
<1>1. PICK c, w : c = want.class /\ w = want.size
  OBVIOUS
<1>2. r \in Nat /\ Grain \subseteq Nat
  BY GrainNat
<1>3. c[1] \in Nat /\ c[2] \in Nat
  BY <1>1, <1>2, WantClass
<1>4. /\ w \in Grain /\ w >= r
      /\ \A s \in Grain : AtOrAbove(MAPPING_INSERT(s), c) <=> s >= w
  BY <1>1, FindsLongEnough
<1>5. PICK cl : cl = Classes(h.hdr, M)
  OBVIOUS
<1>6. PICK rk, top : Lists(h.node, h.matrix, h.slbitmap, h.flbitmap, cl, rk)
  BY <1>5 DEF Carries
<1>7. FoundFor(h.matrix, cl, c, b)
  BY <1>1, <1>3, <1>6, FindsList
<1>8. DOMAIN cl = M /\ \A x \in M : cl[x] = MAPPING_INSERT(h.hdr[x].size)
  BY <1>5 DEF Classes
<1>9. \A x \in M : AtOrAbove(cl[x], c) <=> h.hdr[x].size >= w
  BY <1>4, <1>8
<1>10. \A x \in M : h.hdr[x].size \in Nat
  BY <1>2
<1>11. CASE b = Null
  <2>1. \A x \in M : h.hdr[x].size < w
    BY <1>2, <1>4, <1>7, <1>8, <1>9, <1>10, <1>11 DEF FoundFor
  <2> QED
    BY <1>1, <1>4, <1>11, <2>1 DEF Found
<1>12. CASE b # Null
  BY <1>1, <1>4, <1>7, <1>8, <1>9, <1>12 DEF FoundFor, Found
<1> QED
  BY <1>11, <1>12

(* The neighbours of a free block are busy.                                *)
LEMMA BusyBeforeFree ==
  ASSUME NEW h, Sound(h, {}, {}), NEW b \in DOMAIN h.hdr, h.hdr[b].free
  PROVE  b \notin {0, End} /\ ~h.hdr[b].prevFree /\ ~h.hdr[Fol(h.hdr, b)].free
<1>1. PICK g : g = h.hdr
  OBVIOUS
<1>2. Tiles(g) /\ Linked(g, {}) /\ Merged(g, {}) /\ b \in DOMAIN g /\ g[b].free
  BY <1>1 DEF Sound
<1>3. b \notin {0, End}
  BY <1>2 DEF Tiles
<1>4. PICK p : p = g[b].prev
  OBVIOUS
<1>5. p \in DOMAIN g \ {End} /\ Fol(g, p) = b /\ (g[b].prevFree <=> g[p].free)
  BY <1>2, <1>3, <1>4 DEF Linked
<1>6. g[p].free => ~g[b].free
  BY <1>2, <1>5 DEF Merged
<1>7. ~g[Fol(g, b)].free
  BY <1>2, <1>3 DEF Merged
<1> QED
  BY <1>1, <1>2, <1>3, <1>5, <1>6, <1>7

(* Block b, which was not busy, is, and at least n bytes long.             *)
Taken(h, k, b, n) ==
    /\ Sound(k, {}, {}) /\ Kept(h.hdr, k.hdr, {b})
    /\ b \in Busy(k.hdr) \ Busy(h.hdr) /\ k.hdr[b].size >= n

(* A block off its list and marked busy.                                   *)
HandedOut(h, k, b, e) ==
    /\ Sound(k, {e}, {b}) /\ b \in DOMAIN k.hdr \ {0, End} /\ e = Fol(k.hdr, b)
    /\ ~k.hdr[b].free /\ ~k.hdr[e].free /\ ~k.hdr[b].prevFree
    /\ k.hdr[b].size = h.hdr[b].size /\ k.hdr[e].prev = b /\ e \in DOMAIN k.hdr
    /\ Kept(h.hdr, k.hdr, {b})

(* A block off its list and marked busy is in hand.                        *)
LEMMA HandOut ==
  ASSUME NEW h, Sound(h, {}, {}), NEW b \in DOMAIN h.hdr, h.hdr[b].free,
         NEW r, r = REMOVE_HEADER(h, b, MAPPING_INSERT(Size(h, b))),
         NEW k, k = FreeSet(r, b, FALSE), NEW e, e = Fol(h.hdr, b)
  PROVE  HandedOut(h, k, b, e)
<1>1. PICK X : X = {}
  OBVIOUS
<1>2. b \notin {0, End} /\ ~h.hdr[b].prevFree /\ ~h.hdr[e].free
  BY BusyBeforeFree
<1>3. Sound(r, X, {b}) /\ r.hdr = h.hdr
  <2>1. b \notin X /\ Sound(h, X, X)
    BY <1>1
  <2>2. Sound(r, X, X \cup {b}) /\ r.hdr = h.hdr
    BY <2>1, RemoveSound
  <2>3. X \cup {b} = {b}
    BY <1>1
  <2> QED
    BY <2>2, <2>3
<1>4. MarkDone(r, k, X, b) /\ k.hdr[b].free = FALSE
  <2>1. b \in DOMAIN r.hdr \ {0, End}
    BY <1>2, <1>3
  <2> QED
    BY <1>3, <2>1, FreeSetSound, ZenonT(40)
<1>5. /\ Sound(k, X \cup {e}, {b}) /\ DOMAIN k.hdr = DOMAIN h.hdr /\ Fol(k.hdr, b) = e
      /\ \A x \in DOMAIN h.hdr \ {b} : k.hdr[x] = h.hdr[x]
      /\ k.hdr[b].size = h.hdr[b].size /\ k.hdr[b].prevFree = h.hdr[b].prevFree
      /\ Kept(h.hdr, k.hdr, {b})
  BY <1>3, <1>4, ZenonT(40) DEF MarkDone
<1>6. e \in DOMAIN h.hdr \ {b} /\ h.hdr[e].prev = b
  <2>1. PICK g : g = h.hdr
    OBVIOUS
  <2>2. Tiles(g) /\ Linked(g, {}) /\ b \in DOMAIN g \ {End} /\ e = Fol(g, b)
    BY <1>2, <2>1 DEF Sound
  <2>3. e \in DOMAIN g \ {b} /\ g[e].prev = b
    BY <2>2, TileFacts, FolNotZero, LinkedForward
  <2> QED
    BY <2>1, <2>3
<1>7. X \cup {e} = {e}
  BY <1>1
<1> QED
  BY <1>2, <1>4, <1>5, <1>6, <1>7 DEF HandedOut

Whole(j, k, b) == Resized(j, k, b, j.hdr[b].size) /\ k.hdr[b] = j.hdr[b]

(* All of the block is used.                                               *)
LEMMA TakeWhole ==
  ASSUME NEW h, NEW j, NEW b, NEW e, HandedOut(h, j, b, e),
         NEW k, k = [j EXCEPT !.hdr[e].prevFree = FALSE]
  PROVE  Whole(j, k, b)
<1>1. PICK Y, q, r : Y = {b} /\ q = j.hdr[e] /\ r = [q EXCEPT !.prevFree = FALSE]
  OBVIOUS
<1>2. IsHeap(j) /\ Typed(j) /\ Sound(j, {e}, {b}) /\ b \in DOMAIN j.hdr \ {0, End}
      /\ e = Fol(j.hdr, b) /\ ~j.hdr[b].free /\ e \in DOMAIN j.hdr /\ j.hdr[e].prev = b
  BY SoundTyped DEF HandedOut
<1>3. q \in Header
  BY <1>1, <1>2 DEF Typed
<1>4. /\ r \in Header /\ r.size = q.size /\ r.free = q.free /\ r.prev = q.prev
      /\ r.prevFree = FALSE
  BY <1>1, <1>3 DEF Header
<1>5. Rewritten(j, k) /\ k.hdr = [j.hdr EXCEPT ![e] = r]
  <2>1. k = [j EXCEPT !.hdr = [j.hdr EXCEPT ![e].prevFree = FALSE]]
    OBVIOUS
  <2>2. Rewritten(j, k) /\ k.hdr = [j.hdr EXCEPT ![e].prevFree = FALSE]
    BY <1>2, <2>1, HdrRewritten
  <2> QED
    BY <1>1, <2>2
<1>6. j.hdr[b].free = FALSE
  BY <1>2 DEF Typed, Header
<1>7. ToldDone(j, k, Y, b)
  <2>1. /\ r.size = j.hdr[e].size /\ r.free = j.hdr[e].free /\ r.prev = b
        /\ r.prevFree = j.hdr[b].free
    BY <1>1, <1>2, <1>4, <1>6
  <2>2. Sound(j, {Fol(j.hdr, b)}, Y) /\ b \in DOMAIN j.hdr \ {End}
    BY <1>1, <1>2
  <2> QED
    BY <1>2, <1>4, <1>5, <2>1, <2>2, RecordTold, ZenonT(40)
<1>8. /\ Sound(k, {}, Y) /\ DOMAIN k.hdr = DOMAIN j.hdr /\ k.hdr[b] = j.hdr[b]
      /\ Kept(j.hdr, k.hdr, {})
  BY <1>7 DEF ToldDone
<1>9. Sound(k, {}, {})
  <2>1. Y = {} \cup {b} /\ ~k.hdr[b].free
    BY <1>1, <1>2, <1>8
  <2> QED
    BY <1>8, <2>1, DropBusy
<1>10. Kept(j.hdr, k.hdr, {b})
  BY <1>8, KeptMore
<1>11. b \in Busy(k.hdr)
  BY <1>2, <1>8 DEF Busy
<1>12. k.hdr[b].size >= j.hdr[b].size
  <2>1. j.hdr[b].size \in Nat
    BY <1>2, GrainNat DEF Typed, Header
  <2> QED
    BY <1>8, <2>1
<1> QED
  BY <1>8, <1>9, <1>10, <1>11, <1>12 DEF Resized, Whole

(* tlsf_intern_malloc.                                                     *)
Malloced(h, m, n) ==
    IF m.block = Null THEN m.heap = h
    ELSE Taken(h, m.heap, m.block, n) /\ ~m.heap.hdr[m.block].prevFree

(* tlsf_intern_malloc fails and changes nothing, or hands out a new busy   *)
(* block that is long enough.                                              *)
LEMMA MallocSound ==
  ASSUME NEW h, Sound(h, {}, {}), NEW n \in Grain, n > 0, NEW m, m = tlsf_intern_malloc(h, n)
  PROVE  Malloced(h, m, n)
<1>1. PICK want, w, b, r, j, e, rest, s :
        /\ want = MAPPING_SEARCH(n) /\ w = want.size
        /\ b = FIND_SUITABLE_BLOCK(h, want.class)
        /\ r = REMOVE_HEADER(h, b, MAPPING_INSERT(Size(h, b)))
        /\ j = FreeSet(r, b, FALSE) /\ e = Fol(h.hdr, b)
        /\ rest = Size(h, b) - w - SIZE_ALIGN /\ s = b + SIZE_ALIGN + w
  OBVIOUS
<1>2. CASE b = Null
  <2>1. m = [heap |-> h, block |-> Null]
    BY <1>1, <1>2 DEF tlsf_intern_malloc
  <2> QED
    BY <2>1 DEF Malloced
<1>3. CASE b # Null
  <2>1. Carries(h, Members(h.hdr)) /\ \A x \in Members(h.hdr) : h.hdr[x].size \in Grain
    <3>1. Members(h.hdr) \ {} = Members(h.hdr) /\ Tiles(h.hdr) /\ Carries(h, Members(h.hdr) \ {})
      BY DEF Sound
    <3> QED
      BY <3>1, TileFacts DEF Members
  <2>2. Found(h, Members(h.hdr), b, w) /\ w \in Grain /\ w >= n
    BY <1>1, <2>1, FindSound
  <2>3. b \in DOMAIN h.hdr /\ h.hdr[b].free /\ h.hdr[b].size >= w
    BY <1>3, <2>2 DEF Found, Members
  <2>4. HandedOut(h, j, b, e)
    BY <1>1, <2>3, HandOut
  <2>5. b \notin Busy(h.hdr)
    BY <2>3 DEF Busy
  <2>6. h.hdr[b].size \in Grain /\ h.hdr[b].size \in Nat /\ w \in Nat /\ n \in Nat
        /\ SIZE_ALIGN \in Nat \ {0} /\ SIZE_ALIGN \in Grain /\ b \in Nat
    BY <2>1, <2>2, <2>3, TileFacts, GrainNat, Settings DEF Sound
  <2>7. rest = h.hdr[b].size - w - SIZE_ALIGN
    BY <1>1 DEF Size
  <2>8. PICK k : k = m.heap
    OBVIOUS
  <2>9. Resized(j, k, b, w) /\ m.block = b /\ ~k.hdr[b].prevFree
    <3>1. CASE rest > 0
      <4>1. m = [heap |-> INSERT_FREE_BLOCK(
                            TellNext(FreeBlock(SetSize(j, b, w), s, rest, b), s), s), block |-> b]
        BY <1>1, <1>3, <3>1 DEF tlsf_intern_malloc, FreeSet
      <4>2. k = INSERT_FREE_BLOCK(TellNext(FreeBlock(SetSize(j, b, w), s, rest, b), s), s)
            /\ m.block = b
        BY <2>8, <4>1
      <4>3. rest \in Grain
        <5>1. h.hdr[b].size - w \in Grain
          BY <2>2, <2>3, <2>6, GrainSub
        <5>2. SIZE_ALIGN <= h.hdr[b].size - w
          BY <2>6, <2>7, <3>1
        <5> QED
          BY <2>6, <2>7, <5>1, <5>2, GrainSub
      <4>4. s + SIZE_ALIGN + rest = e
        BY <1>1, <2>6, <2>7 DEF Fol
      <4>5. PICK X : X = {e}
        OBVIOUS
      <4>6. /\ Sound(j, X, {b}) /\ b \in DOMAIN j.hdr \ {0, End} /\ e = Fol(j.hdr, b)
            /\ X \subseteq {e} /\ ~j.hdr[b].free /\ ~j.hdr[e].free /\ ~j.hdr[b].prevFree
        BY <2>4, <4>5 DEF HandedOut
      <4>7. ResizedLast(j, k, b, w)
        BY <1>1, <2>2, <4>2, <4>3, <4>4, <4>6, LastRestSound, ZenonT(40)
      <4> QED
        BY <4>2, <4>6, <4>7 DEF ResizedLast
    <3>2. CASE ~(rest > 0)
      <4>1. m = [heap |-> [j EXCEPT !.hdr[e].prevFree = FALSE], block |-> b]
        <5>1. Following(h, b) = e
          BY <1>1 DEF Following, Fol
        <5> QED
          BY <1>1, <1>3, <3>2, <5>1 DEF tlsf_intern_malloc, FreeSet
      <4>2. k = [j EXCEPT !.hdr[e].prevFree = FALSE] /\ m.block = b
        BY <2>8, <4>1
      <4>3. Whole(j, k, b)
        BY <2>4, <4>2, TakeWhole
      <4>4. j.hdr[b].size = h.hdr[b].size /\ ~j.hdr[b].prevFree
        BY <2>4 DEF HandedOut
      <4>5. Resized(j, k, b, w)
        BY <2>3, <2>6, <4>3, <4>4 DEF Resized, Whole
      <4> QED
        BY <4>2, <4>3, <4>4, <4>5 DEF Whole
    <3> QED
      BY <3>1, <3>2
  <2>10. Kept(h.hdr, k.hdr, {b})
    BY <2>4, <2>9, KeptTwice DEF HandedOut, Resized
  <2>11. k.hdr[b].size >= n
    <3>1. Tiles(k.hdr) /\ b \in DOMAIN k.hdr /\ k.hdr[b].size >= w
      BY <2>9 DEF Resized, Sound, Busy
    <3>2. k.hdr[b].size \in Nat
      BY <3>1, TileFacts, GrainNat
    <3> QED
      BY <2>2, <2>6, <3>1, <3>2
  <2>12. Taken(h, k, b, n)
    BY <2>5, <2>9, <2>10, <2>11 DEF Taken, Resized
  <2> QED
    BY <1>3, <2>8, <2>9, <2>12 DEF Malloced
<1> QED
  BY <1>2, <1>3

-----------------------------------------------------------------------------
(* tlsf_realloc in place.                                                  *)
LEMMA ShrinkSound ==
  ASSUME NEW h, Sound(h, {}, {}), NEW b \in DOMAIN h.hdr \ {0, End}, ~h.hdr[b].free,
         NEW n \in Grain, n <= h.hdr[b].size - SIZE_ALIGN,
         NEW k, k = FreeEnd(SetSize(h, b, n), b, Following(h, b))
  PROVE  Resized(h, k, b, n)
<1>1. PICK X, e : X = {} /\ e = Fol(h.hdr, b)
  OBVIOUS
<1>2. Following(h, b) = e
  BY <1>1 DEF Following, Fol
<1>3. Sound(h, X, {}) /\ X \subseteq {Fol(h.hdr, b)}
  BY <1>1
<1>4. h.hdr[b].size \in Nat /\ b \in Nat /\ n \in Nat /\ SIZE_ALIGN \in Nat
  BY TileFacts, GrainNat, Settings DEF Sound
<1>5. b + SIZE_ALIGN + n + SIZE_ALIGN <= e
  BY <1>1, <1>4 DEF Fol
<1> QED
  BY <1>1, <1>2, <1>3, <1>5, FreeEndSound

Grown(h, b, size) ==
    LET next  == Following(h, b)
        whole == MERGE(REMOVE_HEADER(h, next, MAPPING_INSERT(Size(h, next))), b, next)
        rest  == Size(whole, b) - size
        b1    == Mem(b) + size
        after == Following(whole, b)
    IN  IF rest >= SIZE_ALIGN
        THEN INSERT_FREE_BLOCK(
               TellNext(FreeBlock(SetSize(whole, b, size), b1, rest - SIZE_ALIGN, b), b1), b1)
        ELSE [whole EXCEPT !.hdr[after].prev = b, !.hdr[after].prevFree = FALSE]

(* A busy block and the free one behind it, taken as one.                  *)
WholeOf(h, w, b, e) ==
    /\ Sound(w, {e}, {b}) /\ b \in DOMAIN w.hdr \ {0, End} /\ e = Fol(w.hdr, b)
    /\ ~w.hdr[b].free /\ ~w.hdr[e].free /\ e \in DOMAIN w.hdr
    /\ Kept(h.hdr, w.hdr, {b})
    /\ w.hdr[b].size = h.hdr[b].size + SIZE_ALIGN + h.hdr[Fol(h.hdr, b)].size

(* The free block behind a busy one becomes part of it.                    *)
LEMMA TakeNext ==
  ASSUME NEW h, Sound(h, {}, {}), NEW b \in DOMAIN h.hdr \ {0, End}, ~h.hdr[b].free,
         NEW n, n = Fol(h.hdr, b), h.hdr[n].free,
         NEW r, r = REMOVE_HEADER(h, n, MAPPING_INSERT(Size(h, n))),
         NEW w, w = MERGE(r, b, n), NEW e, e = Fol(h.hdr, n)
  PROVE  WholeOf(h, w, b, e)
<1>1. PICK g, X : g = h.hdr /\ X = {}
  OBVIOUS
<1>2. Tiles(g) /\ b \in DOMAIN g \ {0, End} /\ n = Fol(g, b) /\ g[n].free /\ e = Fol(g, n)
  BY <1>1 DEF Sound
<1>3. n \in DOMAIN g /\ n # b
  BY <1>2, TileFacts, FolNotZero
<1>4. n \notin {0, End} /\ ~g[e].free
  BY <1>1, <1>2, <1>3, BusyBeforeFree
<1>5. e \in DOMAIN g /\ e # n /\ e # b
  <2>1. /\ e \in DOMAIN g /\ e \in Nat /\ n \in Nat /\ b \in Nat /\ SIZE_ALIGN \in Nat \ {0}
        /\ b + SIZE_ALIGN <= n /\ n + SIZE_ALIGN <= e
    BY <1>2, <1>3, <1>4, TileFacts, Settings
  <2> QED
    BY <2>1
<1>6. Sound(r, X, {b, n}) /\ r.hdr = g
  <2>1. Sound(h, X, X) /\ n \notin X /\ n \in DOMAIN h.hdr
    BY <1>1, <1>3
  <2>2. Sound(r, X, X \cup {n}) /\ r.hdr = h.hdr
    BY <2>1, RemoveSound
  <2>3. PICK Y : Y = X \cup {n}
    OBVIOUS
  <2>4. Sound(r, X, Y \cup {b})
    BY <1>1, <2>2, <2>3, TakeBusy
  <2>5. Y \cup {b} = {b, n}
    BY <1>1, <2>3
  <2> QED
    BY <1>1, <2>2, <2>4, <2>5
<1>7. GlueDone(r, w, X, b, n)
  <2>1. b \in DOMAIN r.hdr \ {0, End} /\ n = Fol(r.hdr, b) /\ n # End
    BY <1>2, <1>4, <1>6
  <2> QED
    BY <1>6, <2>1, MergeSound
<1>8. /\ Sound(w, (X \cup {e}) \ {n}, {b}) /\ Fol(w.hdr, b) = e
      /\ DOMAIN w.hdr = DOMAIN g \ {n} /\ w.hdr[b].free = g[b].free
      /\ w.hdr[b].size = g[b].size + SIZE_ALIGN + g[n].size
      /\ \A x \in DOMAIN g \ {b, n} : w.hdr[x] = g[x]
      /\ Kept(g, w.hdr, {b, n})
  BY <1>2, <1>6, <1>7 DEF GlueDone
<1>9. (X \cup {e}) \ {n} = {e}
  BY <1>1, <1>5
<1>10. Kept(g, w.hdr, {b})
  <2>1. \A x \in {b, n} \ {b} : x \notin Busy(g) \cup Busy(w.hdr)
    BY <1>2, <1>8 DEF Busy
  <2> QED
    BY <1>8, <2>1, KeptLess
<1> QED
  BY <1>1, <1>2, <1>3, <1>4, <1>5, <1>8, <1>9, <1>10 DEF WholeOf

(* tlsf_realloc into the block behind keeps the pool sound.                *)
LEMMA GrowSound ==
  ASSUME NEW h, Sound(h, {}, {}), NEW b \in DOMAIN h.hdr \ {0, End}, ~h.hdr[b].free,
         NEW next, next = Fol(h.hdr, b), h.hdr[next].free,
         NEW n \in Grain, n <= h.hdr[b].size + SIZE_ALIGN + h.hdr[next].size,
         NEW k, k = Grown(h, b, n)
  PROVE  Resized(h, k, b, n)
<1>1. PICK r, w, e, rest, s :
        /\ r = REMOVE_HEADER(h, next, MAPPING_INSERT(Size(h, next)))
        /\ w = MERGE(r, b, next) /\ e = Fol(h.hdr, next)
        /\ rest = w.hdr[b].size - n /\ s = b + SIZE_ALIGN + n
  OBVIOUS
<1>2. WholeOf(h, w, b, e)
  BY <1>1, TakeNext
<1>3. /\ Sound(w, {e}, {b}) /\ b \in DOMAIN w.hdr \ {0, End} /\ e = Fol(w.hdr, b)
      /\ ~w.hdr[b].free /\ ~w.hdr[e].free /\ e \in DOMAIN w.hdr
      /\ Kept(h.hdr, w.hdr, {b}) /\ n <= w.hdr[b].size
  <2>1. /\ Sound(w, {e}, {b}) /\ b \in DOMAIN w.hdr \ {0, End} /\ e = Fol(w.hdr, b)
        /\ ~w.hdr[b].free /\ ~w.hdr[e].free /\ e \in DOMAIN w.hdr
        /\ Kept(h.hdr, w.hdr, {b})
        /\ w.hdr[b].size = h.hdr[b].size + SIZE_ALIGN + h.hdr[Fol(h.hdr, b)].size
    BY <1>2, Zenon DEF WholeOf
  <2>2. w.hdr[b].size = h.hdr[b].size + SIZE_ALIGN + h.hdr[next].size
    BY <2>1, Zenon
  <2>3. n <= w.hdr[b].size
    BY <2>2
  <2> QED
    BY <2>1, <2>3, Zenon
<1>4. Following(h, b) = next /\ Following(w, b) = e /\ Size(w, b) - n = rest /\ Mem(b) + n = s
  BY <1>1, <1>3 DEF Following, Fol, Size, Mem
<1>5. k = IF rest >= SIZE_ALIGN
          THEN INSERT_FREE_BLOCK(
                 TellNext(FreeBlock(SetSize(w, b, n), s, rest - SIZE_ALIGN, b), s), s)
          ELSE [w EXCEPT !.hdr[e].prev = b, !.hdr[e].prevFree = FALSE]
  <2>1. MERGE(REMOVE_HEADER(h, Following(h, b), MAPPING_INSERT(Size(h, Following(h, b)))),
              b, Following(h, b)) = w
    BY <1>1, <1>4
  <2>2. k = LET left  == Size(w, b) - n
                at    == Mem(b) + n
                after == Following(w, b)
            IN  IF left >= SIZE_ALIGN
                THEN INSERT_FREE_BLOCK(
                       TellNext(FreeBlock(SetSize(w, b, n), at, left - SIZE_ALIGN, b), at), at)
                ELSE [w EXCEPT !.hdr[after].prev = b, !.hdr[after].prevFree = FALSE]
    BY <2>1 DEF Grown
  <2> QED
    BY <1>4, <2>2
<1>6. /\ w.hdr[b].size \in Grain /\ w.hdr[b].size \in Nat /\ n \in Nat /\ b \in Nat
      /\ SIZE_ALIGN \in Nat \ {0} /\ SIZE_ALIGN \in Grain /\ rest \in Grain /\ rest \in Nat
  <2>1. Tiles(w.hdr)
    BY <1>3 DEF Sound
  <2>2. w.hdr[b].size \in Grain
    BY <1>3, <2>1, TileFacts
  <2>3. rest \in Grain
    BY <1>1, <1>3, <2>2, GrainSub
  <2> QED
    BY <1>3, <2>1, <2>2, <2>3, TileFacts, GrainNat, Settings
<1>7. Resized(w, k, b, n)
  <2>1. CASE rest >= SIZE_ALIGN
    <3>1. PICK X, m : X = {e} /\ m = rest - SIZE_ALIGN
      OBVIOUS
    <3>2. k = INSERT_FREE_BLOCK(TellNext(FreeBlock(SetSize(w, b, n), s, m, b), s), s)
      BY <1>5, <2>1, <3>1
    <3>3. m \in Grain
      BY <1>6, <2>1, <3>1, GrainSub
    <3>4. s + SIZE_ALIGN + m = e
      <4>1. PICK z : z = w.hdr[b].size
        OBVIOUS
      <4>2. e = b + SIZE_ALIGN + z
        BY <1>3, <4>1 DEF Fol
      <4>3. rest = z - n /\ z \in Nat
        BY <1>1, <1>6, <4>1
      <4>4. m = z - n - SIZE_ALIGN /\ s = b + SIZE_ALIGN + n
        BY <1>1, <3>1, <4>3
      <4> QED
        BY <1>6, <4>2, <4>3, <4>4
    <3>5. Sound(w, X, {b}) /\ X \subseteq {e}
      BY <1>3, <3>1
    <3>6. ResizedLast(w, k, b, n)
      <4>1. s = b + SIZE_ALIGN + n
        BY <1>1
      <4> QED
        BY <1>3, <3>2, <3>3, <3>4, <3>5, <4>1, LastRestSound
    <3> QED
      BY <3>6 DEF ResizedLast
  <2>2. CASE ~(rest >= SIZE_ALIGN)
    <3>1. PICK Y, q, t : /\ Y = {b} /\ q = w.hdr[e]
                         /\ t = [q EXCEPT !.prev = b, !.prevFree = FALSE]
      OBVIOUS
    <3>2. IsHeap(w) /\ Typed(w)
      BY <1>3, SoundTyped
    <3>3. q \in Header
      BY <1>3, <3>1, <3>2 DEF Typed
    <3>4. /\ t \in Header /\ t.size = q.size /\ t.free = q.free /\ t.prev = b
          /\ t.prevFree = FALSE
      BY <1>6, <3>1, <3>3 DEF Header
    <3>5. Rewritten(w, k) /\ k.hdr = [w.hdr EXCEPT ![e] = t]
      <4>1. k = [w EXCEPT !.hdr = [w.hdr EXCEPT ![e].prev = b, ![e].prevFree = FALSE]]
        BY <1>5, <2>2
      <4>2. Rewritten(w, k) /\ k.hdr = [w.hdr EXCEPT ![e].prev = b, ![e].prevFree = FALSE]
        BY <3>2, <4>1, HdrRewritten
      <4> QED
        BY <1>3, <3>1, <4>2
    <3>6. w.hdr[b].free = FALSE
      BY <1>3, <3>2 DEF Typed, Header
    <3>7. ToldDone(w, k, Y, b)
      <4>1. t.size = w.hdr[e].size /\ t.free = w.hdr[e].free /\ t.prevFree = w.hdr[b].free
        BY <3>1, <3>4, <3>6
      <4>2. Sound(w, {Fol(w.hdr, b)}, Y) /\ b \in DOMAIN w.hdr \ {End}
        BY <1>3, <3>1
      <4> QED
        BY <1>3, <3>4, <3>5, <4>1, <4>2, RecordTold, ZenonT(40)
    <3>8. /\ Sound(k, {}, Y) /\ DOMAIN k.hdr = DOMAIN w.hdr /\ k.hdr[b] = w.hdr[b]
          /\ Kept(w.hdr, k.hdr, {})
      BY <3>7 DEF ToldDone
    <3>9. Sound(k, {}, {})
      <4>1. Y = {} \cup {b} /\ ~k.hdr[b].free
        BY <1>3, <3>1, <3>8
      <4> QED
        BY <3>8, <4>1, DropBusy
    <3>10. Kept(w.hdr, k.hdr, {b})
      BY <3>8, KeptMore
    <3>11. b \in Busy(k.hdr)
      BY <1>3, <3>8 DEF Busy
    <3>12. k.hdr[b].size >= n
      BY <1>3, <1>6, <3>8
    <3> QED
      BY <3>9, <3>10, <3>11, <3>12 DEF Resized
  <2> QED
    BY <2>1, <2>2
<1>8. Kept(h.hdr, k.hdr, {b})
  BY <1>3, <1>7, KeptTwice DEF Resized
<1> QED
  BY <1>7, <1>8 DEF Resized

-----------------------------------------------------------------------------
(* tlsf_malloc_aligned.                                                    *)
AlignUp(x, n) == ((x + n - 1) \div n) * n

(* The aligned block begins at the block found or at least a header behind *)
(* it.                                                                     *)
LEMMA AlignUpFacts ==
  ASSUME NEW b \in Grain, NEW i \in Nat, NEW n, n = 2 ^ i, n > SIZE_ALIGN,
         NEW a, a = AlignUp(b + SIZE_ALIGN, n) - SIZE_ALIGN
  PROVE  a \in Grain /\ b <= a /\ a + SIZE_ALIGN <= b + n /\ n \in Grain
<1>1. PICK g \in Nat : SIZE_ALIGN = 2 ^ g
  BY Settings
<1>2. n \in Nat \ {0} /\ SIZE_ALIGN \in Nat \ {0} /\ b \in Nat /\ SIZE_ALIGN \in Grain
  BY PowNat, Settings, GrainNat
<1>3. g <= i
  <2>1. SUFFICES ASSUME ~(g <= i) PROVE FALSE
    OBVIOUS
  <2>2. i <= g
    BY <2>1
  <2>3. 2 ^ i <= 2 ^ g
    BY <2>2, PowMono
  <2> QED
    BY <1>1, <1>2, <2>3
<1>4. \A c \in Nat : c * n \in Grain
  BY <1>1, <1>3, GrainOfPowers
<1>5. n \in Grain
  <2>1. 1 * n = n
    BY <1>2
  <2> QED
    BY <1>4, <2>1
<1>6. PICK x, q, u : x = b + SIZE_ALIGN + n - 1 /\ q = x \div n /\ u = q * n
  OBVIOUS
<1>7. x \in Nat /\ x = (b + SIZE_ALIGN) + n - 1
  BY <1>2, <1>6
<1>8. q \in Nat /\ x % n \in 0 .. n - 1 /\ u = x - (x % n) /\ u \in Nat
  BY <1>2, <1>6, <1>7, DivRound
<1>9. u \in Grain
  BY <1>4, <1>6, <1>8
<1>10. a = u - SIZE_ALIGN
  BY <1>6, <1>7 DEF AlignUp
<1>11. b + SIZE_ALIGN <= u /\ u < b + SIZE_ALIGN + n
  <2>1. PICK y : y = x % n
    OBVIOUS
  <2> QED
    BY <1>2, <1>6, <1>8, <2>1
<1>12. a \in Grain
  BY <1>2, <1>8, <1>9, <1>10, <1>11, GrainSub
<1>13. a \in Nat /\ b <= a /\ a < b + n
  BY <1>2, <1>8, <1>10, <1>11
<1>14. b + n \in Grain
  BY <1>5, GrainAdd
<1>15. a + SIZE_ALIGN <= b + n
  BY <1>12, <1>13, <1>14, GrainLess
<1> QED
  BY <1>5, <1>12, <1>13, <1>15

(* A heap is its headers and its lists.                                    *)
LEMMA SameHeaps ==
  ASSUME NEW k, NEW l, IsHeap(k), IsHeap(l), SameLists(k, l), k.hdr = l.hdr
  PROVE  k = l
  BY DEF IsHeap, SameLists

(* A block's length may be written before or after another is linked.      *)
LEMMA InsertResized ==
  ASSUME NEW h, IsHeap(h), NEW b, NEW a, a # b, NEW n
  PROVE  INSERT_FREE_BLOCK(SetSize(h, a, n), b) = SetSize(INSERT_FREE_BLOCK(h, b), a, n)
<1>1. PICK j : j = SetSize(h, a, n)
  OBVIOUS
<1>2. HasHdr(h, j, SizedHdr(h.hdr, a, n))
  BY <1>1, SetSizeParts
<1>3. IsHeap(j) /\ SameLists(h, j) /\ j.hdr = SizedHdr(h.hdr, a, n)
  BY <1>2 DEF HasHdr, Rewritten
<1>4. j.hdr[b] = h.hdr[b]
  BY <1>3 DEF SizedHdr
<1>5. CASE h.hdr[b].size = 0
  <2>1. INSERT_FREE_BLOCK(h, b) = h /\ INSERT_FREE_BLOCK(j, b) = j
    BY <1>4, <1>5 DEF INSERT_FREE_BLOCK, Size
  <2> QED
    BY <1>1, <2>1
<1>6. CASE h.hdr[b].size # 0
  <2>1. PICK c, k, l : /\ c = MAPPING_INSERT(h.hdr[b].size)
                       /\ k = INSERT_FREE_BLOCK(h, b) /\ l = INSERT_FREE_BLOCK(j, b)
    OBVIOUS
  <2>2. /\ IsHeap(k) /\ k.hdr = h.hdr /\ k.node = LinkNode(h.node, b, h.matrix[c])
        /\ k.matrix = [h.matrix EXCEPT ![c] = b] /\ k.slbitmap = h.slbitmap \cup {c}
        /\ k.flbitmap = h.flbitmap \cup {c[1]} /\ k.free_size = h.free_size + h.hdr[b].size
    BY <1>6, <2>1, InsertParts
  <2>3. /\ IsHeap(l) /\ l.hdr = j.hdr /\ l.node = LinkNode(j.node, b, j.matrix[c])
        /\ l.matrix = [j.matrix EXCEPT ![c] = b] /\ l.slbitmap = j.slbitmap \cup {c}
        /\ l.flbitmap = j.flbitmap \cup {c[1]} /\ l.free_size = j.free_size + j.hdr[b].size
    BY <1>3, <1>4, <1>6, <2>1, InsertParts
  <2>4. SameLists(k, l)
    BY <1>3, <1>4, <2>2, <2>3 DEF SameLists
  <2>5. PICK z : z = SetSize(k, a, n)
    OBVIOUS
  <2>6. HasHdr(k, z, SizedHdr(k.hdr, a, n))
    BY <2>2, <2>5, SetSizeParts
  <2>7. IsHeap(z) /\ SameLists(k, z) /\ z.hdr = l.hdr
    BY <1>3, <2>2, <2>3, <2>6 DEF HasHdr, Rewritten
  <2>8. SameLists(z, l)
    BY <2>4, <2>7 DEF SameLists
  <2> QED
    BY <1>1, <2>1, <2>3, <2>5, <2>7, <2>8, SameHeaps
<1> QED
  BY <1>5, <1>6

(* The length of the block behind a cut may be written later, too.         *)
LEMMA HeaderResized ==
  ASSUME NEW b, NEW m, NEW n, NEW f, NEW p, NEW t, NEW u,
         t = [prev |-> b, size |-> m, free |-> f, prevFree |-> p],
         u = [prev |-> b, size |-> n, free |-> f, prevFree |-> p]
  PROVE  u = [t EXCEPT !.size = n]
  OBVIOUS

(* The order of cutting and shortening does not matter.                    *)
LEMMA BeginCutResized ==
  ASSUME NEW h, IsHeap(h), NEW b, NEW a, a # b, a \notin DOMAIN h.hdr, NEW n, NEW m
  PROVE  BeginCut(h, b, a, n) = SetSize(BeginCut(h, b, a, m), a, n)
<1>0. PICK f, p : f = FALSE /\ p = TRUE
  OBVIOUS
<1>1. PICK g, e, j, l, r :
        /\ g = SizedHdr(h.hdr, b, a - b - SIZE_ALIGN)
        /\ j = SetSize(h, b, a - b - SIZE_ALIGN)
        /\ e = [x \in {n, m} |-> [prev |-> b, size |-> x, free |-> f, prevFree |-> p]]
        /\ l = [x \in {n, m} |-> Put(j, a, e[x])]
        /\ r = [x \in {n, m} |-> BeginCut(h, b, a, x)]
  OBVIOUS
<1>2. IsHeap(j) /\ SameLists(h, j) /\ j.hdr = g
  <2>1. HasHdr(h, j, g)
    BY <1>1, SetSizeParts
  <2> QED
    BY <2>1 DEF HasHdr, Rewritten
<1>3. ASSUME NEW x \in {n, m}
      PROVE  IsHeap(r[x]) /\ SameLists(h, r[x]) /\ r[x].hdr = FreedHdr(PutHdr(g, a, e[x]), b, TRUE)
  <2>1. HasHdr(j, l[x], PutHdr(g, a, e[x]))
    <3>1. l[x] = Put(j, a, e[x])
      BY <1>1
    <3> QED
      BY <1>2, <3>1, PutParts
  <2>2. IsHeap(l[x]) /\ SameLists(j, l[x]) /\ l[x].hdr = PutHdr(g, a, e[x])
    BY <2>1 DEF HasHdr, Rewritten
  <2>3. HasHdr(l[x], r[x], FreedHdr(l[x].hdr, b, TRUE))
    <3>1. r[x] = FreeSet(l[x], b, TRUE)
      <4>1. l[x] = Put(j, a, [prev |-> b, size |-> x, free |-> FALSE, prevFree |-> TRUE])
        BY <1>0, <1>1
      <4>2. r[x] = BeginCut(h, b, a, x)
        BY <1>1
      <4> QED
        BY <1>1, <4>1, <4>2 DEF BeginCut, FreeSet
    <3> QED
      BY <2>2, <3>1, FreeSetParts
  <2>4. IsHeap(r[x]) /\ SameLists(l[x], r[x]) /\ r[x].hdr = FreedHdr(l[x].hdr, b, TRUE)
    BY <2>3 DEF HasHdr, Rewritten
  <2>5. SameLists(h, r[x])
    BY <1>2, <2>2, <2>4 DEF SameLists
  <2> QED
    BY <2>2, <2>4, <2>5
<1>4. DOMAIN g = DOMAIN h.hdr
  BY <1>1 DEF SizedHdr
<1>5. FreedHdr(PutHdr(g, a, e[n]), b, TRUE)
        = SizedHdr(FreedHdr(PutHdr(g, a, e[m]), b, TRUE), a, n)
  <2>1. PICK P, Q, D : P = PutHdr(g, a, e[n]) /\ Q = PutHdr(g, a, e[m]) /\ D = DOMAIN g \cup {a}
    OBVIOUS
  <2>2. /\ P = [x \in D |-> IF x = a THEN e[n] ELSE g[x]]
        /\ Q = [x \in D |-> IF x = a THEN e[m] ELSE g[x]]
    BY <2>1 DEF PutHdr
  <2>3. PICK t, u : /\ t = e[m] /\ t = [prev |-> b, size |-> m, free |-> f, prevFree |-> p]
                    /\ u = e[n] /\ u = [prev |-> b, size |-> n, free |-> f, prevFree |-> p]
    BY <1>1
  <2>4. PICK S, T : S = [P EXCEPT ![b].free = TRUE] /\ T = [Q EXCEPT ![b].free = TRUE]
    OBVIOUS
  <2>5. S = [T EXCEPT ![a].size = n]
    <3>1. DOMAIN S = D /\ DOMAIN T = D
      BY <2>2, <2>4
    <3>2. S[a] = e[n] /\ T[a] = e[m]
      <4>1. a \in D
        BY <2>1
      <4> QED
        BY <2>2, <2>4, <4>1
    <3>3. \A x \in D \ {a} : S[x] = T[x]
      BY <2>2, <2>4
    <3>4. PICK U : U = [T EXCEPT ![a].size = n]
      OBVIOUS
    <3>5. S[a] = u /\ T[a] = t /\ u = [t EXCEPT !.size = n]
      <4>1. S[a] = u /\ T[a] = t
        BY <2>3, <3>2
      <4>2. t = [prev |-> b, size |-> m, free |-> f, prevFree |-> p]
        BY <2>3
      <4>3. u = [prev |-> b, size |-> n, free |-> f, prevFree |-> p]
        BY <2>3
      <4>4. u = [t EXCEPT !.size = n]
        BY <4>2, <4>3, HeaderResized
      <4> QED
        BY <4>1, <4>4
    <3>6. U = [x \in D |-> IF x = a THEN u ELSE T[x]]
      <4>1. U = [x \in D |-> IF x = a THEN [T[a] EXCEPT !.size = n] ELSE T[x]]
        BY <3>1, <3>4
      <4>2. PICK v : v = T[a]
        OBVIOUS
      <4>3. U = [x \in D |-> IF x = a THEN [v EXCEPT !.size = n] ELSE T[x]]
        BY <4>1, <4>2
      <4>4. v = t
        BY <3>5, <4>2
      <4> QED
        BY <3>5, <4>3, <4>4
    <3>7. S = [x \in D |-> S[x]]
      BY <2>2, <2>4, <3>1
    <3> QED
      BY <3>3, <3>4, <3>5, <3>6, <3>7
  <2> QED
    BY <2>1, <2>4, <2>5 DEF FreedHdr, SizedHdr
<1>6. PICK z : z = SetSize(r[m], a, n)
  OBVIOUS
<1>7. HasHdr(r[m], z, SizedHdr(r[m].hdr, a, n))
  BY <1>3, <1>6, SetSizeParts
<1>8. IsHeap(z) /\ SameLists(r[m], z) /\ z.hdr = SizedHdr(r[m].hdr, a, n)
  BY <1>7 DEF HasHdr, Rewritten
<1>9. z.hdr = r[n].hdr
  BY <1>3, <1>5, <1>8
<1>10. SameLists(r[n], z)
  BY <1>3, <1>8 DEF SameLists
<1>11. r[n] = z
  BY <1>3, <1>8, <1>9, <1>10, SameHeaps
<1> QED
  BY <1>1, <1>6, <1>11

(* The space before a has become a free block, and a is busy up to e; the  *)
(* header there has not been told.                                         *)
Begun(h, f, b, a, e) ==
    /\ Sound(f, {e}, {}) /\ a \in DOMAIN f.hdr \ {0, End} /\ Fol(f.hdr, a) = e
    /\ ~f.hdr[a].free /\ Kept(h.hdr, f.hdr, {b, a}) /\ b \notin Busy(f.hdr)
    /\ a \notin DOMAIN h.hdr /\ IsHeap(f)

(* The space before an aligned block is freed.                             *)
LEMMA FreeBeginSound ==
  ASSUME NEW h, Sound(h, {}, {}), NEW b \in DOMAIN h.hdr \ {0, End}, ~h.hdr[b].free,
         ~h.hdr[b].prevFree, NEW m \in Grain, NEW a, NEW n \in Grain, a = b + SIZE_ALIGN + n,
         NEW e, e = Fol(h.hdr, b), a + SIZE_ALIGN + m = e,
         NEW f, f = INSERT_FREE_BLOCK(BeginCut(h, b, a, m), b)
  PROVE  Begun(h, f, b, a, e)
<1>1. PICK X, j : X = {} /\ j = BeginCut(h, b, a, m)
  OBVIOUS
<1>2. Sound(h, X, {b})
  <2>1. Sound(h, X, {} \cup {b})
    BY <1>1, TakeBusy
  <2> QED
    BY <2>1
<1>3. BeginDone(h, j, X, b, a, m)
  BY <1>1, <1>2, BeginCutSound
<1>4. /\ Sound(j, X \cup {e}, {b, a}) /\ a \notin DOMAIN h.hdr
      /\ DOMAIN j.hdr = DOMAIN h.hdr \cup {a} /\ Fol(j.hdr, b) = a /\ Fol(j.hdr, a) = e
      /\ j.hdr[b].prevFree = h.hdr[b].prevFree /\ Kept(h.hdr, j.hdr, {b, a})
      /\ j.hdr[b].free /\ ~j.hdr[a].free
  BY <1>3 DEF BeginDone, CutDone
<1>5. Sound(j, {e}, {b})
  <2>1. X \cup {e} = {e} /\ {b, a} = {b} \cup {a}
    BY <1>1
  <2>2. Sound(j, {e}, {b} \cup {a})
    BY <1>4, <2>1
  <2> QED
    BY <1>4, <2>2, DropBusy
<1>6. Tiles(h.hdr) /\ 0 \in DOMAIN h.hdr /\ End \in DOMAIN h.hdr
  BY DEF Sound, Tiles
<1>7. b # e
  BY <1>6, FolNotZero
<1>8. Sound(f, {e}, {}) /\ f.hdr = j.hdr
  <2>1. PICK W : W = {e}
    OBVIOUS
  <2>2. /\ Sound(j, W, {b}) /\ b \in DOMAIN j.hdr \ {0, End} /\ j.hdr[b].free
        /\ b \notin W /\ ~j.hdr[b].prevFree /\ ~j.hdr[Fol(j.hdr, b)].free
    BY <1>4, <1>5, <1>7, <2>1
  <2>3. Sound(f, W, {}) /\ f.hdr = j.hdr
    BY <1>1, <2>2, InsertSound
  <2> QED
    BY <2>1, <2>3
<1>9. IsHeap(f)
  BY <1>8 DEF Sound
<1> QED
  BY <1>4, <1>6, <1>8, <1>9 DEF Begun, Busy

(* The same with the length of the aligned block set at once.              *)
LEMMA FreeBeginResized ==
  ASSUME NEW h, Sound(h, {}, {}), NEW b \in DOMAIN h.hdr \ {0, End}, ~h.hdr[b].free,
         ~h.hdr[b].prevFree, NEW m \in Grain, NEW a, NEW n \in Grain, a = b + SIZE_ALIGN + n,
         a + SIZE_ALIGN + m = Fol(h.hdr, b), NEW l
  PROVE  FreeBegin(h, b, a, l) = SetSize(INSERT_FREE_BLOCK(BeginCut(h, b, a, m), b), a, l)
<1>1. PICK X, j, k : X = {} /\ j = BeginCut(h, b, a, m) /\ k = BeginCut(h, b, a, l)
  OBVIOUS
<1>2. Sound(h, X, {b})
  <2>1. Sound(h, X, {} \cup {b})
    BY <1>1, TakeBusy
  <2> QED
    BY <2>1
<1>3. BeginDone(h, j, X, b, a, m)
  BY <1>1, <1>2, BeginCutSound
<1>4. a \notin DOMAIN h.hdr /\ a # b /\ IsHeap(h) /\ IsHeap(j)
      /\ j.hdr[b].prevFree = h.hdr[b].prevFree
  BY <1>3 DEF BeginDone, CutDone, Sound
<1>5. k = SetSize(j, a, l)
  BY <1>1, <1>4, BeginCutResized
<1>6. ~k.hdr[b].prevFree
  <2>1. HasHdr(j, k, SizedHdr(j.hdr, a, l))
    BY <1>4, <1>5, SetSizeParts
  <2>2. k.hdr[b] = j.hdr[b]
    BY <1>4, <2>1 DEF HasHdr, SizedHdr
  <2> QED
    BY <1>4, <2>2
<1>7. PICK M : M = MERGE_PREV(k, b)
  OBVIOUS
<1>8. FreeBegin(h, b, a, l) = INSERT_FREE_BLOCK(k, b)
  <2>1. M.heap = k /\ M.block = b
    BY <1>6, <1>7 DEF MERGE_PREV
  <2>2. FreeBegin(h, b, a, l) = INSERT_FREE_BLOCK(M.heap, M.block)
    BY <1>1, <1>7 DEF FreeBegin, BeginCut
  <2> QED
    BY <2>1, <2>2
<1>9. INSERT_FREE_BLOCK(SetSize(j, a, l), b) = SetSize(INSERT_FREE_BLOCK(j, b), a, l)
  BY <1>4, InsertResized
<1> QED
  BY <1>1, <1>5, <1>8, <1>9

AlignedDone(h, m, n) ==
    IF m.block = Null THEN m.heap = h ELSE Taken(h, m.heap, m.block, n)

(* tlsf_malloc_aligned fails and changes nothing, or hands out a new busy  *)
(* block that is long enough.                                              *)
LEMMA AlignedSound ==
  ASSUME NEW h, Sound(h, {}, {}), NEW n \in Grain, n > 0, NEW i \in Nat,
         NEW align, align = 2 ^ i, align >= SIZE_ALIGN, NEW r, r = AlignedMalloc(h, n, align)
  PROVE  AlignedDone(h, r, n)
<1>1. PICK m, b, k, e, a, placed :
        /\ m = tlsf_intern_malloc(h, n + align) /\ b = m.block /\ k = m.heap
        /\ e = Fol(k.hdr, b) /\ a = AlignUp(b + SIZE_ALIGN, align) - SIZE_ALIGN
        /\ placed = IF a = b THEN SetSize(k, b, n) ELSE FreeBegin(k, b, a, n)
  OBVIOUS
<1>2. /\ SIZE_ALIGN \in Nat \ {0} /\ SIZE_ALIGN \in Grain /\ align \in Nat \ {0}
      /\ n \in Nat /\ Null \notin Nat
  BY PowNat, GrainNat, Settings
<1>3. r = IF b = Null \/ align <= SIZE_ALIGN THEN m
          ELSE [heap  |-> IF e >= Following(placed, a) + SIZE_ALIGN
                          THEN FreeEnd(placed, a, e) ELSE placed,
                block |-> a]
  <2>1. Following(k, b) = e /\ ((b + SIZE_ALIGN + align - 1) \div align) * align - SIZE_ALIGN = a
    BY <1>1 DEF Following, Fol, AlignUp
  <2> QED
    BY <1>1, <2>1 DEF AlignedMalloc
<1>4. align \in Grain
  <2>1. CASE align > SIZE_ALIGN
    BY <2>1, AlignUpFacts, GrainNat
  <2>2. CASE ~(align > SIZE_ALIGN)
    <3>1. align = SIZE_ALIGN
      BY <1>2, <2>2
    <3> QED
      BY <1>2, <3>1
  <2> QED
    BY <2>1, <2>2
<1>5. n + align \in Grain /\ n + align > 0
  BY <1>2, <1>4, GrainAdd
<1>6. Malloced(h, m, n + align)
  BY <1>1, <1>5, MallocSound
<1>7. CASE b = Null
  BY <1>1, <1>3, <1>6, <1>7 DEF Malloced, AlignedDone
<1>8. CASE b # Null
  <2>1. Taken(h, k, b, n + align) /\ ~k.hdr[b].prevFree
    BY <1>1, <1>6, <1>8 DEF Malloced
  <2>2. /\ Sound(k, {}, {}) /\ b \in DOMAIN k.hdr /\ ~k.hdr[b].free
        /\ b \notin Busy(h.hdr) /\ Kept(h.hdr, k.hdr, {b}) /\ k.hdr[b].size >= n + align
    BY <2>1 DEF Taken, Busy
  <2>3. b \notin {0, End}
    BY <2>2 DEF Sound, Tiles, Busy
  <2>4. b \in Grain /\ b \in Nat /\ k.hdr[b].size \in Nat
    BY <2>2, TileFacts, GrainNat DEF Sound
  <2>5. CASE align <= SIZE_ALIGN
    <3>1. r = m
      BY <1>3, <2>5
    <3>2. k.hdr[b].size >= n
      BY <1>2, <2>2, <2>4
    <3>3. Taken(h, k, b, n)
      BY <2>1, <3>2 DEF Taken
    <3> QED
      BY <1>1, <1>8, <3>1, <3>3 DEF AlignedDone
  <2>6. CASE ~(align <= SIZE_ALIGN)
    <3>1. align > SIZE_ALIGN
      BY <1>2, <2>6
    <3>2. a \in Grain /\ b <= a /\ a + SIZE_ALIGN <= b + align
      BY <1>1, <2>4, <3>1, AlignUpFacts
    <3>3. r = [heap |-> IF e >= Following(placed, a) + SIZE_ALIGN
                        THEN FreeEnd(placed, a, e) ELSE placed, block |-> a]
      BY <1>3, <1>8, <2>6
    <3>4. a \in Nat /\ a # Null
      BY <1>2, <3>2, GrainNat
    <3>5. e = b + SIZE_ALIGN + k.hdr[b].size /\ e \in Nat
      BY <1>1, <1>2, <2>4 DEF Fol
    <3>6. a + SIZE_ALIGN + n + SIZE_ALIGN <= e
      <4>1. PICK z : z = k.hdr[b].size
        OBVIOUS
      <4> QED
        BY <1>2, <2>2, <2>4, <3>2, <3>4, <3>5, <4>1
    <3>7. ASSUME NEW f, NEW X, Sound(f, X, {}), X \subseteq {e}, a \in DOMAIN f.hdr \ {0, End},
                 ~f.hdr[a].free, e = Fol(f.hdr, a), placed = SetSize(f, a, n)
          PROVE  Resized(f, r.heap, a, n) /\ r.block = a
      <4>1. Following(placed, a) = a + SIZE_ALIGN + n
        <5>1. IsHeap(f)
          BY <3>7 DEF Sound
        <5>2. HasHdr(f, placed, SizedHdr(f.hdr, a, n))
          BY <3>7, <5>1, SetSizeParts
        <5>3. f.hdr \in [DOMAIN f.hdr -> Header] /\ f.hdr[a] \in Header
          BY <3>7 DEF Sound, Tiles
        <5>4. SizedHdr(f.hdr, a, n)[a] = [f.hdr[a] EXCEPT !.size = n]
          BY <3>7, <5>3 DEF SizedHdr
        <5>5. SizedHdr(f.hdr, a, n)[a].size = n
          BY <5>3, <5>4, WithSize
        <5> QED
          BY <5>2, <5>5 DEF HasHdr, Following
      <4>2. e >= Following(placed, a) + SIZE_ALIGN
        BY <1>2, <3>4, <3>5, <3>6, <4>1
      <4>3. r.heap = FreeEnd(SetSize(f, a, n), a, e) /\ r.block = a
        BY <3>3, <3>7, <4>2
      <4>4. Resized(f, r.heap, a, n)
        BY <3>6, <3>7, <4>3, FreeEndSound
      <4> QED
        BY <4>3, <4>4
    <3>8. CASE a = b
      <4>1. PICK X : X = {}
        OBVIOUS
      <4>2. /\ Sound(k, X, {}) /\ X \subseteq {e} /\ a \in DOMAIN k.hdr \ {0, End}
            /\ ~k.hdr[a].free /\ e = Fol(k.hdr, a) /\ placed = SetSize(k, a, n)
        BY <1>1, <2>2, <2>3, <3>8, <4>1
      <4>3. Resized(k, r.heap, a, n) /\ r.block = a
        BY <3>7, <4>2
      <4>4. Kept(h.hdr, r.heap.hdr, {a})
        BY <2>2, <3>8, <4>3, KeptTwice DEF Resized
      <4> QED
        BY <2>2, <3>4, <3>8, <4>3, <4>4 DEF AlignedDone, Taken, Resized
    <3>9. CASE a # b
      <4>1. b + SIZE_ALIGN <= a
        <5>1. b < a
          BY <2>4, <3>2, <3>4, <3>9
        <5> QED
          BY <2>4, <3>2, <5>1, GrainLess
      <4>2. PICK p, q, f : /\ p = a - b - SIZE_ALIGN /\ q = e - a - SIZE_ALIGN
                           /\ f = INSERT_FREE_BLOCK(BeginCut(k, b, a, q), b)
        OBVIOUS
      <4>3. p \in Grain /\ a = b + SIZE_ALIGN + p
        <5>1. a - b \in Grain
          BY <2>4, <3>2, GrainSub
        <5>2. p \in Grain
          BY <1>2, <2>4, <3>4, <4>1, <4>2, <5>1, GrainSub
        <5> QED
          BY <1>2, <2>4, <3>4, <4>2, <5>2
      <4>4. q \in Grain /\ a + SIZE_ALIGN + q = e
        <5>1. Tiles(k.hdr) /\ b \in DOMAIN k.hdr \ {End}
          BY <2>2, <2>3 DEF Sound
        <5>2. e \in Grain
          <6>1. e \in DOMAIN k.hdr
            BY <1>1, <5>1, TileFacts
          <6> QED
            BY <5>1, <6>1, TileFacts
        <5>3. e - a \in Grain
          BY <1>2, <3>2, <3>4, <3>5, <3>6, <5>2, GrainSub
        <5>4. q \in Grain
          BY <1>2, <3>4, <3>5, <3>6, <4>2, <5>3, GrainSub
        <5> QED
          BY <1>2, <3>4, <3>5, <4>2, <5>4
      <4>5. Begun(k, f, b, a, e)
        BY <1>1, <2>1, <2>2, <2>3, <4>2, <4>3, <4>4, FreeBeginSound
      <4>6. placed = SetSize(f, a, n)
        <5>1. FreeBegin(k, b, a, n) = SetSize(f, a, n)
          BY <1>1, <2>1, <2>2, <2>3, <4>2, <4>3, <4>4, FreeBeginResized
        <5> QED
          BY <1>1, <3>9, <5>1
      <4>7. PICK X : X = {e}
        OBVIOUS
      <4>8. /\ Sound(f, X, {}) /\ X \subseteq {e} /\ a \in DOMAIN f.hdr \ {0, End}
            /\ ~f.hdr[a].free /\ e = Fol(f.hdr, a)
        BY <4>5, <4>7 DEF Begun
      <4>9. Resized(f, r.heap, a, n) /\ r.block = a
        BY <3>7, <4>6, <4>8
      <4>10. PICK Z : Z = {b, a}
        OBVIOUS
      <4>11. Kept(h.hdr, r.heap.hdr, Z)
        <5>1. Kept(h.hdr, k.hdr, Z)
          BY <2>2, <4>10, KeptMore
        <5>2. Kept(k.hdr, f.hdr, Z)
          BY <4>5, <4>10 DEF Begun
        <5>3. Kept(f.hdr, r.heap.hdr, Z)
          <6>1. {a} \subseteq Z
            BY <4>10
          <6> QED
            BY <4>9, <6>1, KeptMore DEF Resized
        <5> QED
          BY <5>1, <5>2, <5>3, KeptTwice
      <4>12. b \notin Busy(r.heap.hdr)
        BY <3>9, <4>5, <4>9 DEF Begun, Resized, Kept
      <4>13. Kept(h.hdr, r.heap.hdr, {a})
        <5>1. \A x \in Z \ {a} : x \notin Busy(h.hdr) \cup Busy(r.heap.hdr)
          BY <2>2, <4>10, <4>12
        <5> QED
          BY <4>11, <5>1, KeptLess
      <4>14. a \notin Busy(h.hdr)
        <5>1. a \notin Busy(k.hdr)
          BY <4>5 DEF Begun, Busy
        <5> QED
          BY <2>2, <3>9, <5>1 DEF Kept
      <4> QED
        BY <3>4, <4>9, <4>13, <4>14 DEF AlignedDone, Taken, Resized
    <3> QED
      BY <3>8, <3>9
  <2> QED
    BY <2>5, <2>6
<1> QED
  BY <1>7, <1>8

-----------------------------------------------------------------------------
(* The pool before its first block is released.                            *)
FirstHdr ==
    [b \in {0, Block0, End} |->
        [prev     |-> IF b = 0 THEN Null ELSE IF b = Block0 THEN 0 ELSE Block0,
         size     |-> IF b = 0 THEN SIZE_ALIGN
                      ELSE IF b = Block0 THEN PoolSize - 4 * SIZE_ALIGN ELSE 0,
         free     |-> FALSE,
         prevFree |-> FALSE]]

(* The parts of the pool as init_memory_area writes it.                    *)
LEMMA FirstHeaders ==
  ASSUME NEW h, h = init_memory_area
  PROVE  /\ IsHeap(h) /\ h.hdr = FirstHdr
         /\ h.node = [x \in {} |-> 0] /\ h.matrix = [c \in Class |-> Null]
         /\ h.slbitmap = {} /\ h.flbitmap = {} /\ h.free_size = 0
BY DEF init_memory_area, IsHeap, FirstHdr

(* Three busy blocks tile the pool.                                        *)
LEMMA FirstTiles ==
  ASSUME NEW g, g = FirstHdr
  PROVE  Tiles(g) /\ Linked(g, {}) /\ Merged(g, {}) /\ Busy(g) = {0, Block0, End}
         /\ Members(g) = {}
<1>1. /\ Block0 \in Grain /\ End \in Grain /\ Block0 # 0 /\ Block0 # End /\ End # 0
      /\ Block0 \in Nat /\ End \in Nat /\ Block0 < End
  BY EndFacts, Settings
<1>2. SIZE_ALIGN \in Grain /\ 0 \in Grain /\ SIZE_ALIGN \in Nat \ {0}
  BY GrainNat, Settings
<1>3. PoolSize - 4 * SIZE_ALIGN \in Grain
  <2>1. 4 * SIZE_ALIGN \in Grain
    BY GrainTimes
  <2> QED
    BY <2>1, EndFacts, Settings, GrainSub
<1>4. DOMAIN g = {0, Block0, End}
  BY DEF FirstHdr
<1>5. /\ g[0].prev = Null /\ g[0].size = SIZE_ALIGN
      /\ g[Block0].prev = 0 /\ g[Block0].size = PoolSize - 4 * SIZE_ALIGN
      /\ g[End].prev = Block0 /\ g[End].size = 0
  BY <1>1 DEF FirstHdr
<1>6. \A x \in DOMAIN g : g[x].free = FALSE /\ g[x].prevFree = FALSE
  BY DEF FirstHdr
<1>7. g \in [DOMAIN g -> Header]
  <2>1. \A x \in DOMAIN g : g[x] \in Header
    BY <1>1, <1>2, <1>3 DEF FirstHdr, Header
  <2> QED
    BY <2>1 DEF FirstHdr
<1>8. Fol(g, 0) = Block0 /\ Fol(g, Block0) = End
  BY <1>2, <1>5, Settings DEF Fol, Block0, End
<1>9. Tiles(g)
  <2>1. \A b \in DOMAIN g \ {End} :
          Fol(g, b) \in DOMAIN g /\ \A x \in DOMAIN g : b < x => Fol(g, b) <= x
    BY <1>1, <1>4, <1>8
  <2>2. DOMAIN g \subseteq Grain \cap (0 .. End)
    BY <1>1, <1>2, <1>4
  <2> QED
    BY <1>1, <1>4, <1>5, <1>6, <1>7, <2>1, <2>2 DEF Tiles
<1>10. Linked(g, {})
  BY <1>1, <1>4, <1>5, <1>6, <1>8 DEF Linked
<1>11. Merged(g, {})
  BY <1>6 DEF Merged
<1> QED
  BY <1>4, <1>6, <1>9, <1>10, <1>11 DEF Busy, Members

(* The pool with its one block still busy is sound.                        *)
LEMMA FirstSound ==
  ASSUME NEW h, h = init_memory_area
  PROVE  Sound(h, {}, {}) /\ Busy(h.hdr) = {0, Block0, End}
<1>1. PICK g, M : g = FirstHdr /\ M = Members(g) \ {}
  OBVIOUS
<1>2. /\ IsHeap(h) /\ h.hdr = g
      /\ h.node = [x \in {} |-> 0] /\ h.matrix = [c \in Class |-> Null]
      /\ h.slbitmap = {} /\ h.flbitmap = {} /\ h.free_size = 0
  BY <1>1, FirstHeaders
<1>3. /\ Tiles(g) /\ Linked(g, {}) /\ Merged(g, {}) /\ Busy(g) = {0, Block0, End} /\ M = {}
  BY <1>1, FirstTiles
<1>4. PICK cl : cl = Classes(g, M)
  OBVIOUS
<1>5. DOMAIN cl = {} /\ cl = [x \in {} |-> 0]
  BY <1>3, <1>4 DEF Classes
<1>6. Lists(h.node, h.matrix, h.slbitmap, h.flbitmap, cl, cl)
  <2>1. Ranking(cl, cl)
    BY <1>5 DEF Ranking
  <2>2. IsLinks(h.node, cl)
    BY <1>2, <1>5 DEF IsLinks
  <2>3. NextLinks(h.node, cl, cl) /\ PrevLinks(h.node, cl, cl)
    BY <1>5 DEF NextLinks, PrevLinks
  <2>4. Heads(h.matrix, cl, cl)
    BY <1>2, <1>5 DEF Heads
  <2>5. Bitmaps(h.matrix, h.slbitmap, h.flbitmap)
    BY <1>2 DEF Bitmaps
  <2> QED
    BY <2>1, <2>2, <2>3, <2>4, <2>5 DEF Lists
<1>7. h.free_size = Cardinality(Held(g, M))
  <2>1. Held(g, M) = {}
    BY <1>3 DEF Held
  <2> QED
    BY <1>2, <2>1, FS_EmptySet
<1>8. Carries(h, M)
  <2>1. IsFiniteSet(M) /\ \A x \in M : h.hdr[x].size \in 1 .. PoolSize
    BY <1>3, FS_EmptySet
  <2>2. \A x \in M : cl[x] < 0
    BY <1>3
  <2>3. Lists(h.node, h.matrix, h.slbitmap, h.flbitmap, Classes(h.hdr, M), cl)
    BY <1>2, <1>4, <1>6
  <2>4. \E rk, top : /\ top \in Nat /\ \A x \in M : rk[x] < top
                    /\ Lists(h.node, h.matrix, h.slbitmap, h.flbitmap, Classes(h.hdr, M), rk)
    <3>1. 0 \in Nat
      OBVIOUS
    <3> QED
      BY <2>2, <2>3, <3>1
  <2>5. h.free_size = Cardinality(Held(h.hdr, M))
    BY <1>2, <1>7
  <2> QED
    BY <2>1, <2>4, <2>5 DEF Carries
<1> QED
  BY <1>1, <1>2, <1>3, <1>8 DEF Sound

(* init_memory_area and the release of its one block.                      *)
LEMMA InitSound ==
  ASSUME NEW k, k = Release(init_memory_area, Block0)
  PROVE  Sound(k, {}, {}) /\ Busy(k.hdr) = {0, End}
<1>1. PICK h : h = init_memory_area
  OBVIOUS
<1>2. Sound(h, {}, {}) /\ Busy(h.hdr) = {0, Block0, End}
  BY <1>1, FirstSound
<1>3. Block0 # 0 /\ Block0 # End
  BY EndFacts, Settings
<1>4. Block0 \in DOMAIN h.hdr \ {0, End} /\ ~h.hdr[Block0].free
  BY <1>2, <1>3 DEF Busy
<1>5. Released(h, k, Block0)
  BY <1>1, <1>2, <1>4, ReleaseSound
<1> QED
  BY <1>2, <1>3, <1>5 DEF Released, Kept

-----------------------------------------------------------------------------
(***************************************************************************)
(* The clients.  Every busy block but the two at the ends of the pool has  *)
(* one owner and the length its owner asked for, and no two threads have   *)
(* the same block in hand.                                                 *)
(***************************************************************************)
Owns(g, o) ==
    /\ DOMAIN o \subseteq Nat /\ o \in [DOMAIN o -> Request]
    /\ Busy(g) \ {0, End} = {Hdr(p) : p \in DOMAIN o}
    /\ \A p \in DOMAIN o : o[p] <= g[Hdr(p)].size

Hand(o) == [old : DOMAIN o \cup {Null}, new : DOMAIN o \cup {Null}, size : Request \cup {0}]

(* r is what is left of a move of a block of o.                            *)
IsMove(r, o) ==
    /\ r \in Hand(o)
    /\ r.new # Null => r.old # Null /\ r.old # r.new
    /\ r.old # Null => r.size \in Request

Moves(f, o) ==
    /\ f \in [Thread -> Hand(o)]
    /\ \A t \in Thread : IsMove(f[t], o)
    /\ \A s, t \in Thread : s # t => {f[s].old, f[s].new} \cap {f[t].old, f[t].new} \subseteq {Null}

Inv == Sound(heap, {}, {}) /\ Owns(heap.hdr, owned) /\ Moves(op, owned)

Gave(o, p, n) == [q \in DOMAIN o \cup {p} |-> IF q = p THEN n ELSE o[q]]
Took(o, p)    == [q \in DOMAIN o \ {p} |-> o[q]]

(* Blocks and their headers correspond.                                    *)
LEMMA HdrMem ==
  /\ \A b \in Nat : Mem(b) \in Nat /\ Hdr(Mem(b)) = b
  /\ \A p \in Nat : Mem(Hdr(p)) = p /\ Hdr(p) \in Int
  /\ \A p, q \in Nat : Hdr(p) = Hdr(q) => p = q
  BY Settings DEF Hdr, Mem

(* The header of a block that is owned.                                    *)
LEMMA OwnedBlock ==
  ASSUME NEW g, Tiles(g), NEW o, Owns(g, o), NEW p \in DOMAIN o
  PROVE  /\ Hdr(p) \in DOMAIN g \ {0, End} /\ ~g[Hdr(p)].free /\ p \in Nat /\ o[p] \in Request
         /\ Hdr(p) \in Busy(g) /\ o[p] <= g[Hdr(p)].size
<1>1. Hdr(p) \in Busy(g) \ {0, End}
  BY DEF Owns
<1> QED
  BY <1>1 DEF Busy, Owns

(* The blocks at the ends are busy.                                        *)
LEMMA EndsBusy == ASSUME NEW g, Tiles(g) PROVE 0 \in Busy(g) /\ End \in Busy(g)
  BY DEF Tiles, Busy

(* A new busy block has the one who asked as its owner.                    *)
LEMMA OwnsTaken ==
  ASSUME NEW g, NEW k, Tiles(g), Tiles(k), NEW o, Owns(g, o), NEW b, Kept(g, k, {b}),
         b \in Busy(k) \ Busy(g), NEW n \in Request, n <= k[b].size
  PROVE  Owns(k, Gave(o, Mem(b), n)) /\ Mem(b) \notin DOMAIN o
<1>1. b \in Nat /\ b # 0 /\ b # End
  <2>1. b \in DOMAIN k
    BY DEF Busy
  <2> QED
    BY <2>1, EndsBusy, TileFacts
<1>2. PICK p, d : p = Mem(b) /\ d = Gave(o, p, n)
  OBVIOUS
<1>3. p \in Nat /\ Hdr(p) = b
  BY <1>1, <1>2, HdrMem
<1>4. p \notin DOMAIN o
  BY <1>3, OwnedBlock
<1>5. DOMAIN d = DOMAIN o \cup {p} /\ d[p] = n /\ \A q \in DOMAIN o : d[q] = o[q]
  BY <1>2, <1>4 DEF Gave
<1>6. DOMAIN d \subseteq Nat /\ d \in [DOMAIN d -> Request]
  <2>1. \A q \in DOMAIN d : d[q] \in Request
    BY <1>5, OwnedBlock
  <2> QED
    BY <1>2, <1>3, <1>5, <2>1 DEF Gave, Owns
<1>7. Busy(k) = Busy(g) \cup {b}
  BY DEF Kept
<1>8. Busy(k) \ {0, End} = {Hdr(q) : q \in DOMAIN d}
  BY <1>1, <1>3, <1>5, <1>7 DEF Owns
<1>9. \A q \in DOMAIN d : d[q] <= k[Hdr(q)].size
  <2>1. \A q \in DOMAIN o : k[Hdr(q)].size = g[Hdr(q)].size
    BY OwnedBlock DEF Kept
  <2> QED
    BY <1>3, <1>5, <2>1, OwnedBlock
<1> QED
  BY <1>2, <1>4, <1>6, <1>8, <1>9 DEF Owns

(* A block released has no owner.                                          *)
LEMMA OwnsReleased ==
  ASSUME NEW g, NEW k, Tiles(g), NEW o, Owns(g, o), NEW p \in DOMAIN o,
         Kept(g, k, {Hdr(p)}), Hdr(p) \notin Busy(k)
  PROVE  Owns(k, Took(o, p))
<1>1. PICK b, d : b = Hdr(p) /\ d = Took(o, p)
  OBVIOUS
<1>2. DOMAIN d = DOMAIN o \ {p} /\ \A q \in DOMAIN d : d[q] = o[q]
  BY <1>1 DEF Took
<1>3. \A q \in DOMAIN d : q \in DOMAIN o /\ q \in Nat /\ Hdr(q) # b
  BY <1>1, <1>2, HdrMem, OwnedBlock
<1>4. DOMAIN d \subseteq Nat /\ d \in [DOMAIN d -> Request]
  <2>1. \A q \in DOMAIN d : d[q] \in Request
    BY <1>2, OwnedBlock
  <2> QED
    BY <1>1, <1>3, <2>1 DEF Took
<1>5. Busy(k) = Busy(g) \ {b}
  BY <1>1 DEF Kept
<1>6. Busy(k) \ {0, End} = {Hdr(q) : q \in DOMAIN d}
  BY <1>1, <1>2, <1>3, <1>5 DEF Owns
<1>7. \A q \in DOMAIN d : d[q] <= k[Hdr(q)].size
  <2>1. \A q \in DOMAIN d : k[Hdr(q)].size = g[Hdr(q)].size
    BY <1>1, <1>3, OwnedBlock DEF Kept
  <2> QED
    BY <1>2, <1>3, <2>1, OwnedBlock
<1> QED
  BY <1>1, <1>4, <1>6, <1>7 DEF Owns

(* A block resized keeps its owner.                                        *)
LEMMA OwnsResized ==
  ASSUME NEW g, NEW k, Tiles(g), NEW o, Owns(g, o), NEW p \in DOMAIN o,
         Kept(g, k, {Hdr(p)}), Hdr(p) \in Busy(k), NEW n \in Request, n <= k[Hdr(p)].size
  PROVE  Owns(k, Gave(o, p, n))
<1>1. PICK b, d : b = Hdr(p) /\ d = Gave(o, p, n)
  OBVIOUS
<1>2. DOMAIN d = DOMAIN o /\ d[p] = n /\ \A q \in DOMAIN d \ {p} : d[q] = o[q]
  BY <1>1 DEF Gave
<1>3. \A q \in DOMAIN d \ {p} : q \in DOMAIN o /\ q \in Nat /\ Hdr(q) # b
  BY <1>1, <1>2, HdrMem, OwnedBlock
<1>4. DOMAIN d \subseteq Nat /\ d \in [DOMAIN d -> Request]
  <2>1. \A q \in DOMAIN d : d[q] \in Request
    BY <1>2, OwnedBlock
  <2> QED
    BY <1>1, <1>2, <2>1, OwnedBlock DEF Gave
<1>5. Busy(k) = Busy(g)
  BY <1>1, OwnedBlock DEF Kept
<1>6. Busy(k) \ {0, End} = {Hdr(q) : q \in DOMAIN d}
  BY <1>2, <1>5 DEF Owns
<1>7. \A q \in DOMAIN d : d[q] <= k[Hdr(q)].size
  <2>1. \A q \in DOMAIN d \ {p} : k[Hdr(q)].size = g[Hdr(q)].size
    BY <1>1, <1>3, OwnedBlock DEF Kept
  <2> QED
    BY <1>2, <1>3, <2>1, OwnedBlock
<1> QED
  BY <1>1, <1>4, <1>6, <1>7 DEF Owns

-----------------------------------------------------------------------------
(* The moves.                                                              *)
LEMMA MovesGiven ==
  ASSUME NEW f, NEW o, Moves(f, o), NEW d, DOMAIN o \subseteq DOMAIN d
  PROVE  Moves(f, d)
<1>1. Hand(o) \subseteq Hand(d)
  BY DEF Hand
<1>2. f \in [Thread -> Hand(d)]
  BY <1>1 DEF Moves
<1>3. \A t \in Thread : IsMove(f[t], d)
  BY <1>1 DEF Moves, IsMove
<1> QED
  BY <1>2, <1>3 DEF Moves

(* Whatever is in hand is still owned.                                     *)
LEMMA MovesOwned ==
  ASSUME NEW f, NEW o, Moves(f, o), NEW d,
         \A t \in Thread : {f[t].old, f[t].new} \subseteq DOMAIN d \cup {Null}
  PROVE  Moves(f, d)
<1>1. \A t \in Thread : f[t] \in Hand(d)
  <2>1. SUFFICES ASSUME NEW t \in Thread PROVE f[t] \in Hand(d)
    OBVIOUS
  <2>2. PICK r : r = f[t]
    OBVIOUS
  <2>3. r \in Hand(o) /\ r.old \in DOMAIN d \cup {Null} /\ r.new \in DOMAIN d \cup {Null}
    BY <2>2 DEF Moves
  <2>4. r \in Hand(d)
    BY <2>3 DEF Hand
  <2> QED
    BY <2>2, <2>4
<1>2. f \in [Thread -> Hand(d)]
  BY <1>1 DEF Moves
<1>3. \A t \in Thread : IsMove(f[t], d)
  BY <1>1 DEF Moves, IsMove
<1> QED
  BY <1>2, <1>3 DEF Moves

(* Thread t goes on to r.                                                  *)
LEMMA MovesPut ==
  ASSUME NEW f, NEW o, Moves(f, o), NEW t \in Thread, NEW r, IsMove(r, o),
         \A s \in Thread \ {t} : {f[s].old, f[s].new} \cap {r.old, r.new} \subseteq {Null}
  PROVE  Moves([f EXCEPT ![t] = r], o)
<1>1. PICK e : e = [f EXCEPT ![t] = r]
  OBVIOUS
<1>2. f \in [Thread -> Hand(o)] /\ r \in Hand(o)
  BY DEF Moves, IsMove
<1>3. e \in [Thread -> Hand(o)] /\ e[t] = r /\ \A s \in Thread \ {t} : e[s] = f[s]
  BY <1>1, <1>2
<1>4. \A s \in Thread : IsMove(e[s], o)
  BY <1>3 DEF Moves
<1>5. \A s, u \in Thread : s # u => {e[s].old, e[s].new} \cap {e[u].old, e[u].new} \subseteq {Null}
  <2>1. SUFFICES ASSUME NEW s \in Thread, NEW u \in Thread, s # u
                 PROVE  {e[s].old, e[s].new} \cap {e[u].old, e[u].new} \subseteq {Null}
    OBVIOUS
  <2>2. CASE s = t
    <3>1. e[s] = r /\ e[u] = f[u] /\ u \in Thread \ {t}
      BY <1>3, <2>1, <2>2
    <3> QED
      BY <3>1
  <2>3. CASE u = t
    <3>1. e[u] = r /\ e[s] = f[s] /\ s \in Thread \ {t}
      BY <1>3, <2>1, <2>3
    <3> QED
      BY <3>1
  <2>4. CASE s # t /\ u # t
    <3>1. e[u] = f[u] /\ e[s] = f[s]
      BY <1>3, <2>4
    <3> QED
      BY <2>1, <3>1 DEF Moves
  <2> QED
    BY <2>2, <2>3, <2>4
<1> QED
  BY <1>1, <1>3, <1>4, <1>5 DEF Moves

-----------------------------------------------------------------------------
(* The actions, one by one.                                                *)
LEMMA IdleMove == \A o : IsMove(Idle, o)
  BY DEF Idle, IsMove, Hand

(* Requests after rounding.                                                *)
LEMMA Rounded ==
  ASSUME NEW n \in Request
  PROVE  ROUNDUP(n) \in Grain /\ ROUNDUP(n) \in Nat \ {0} /\ n <= ROUNDUP(n) /\ n \in Nat \ {0}
  BY RoundUp, Settings

(* What one call hands out.                                                *)
Dealt(h, o, k, d, b, n) ==
    /\ Sound(k, {}, {}) /\ Owns(k.hdr, d)
    /\ IF b = Null THEN d = o ELSE Mem(b) \notin DOMAIN o /\ d = Gave(o, Mem(b), n)

(* A block found is a block dealt.                                         *)
LEMMA TakenDealt ==
  ASSUME NEW h, NEW o, Sound(h, {}, {}), Owns(h.hdr, o), NEW n \in Request, NEW b,
         NEW k, NEW d, b = Null => k = h /\ d = o,
         b # Null => Taken(h, k, b, ROUNDUP(n)) /\ d = Gave(o, Mem(b), n)
  PROVE  Dealt(h, o, k, d, b, n)
<1>1. CASE b = Null
  BY <1>1 DEF Dealt
<1>2. CASE b # Null
  <2>1. PICK g, l : g = h.hdr /\ l = k.hdr
    OBVIOUS
  <2>2. /\ Sound(k, {}, {}) /\ Kept(g, l, {b}) /\ b \in Busy(l) \ Busy(g)
        /\ l[b].size >= ROUNDUP(n)
    BY <1>2, <2>1 DEF Taken
  <2>3. Tiles(g) /\ Tiles(l) /\ Owns(g, o)
    BY <2>1, <2>2 DEF Sound
  <2>4. n <= l[b].size
    <3>1. l[b].size \in Nat
      BY <2>2, <2>3, TileFacts, GrainNat DEF Busy
    <3> QED
      BY <2>2, <3>1, Rounded
  <2>5. Owns(l, Gave(o, Mem(b), n)) /\ Mem(b) \notin DOMAIN o
    BY <2>2, <2>3, <2>4, OwnsTaken
  <2> QED
    BY <1>2, <2>1, <2>2, <2>5 DEF Dealt
<1> QED
  BY <1>1, <1>2

(* To give takes nothing away.                                             *)
LEMMA GaveMore == \A o, p, n : DOMAIN o \subseteq DOMAIN Gave(o, p, n)
  BY DEF Gave

(* What a request adds to owned, if anything.                              *)
Given(b, n) == IF b = Null THEN owned' = owned
               ELSE Mem(b) \notin DOMAIN owned /\ owned' = Gave(owned, Mem(b), n)

(* What is dealt keeps the invariant.                                      *)
LEMMA DealtInv ==
  ASSUME Inv, NEW b, NEW n \in Request, Dealt(heap, owned, heap', owned', b, n), op' = op
  PROVE  Inv' /\ Given(b, n)
<1>1. Given(b, n)
  BY DEF Dealt, Given
<1>2. Sound(heap', {}, {}) /\ Owns(heap'.hdr, owned')
  BY DEF Dealt
<1>3. DOMAIN owned \subseteq DOMAIN owned'
  BY <1>1, GaveMore DEF Given
<1>4. Moves(op', owned')
  BY <1>3, MovesGiven DEF Inv
<1> QED
  BY <1>1, <1>2, <1>4 DEF Inv

(* tlsf_malloc.                                                            *)
LEMMA MallocStep ==
  ASSUME Inv, NEW t \in Thread, NEW n \in Request, tlsf_malloc(t, n)
  PROVE  Inv' /\ \E b : Given(b, n)
<1>1. PICK m, b : m = tlsf_intern_malloc(heap, ROUNDUP(n)) /\ b = m.block
  OBVIOUS
<1>2. heap' = m.heap /\ op' = op
  BY <1>1 DEF tlsf_malloc
<1>3. /\ b = Null => owned' = owned
      /\ b # Null => owned' = Gave(owned, Mem(b), n)
  BY <1>1 DEF tlsf_malloc, Give, Gave
<1>4. Malloced(heap, m, ROUNDUP(n))
  BY <1>1, Rounded, MallocSound DEF Inv
<1>5. Dealt(heap, owned, heap', owned', b, n)
  <2>1. Sound(heap, {}, {}) /\ Owns(heap.hdr, owned)
    BY DEF Inv
  <2>2. /\ b = Null => heap' = heap
        /\ b # Null => Taken(heap, heap', b, ROUNDUP(n))
    BY <1>1, <1>2, <1>4 DEF Malloced
  <2> QED
    BY <1>3, <2>1, <2>2, TakenDealt
<1> QED
  BY <1>2, <1>5, DealtInv

(* tlsf_malloc_aligned: its alignment is a power of two not below the      *)
(* granularity.                                                            *)
LEMMA AlignedStep ==
  ASSUME Inv, NEW t \in Thread, NEW n \in Request, NEW a \in Alignment, tlsf_malloc_aligned(t, n, a)
  PROVE  Inv' /\ \E b : Given(b, n)
<1>1. PICK c, i, align : c = (IF a < SIZE_ALIGN THEN SIZE_ALIGN ELSE a) /\ i = MS(c) /\ align = 2 ^ i
  OBVIOUS
<1>2. PICK m, b : m = AlignedMalloc(heap, ROUNDUP(n), align) /\ b = m.block
  OBVIOUS
<1>3. heap' = m.heap /\ op' = op
  BY <1>1, <1>2 DEF tlsf_malloc_aligned
<1>4. /\ b = Null => owned' = owned
      /\ b # Null => owned' = Gave(owned, Mem(b), n)
  BY <1>1, <1>2 DEF tlsf_malloc_aligned, Give, Gave
<1>5. i \in Nat /\ align >= SIZE_ALIGN
  <2>1. c \in Nat \ {0} /\ c >= SIZE_ALIGN
    BY <1>1, Settings
  <2>2. PICK k \in Nat : SIZE_ALIGN = 2 ^ k
    BY Settings
  <2>3. i \in Nat /\ i >= k
    BY <1>1, <2>1, <2>2, HighestBit, HighestBitBounds
  <2> QED
    BY <1>1, <2>2, <2>3, PowMono, PowNat
<1>6. AlignedDone(heap, m, ROUNDUP(n))
  BY <1>1, <1>2, <1>5, Rounded, AlignedSound DEF Inv
<1>7. Dealt(heap, owned, heap', owned', b, n)
  <2>1. Sound(heap, {}, {}) /\ Owns(heap.hdr, owned)
    BY DEF Inv
  <2>2. /\ b = Null => heap' = heap
        /\ b # Null => Taken(heap, heap', b, ROUNDUP(n))
    BY <1>2, <1>3, <1>6 DEF AlignedDone
  <2> QED
    BY <1>4, <2>1, <2>2, TakenDealt
<1> QED
  BY <1>3, <1>7, DealtInv

(* A block of an owner goes back to the pool.                              *)
LEMMA ReleasedOwned ==
  ASSUME Inv, NEW p \in DOMAIN owned
  PROVE  /\ Sound(Release(heap, Hdr(p)), {}, {})
         /\ Owns(Release(heap, Hdr(p)).hdr, Took(owned, p))
<1>1. PICK b, k, g : b = Hdr(p) /\ k = Release(heap, b) /\ g = heap.hdr
  OBVIOUS
<1>2. Sound(heap, {}, {}) /\ Tiles(g) /\ Owns(g, owned)
  BY <1>1 DEF Inv, Sound
<1>3. b \in DOMAIN g \ {0, End} /\ ~g[b].free
  BY <1>1, <1>2, OwnedBlock
<1>4. Released(heap, k, b)
  BY <1>1, <1>2, <1>3, ReleaseSound
<1>5. Sound(k, {}, {}) /\ Kept(g, k.hdr, {b}) /\ b \notin Busy(k.hdr)
  BY <1>1, <1>4 DEF Released
<1>6. Owns(k.hdr, Took(owned, p))
  BY <1>1, <1>2, <1>5, OwnsReleased
<1> QED
  BY <1>1, <1>5, <1>6

(* tlsf_free: no move has the block in hand.                               *)
LEMMA FreeStep ==
  ASSUME Inv, NEW t \in Thread, NEW p \in Mine, tlsf_free(t, p)
  PROVE  Inv' /\ p \in DOMAIN owned /\ owned' = Took(owned, p)
<1>1. p \in DOMAIN owned /\ \A s \in Thread : p \notin {op[s].old, op[s].new}
  BY DEF Mine
<1>2. heap' = Release(heap, Hdr(p)) /\ owned' = Took(owned, p) /\ op' = op
  BY DEF tlsf_free, Took
<1>3. Sound(heap', {}, {}) /\ Owns(heap'.hdr, owned')
  BY <1>1, <1>2, ReleasedOwned
<1>4. Moves(op, owned')
  <2>1. \A s \in Thread : {op[s].old, op[s].new} \subseteq DOMAIN owned' \cup {Null}
    <3>1. \A s \in Thread : {op[s].old, op[s].new} \subseteq DOMAIN owned \cup {Null}
      BY DEF Inv, Moves, IsMove, Hand
    <3> QED
      BY <1>1, <1>2, <3>1 DEF Took
  <2> QED
    BY <2>1, MovesOwned DEF Inv
<1> QED
  BY <1>1, <1>2, <1>3, <1>4 DEF Inv

-----------------------------------------------------------------------------
(* tlsf_realloc.                                                           *)
LEMMA ResizedOwned ==
  ASSUME Inv, NEW p \in DOMAIN owned, NEW n \in Request, NEW k,
         Resized(heap, k, Hdr(p), ROUNDUP(n))
  PROVE  Sound(k, {}, {}) /\ Owns(k.hdr, Gave(owned, p, n))
<1>1. PICK b, g, l : b = Hdr(p) /\ g = heap.hdr /\ l = k.hdr
  OBVIOUS
<1>2. /\ Sound(k, {}, {}) /\ Kept(g, l, {b}) /\ b \in Busy(l) /\ l[b].size >= ROUNDUP(n)
  BY <1>1 DEF Resized
<1>3. Tiles(g) /\ Tiles(l) /\ Owns(g, owned)
  BY <1>1, <1>2 DEF Inv, Sound
<1>4. n <= l[b].size
  <2>1. l[b].size \in Nat
    BY <1>2, <1>3, TileFacts, GrainNat DEF Busy
  <2> QED
    BY <1>2, <2>1, Rounded
<1>5. Owns(l, Gave(owned, p, n))
  BY <1>1, <1>2, <1>3, <1>4, OwnsResized
<1> QED
  BY <1>1, <1>2, <1>5

(* tlsf_realloc: the same length, shorter, longer in place, or the start   *)
(* of a move.                                                              *)
LEMMA ReallocStep ==
  ASSUME Inv, NEW t \in Thread, NEW p \in Mine, NEW n \in Request, tlsf_realloc(t, p, n)
  PROVE  Inv' /\ p \in DOMAIN owned /\ owned' \in {owned, Gave(owned, p, n)}
<1>1. p \in DOMAIN owned /\ \A s \in Thread : p \notin {op[s].old, op[s].new}
  BY DEF Mine
<1>2. PICK b, size, g : b = Hdr(p) /\ size = ROUNDUP(n) /\ g = heap.hdr
  OBVIOUS
<1>3. Sound(heap, {}, {}) /\ Tiles(g) /\ Owns(g, owned) /\ Moves(op, owned)
  BY <1>2 DEF Inv, Sound
<1>4. b \in DOMAIN heap.hdr \ {0, End} /\ ~heap.hdr[b].free /\ b \in Busy(g)
  BY <1>1, <1>2, <1>3, OwnedBlock
<1>5. size \in Grain /\ size \in Nat
  BY <1>2, Rounded
<1>6. ASSUME Resized(heap, heap', b, size), owned' = Gave(owned, p, n), op' = op
      PROVE  Inv' /\ owned' = Gave(owned, p, n)
  <2>1. Sound(heap', {}, {}) /\ Owns(heap'.hdr, owned')
    BY <1>1, <1>2, <1>6, ResizedOwned
  <2>2. DOMAIN owned \subseteq DOMAIN owned'
    BY <1>6, GaveMore
  <2>3. Moves(op', owned')
    BY <1>3, <1>6, <2>2, MovesGiven
  <2> QED
    BY <1>6, <2>1, <2>3 DEF Inv
<1>7. CASE size = Size(heap, b) /\ UNCHANGED <<heap, op>> /\ Give(p, n)
  <2>1. owned' = Gave(owned, p, n) /\ op' = op /\ heap' = heap
    BY <1>7 DEF Give, Gave
  <2>2. heap.hdr[b].size >= size /\ Kept(g, g, {b})
    BY <1>5, <1>7 DEF Size, Kept
  <2>3. Resized(heap, heap', b, size)
    BY <1>2, <1>3, <1>4, <2>1, <2>2 DEF Resized
  <2> QED
    BY <1>1, <1>6, <2>1, <2>3
<1>8. CASE /\ size # Size(heap, b) /\ CanShrink(b, size)
           /\ Shrink(b, size) /\ Give(p, n) /\ UNCHANGED op
  <2>1. owned' = Gave(owned, p, n) /\ op' = op
    BY <1>8 DEF Give, Gave
  <2>2. heap' = FreeEnd(SetSize(heap, b, size), b, Following(heap, b))
    BY <1>8 DEF Shrink
  <2>3. size <= heap.hdr[b].size - SIZE_ALIGN
    BY <1>8 DEF CanShrink, Size
  <2>4. Resized(heap, heap', b, size)
    BY <1>3, <1>4, <1>5, <2>2, <2>3, ShrinkSound
  <2> QED
    BY <1>1, <1>6, <2>1, <2>4
<1>9. CASE /\ size # Size(heap, b) /\ ~CanShrink(b, size) /\ CanGrow(b, size)
           /\ Grow(b, size) /\ Give(p, n) /\ UNCHANGED op
  <2>1. owned' = Gave(owned, p, n) /\ op' = op
    BY <1>9 DEF Give, Gave
  <2>2. heap' = Grown(heap, b, size)
    BY <1>9 DEF Grow, Grown
  <2>3. PICK next : next = Following(heap, b)
    OBVIOUS
  <2>4. next = Fol(heap.hdr, b) /\ heap.hdr[next].free
        /\ size <= heap.hdr[b].size + SIZE_ALIGN + heap.hdr[next].size
    BY <1>9, <2>3 DEF CanGrow, Size, Following, Fol
  <2>5. Resized(heap, heap', b, size)
    BY <1>3, <1>4, <1>5, <2>2, <2>4, GrowSound
  <2> QED
    BY <1>1, <1>6, <2>1, <2>5
<1>10. CASE /\ op' = [op EXCEPT ![t] = [old |-> p, new |-> Null, size |-> n]]
            /\ UNCHANGED <<heap, owned>>
  <2>1. PICK r : r = [old |-> p, new |-> Null, size |-> n]
    OBVIOUS
  <2>2. IsMove(r, owned)
    BY <1>1, <2>1 DEF IsMove, Hand
  <2>3. \A s \in Thread \ {t} : {op[s].old, op[s].new} \cap {r.old, r.new} \subseteq {Null}
    BY <1>1, <2>1
  <2>4. Moves([op EXCEPT ![t] = r], owned)
    BY <1>3, <2>2, <2>3, MovesPut
  <2>5. Moves(op', owned')
    BY <1>10, <2>1, <2>4
  <2> QED
    BY <1>1, <1>10, <2>5 DEF Inv
<1>11. \/ size = Size(heap, b) /\ UNCHANGED <<heap, op>> /\ Give(p, n)
       \/ /\ size # Size(heap, b) /\ CanShrink(b, size)
          /\ Shrink(b, size) /\ Give(p, n) /\ UNCHANGED op
       \/ /\ size # Size(heap, b) /\ ~CanShrink(b, size) /\ CanGrow(b, size)
          /\ Grow(b, size) /\ Give(p, n) /\ UNCHANGED op
       \/ /\ op' = [op EXCEPT ![t] = [old |-> p, new |-> Null, size |-> n]]
          /\ UNCHANGED <<heap, owned>>
  BY <1>2 DEF tlsf_realloc, NewSize
<1> QED
  BY <1>7, <1>8, <1>9, <1>10, <1>11

-----------------------------------------------------------------------------
(* The rest of a move.                                                     *)
LEMMA MoveFacts ==
  ASSUME Inv, NEW t \in Thread
  PROVE  /\ op[t].old \in DOMAIN owned \cup {Null} /\ op[t].new \in DOMAIN owned \cup {Null}
         /\ op[t].new # Null => op[t].old # Null /\ op[t].old # op[t].new
         /\ op[t].old # Null => op[t].size \in Request
         /\ IsMove(op[t], owned)
<1>1. IsMove(op[t], owned)
  BY DEF Inv, Moves
<1> QED
  BY <1>1 DEF IsMove, Hand

(* A thread may stop moving.                                               *)
LEMMA StopMoving ==
  ASSUME Inv, NEW t \in Thread
  PROVE  Moves([op EXCEPT ![t] = Idle], owned)
<1>1. PICK r : r = Idle
  OBVIOUS
<1>2. IsMove(r, owned) /\ {r.old, r.new} = {Null}
  BY <1>1, IdleMove DEF Idle
<1>3. \A s \in Thread \ {t} : {op[s].old, op[s].new} \cap {r.old, r.new} \subseteq {Null}
  BY <1>2
<1>4. Moves([op EXCEPT ![t] = r], owned)
  BY <1>2, <1>3, MovesPut DEF Inv
<1> QED
  BY <1>1, <1>4

(* The malloc of a move: the new block is in nobody's hand.                *)
LEMMA MoveMallocStep ==
  ASSUME Inv, NEW t \in Thread, MoveMalloc(t)
  PROVE  Inv' /\ \E n \in Request : \E b : Given(b, n)
<1>1. PICK r, n : r = op[t] /\ n = r.size
  OBVIOUS
<1>2. r.old # Null /\ r.new = Null /\ n \in Request /\ IsMove(r, owned)
  <2>1. r.old # Null /\ r.new = Null
    BY <1>1 DEF MoveMalloc
  <2> QED
    BY <1>1, <2>1, MoveFacts
<1>3. PICK m, b : m = tlsf_intern_malloc(heap, ROUNDUP(n)) /\ b = m.block
  OBVIOUS
<1>4. heap' = m.heap
  BY <1>1, <1>3 DEF MoveMalloc, NewSize
<1>5. /\ b = Null => op' = [op EXCEPT ![t] = Idle] /\ owned' = owned
      /\ b # Null => op' = [op EXCEPT ![t].new = Mem(b)] /\ owned' = Gave(owned, Mem(b), n)
  BY <1>1, <1>3 DEF MoveMalloc, NewSize, Give, Gave
<1>6. Malloced(heap, m, ROUNDUP(n))
  BY <1>2, <1>3, Rounded, MallocSound DEF Inv
<1>7. Dealt(heap, owned, heap', owned', b, n)
  <2>1. Sound(heap, {}, {}) /\ Owns(heap.hdr, owned)
    BY DEF Inv
  <2>2. /\ b = Null => heap' = heap
        /\ b # Null => Taken(heap, heap', b, ROUNDUP(n))
    BY <1>3, <1>4, <1>6 DEF Malloced
  <2> QED
    BY <1>2, <1>5, <2>1, <2>2, TakenDealt
<1>8. Sound(heap', {}, {}) /\ Owns(heap'.hdr, owned') /\ Given(b, n)
  BY <1>7 DEF Dealt, Given
<1>9. Moves(op', owned')
  <2>1. CASE b = Null
    BY <1>5, <2>1, StopMoving
  <2>2. CASE b # Null
    <3>1. PICK p, d, e : p = Mem(b) /\ d = Gave(owned, p, n) /\ e = [r EXCEPT !.new = p]
      OBVIOUS
    <3>2. DOMAIN d = DOMAIN owned \cup {p} /\ p \notin DOMAIN owned
      BY <1>8, <2>2, <3>1 DEF Gave, Given
    <3>3. Moves(op, d)
      BY <3>2, MovesGiven DEF Inv
    <3>4. r \in Hand(owned)
      BY <1>2 DEF IsMove
    <3>5. e \in Hand(d) /\ e.old = r.old /\ e.new = p /\ e.size = n /\ r.old \in DOMAIN owned
      BY <1>1, <1>2, <3>1, <3>2, <3>4 DEF Hand
    <3>6. IsMove(e, d)
      BY <1>2, <3>2, <3>5 DEF IsMove
    <3>7. \A s \in Thread \ {t} : {op[s].old, op[s].new} \cap {e.old, e.new} \subseteq {Null}
      <4>1. SUFFICES ASSUME NEW s \in Thread \ {t}
                     PROVE  {op[s].old, op[s].new} \cap {e.old, e.new} \subseteq {Null}
        OBVIOUS
      <4>2. {op[s].old, op[s].new} \cap {r.old, r.new} \subseteq {Null}
        BY <1>1 DEF Inv, Moves
      <4>3. op[s].old \in DOMAIN owned \cup {Null} /\ op[s].new \in DOMAIN owned \cup {Null}
        BY MoveFacts
      <4> QED
        BY <3>2, <3>5, <4>2, <4>3
    <3>8. Moves([op EXCEPT ![t] = e], d)
      BY <3>3, <3>6, <3>7, MovesPut
    <3>9. op' = [op EXCEPT ![t] = e] /\ owned' = d
      BY <1>1, <1>5, <2>2, <3>1
    <3> QED
      BY <3>8, <3>9
  <2> QED
    BY <2>1, <2>2
<1> QED
  BY <1>2, <1>8, <1>9 DEF Inv

(* The free of a move: the old block is in no other hand.                  *)
LEMMA MoveFreeStep ==
  ASSUME Inv, NEW t \in Thread, MoveFree(t)
  PROVE  /\ Inv' /\ op[t].old \in DOMAIN owned
         /\ owned' = Took(owned, op[t].old)
<1>1. PICK r, p, e : r = op[t] /\ p = r.old /\ e = [op EXCEPT ![t] = Idle]
  OBVIOUS
<1>2. r.new # Null /\ p \in DOMAIN owned /\ p # Null /\ p # r.new
  <2>1. r.new # Null
    BY <1>1 DEF MoveFree
  <2> QED
    BY <1>1, <2>1, MoveFacts
<1>3. heap' = Release(heap, Hdr(p)) /\ owned' = Took(owned, p) /\ op' = e
  BY <1>1 DEF MoveFree, Took
<1>4. Sound(heap', {}, {}) /\ Owns(heap'.hdr, owned')
  BY <1>2, <1>3, ReleasedOwned
<1>5. Moves(e, owned)
  BY <1>1, StopMoving
<1>6. \A s \in Thread : {e[s].old, e[s].new} \subseteq DOMAIN owned' \cup {Null}
  <2>1. SUFFICES ASSUME NEW s \in Thread
                 PROVE  {e[s].old, e[s].new} \subseteq DOMAIN owned' \cup {Null}
    OBVIOUS
  <2>2. op \in [Thread -> Hand(owned)]
    BY DEF Inv, Moves
  <2>3. CASE s = t
    <3>1. e[s] = Idle
      BY <1>1, <2>2, <2>3
    <3> QED
      BY <3>1 DEF Idle
  <2>4. CASE s # t
    <3>1. e[s] = op[s]
      BY <1>1, <2>2, <2>4
    <3>2. p \notin {op[s].old, op[s].new}
      BY <1>1, <1>2, <2>4 DEF Inv, Moves
    <3>3. {op[s].old, op[s].new} \subseteq DOMAIN owned \cup {Null}
      BY MoveFacts
    <3> QED
      BY <1>3, <3>1, <3>2, <3>3 DEF Took
  <2> QED
    BY <2>3, <2>4
<1>7. Moves(op', owned')
  BY <1>3, <1>5, <1>6, MovesOwned
<1> QED
  BY <1>1, <1>2, <1>3, <1>4, <1>7 DEF Inv

-----------------------------------------------------------------------------
(* The blocks that are owned have their bytes to themselves.               *)
Alone(o, p) ==
    /\ Pool!Bytes(p, o[p]) \subseteq Block0 + SIZE_ALIGN .. End - 1
    /\ \A q \in DOMAIN o \ {p} : Pool!Bytes(q, o[q]) \cap Pool!Bytes(p, o[p]) = {}

(* Blocks with owners lie in the pool and do not overlap.                  *)
LEMMA OwnedAlone ==
  ASSUME NEW g, Tiles(g), NEW o, Owns(g, o), NEW p \in DOMAIN o
  PROVE  Alone(o, p)
<1>1. PICK b, n : b = Hdr(p) /\ n = o[p]
  OBVIOUS
<1>2. /\ b \in DOMAIN g \ {0, End} /\ p \in Nat /\ n \in Nat /\ n <= g[b].size
      /\ SIZE_ALIGN \in Nat \ {0} /\ p = b + SIZE_ALIGN
  <2>1. p = Mem(b)
    BY <1>1, OwnedBlock, HdrMem
  <2> QED
    BY <1>1, <2>1, OwnedBlock, Settings DEF Mem
<1>3. /\ b \in Nat /\ g[b].size \in Nat /\ p + n <= Fol(g, b) /\ Fol(g, b) <= End /\ Fol(g, b) \in Nat
      /\ End \in Nat
  <2>1. b \in Nat /\ g[b].size \in Nat /\ Fol(g, b) <= End /\ Fol(g, b) \in Nat /\ End \in Nat
    BY <1>2, TileFacts, GrainNat, EndFacts
  <2> QED
    BY <1>2, <2>1 DEF Fol
<1>4. Block0 <= b
  <2>1. 0 \in DOMAIN g /\ Fol(g, 0) = Block0 /\ 0 # End
    <3>1. 0 \in DOMAIN g /\ g[0].size = SIZE_ALIGN
      BY DEF Tiles
    <3> QED
      BY <1>2, <3>1, EndFacts DEF Fol, Block0
  <2>2. b <= 0 \/ Fol(g, 0) <= b
    BY <1>2, <2>1, TileFacts
  <2> QED
    BY <1>2, <1>3, <2>1, <2>2
<1>5. Pool!Bytes(p, n) \subseteq Block0 + SIZE_ALIGN .. End - 1
  <2>1. Block0 \in Nat
    BY EndFacts
  <2> QED
    BY <1>2, <1>3, <1>4, <2>1 DEF Pool!Bytes
<1>6. ASSUME NEW q \in DOMAIN o \ {p}
      PROVE  Pool!Bytes(q, o[q]) \cap Pool!Bytes(p, o[p]) = {}
  <2>1. PICK x, m : x = Hdr(q) /\ m = o[q]
    OBVIOUS
  <2>2. /\ x \in DOMAIN g \ {0, End} /\ q \in Nat /\ m \in Nat /\ m <= g[x].size
        /\ q = x + SIZE_ALIGN
    <3>1. q = Mem(x)
      BY <2>1, OwnedBlock, HdrMem
    <3> QED
      BY <2>1, <3>1, OwnedBlock, Settings DEF Mem
  <2>3. x \in Nat /\ g[x].size \in Nat /\ q + m <= Fol(g, x) /\ Fol(g, x) \in Nat
    <3>1. x \in Nat /\ g[x].size \in Nat /\ Fol(g, x) \in Nat
      BY <2>2, TileFacts, GrainNat
    <3> QED
      BY <1>2, <2>2, <3>1 DEF Fol
  <2>4. x # b
    BY <1>2, <2>2
  <2>5. (x <= b \/ Fol(g, b) <= x) /\ (b <= x \/ Fol(g, x) <= b)
    BY <1>2, <2>2, TileFacts
  <2>6. Fol(g, b) <= x \/ Fol(g, x) <= b
    BY <1>3, <2>3, <2>4, <2>5
  <2>7. Pool!Bytes(q, m) \cap Pool!Bytes(p, n) = {}
    BY <1>2, <1>3, <2>2, <2>3, <2>6 DEF Pool!Bytes
  <2> QED
    BY <1>1, <2>1, <2>7
<1> QED
  BY <1>1, <1>5, <1>6 DEF Alone

(* Steps of the clients are steps of an abstract heap.                     *)
LEMMA GaveStep ==
  ASSUME Inv, Inv', NEW p, NEW n \in Request, owned' = Gave(owned, p, n)
  PROVE  Pool!Next
<1>1. Alone(owned', p)
  <2>1. p \in DOMAIN owned'
    BY DEF Gave
  <2>2. Tiles(heap'.hdr) /\ Owns(heap'.hdr, owned')
    BY DEF Inv, Sound
  <2> QED
    BY <2>1, <2>2, OwnedAlone
<1>2. owned'[p] = n /\ \A q \in DOMAIN owned \ {p} : q \in DOMAIN owned' /\ owned'[q] = owned[q]
  BY DEF Gave
<1>3. Pool!Spare(p, n, p)
  BY <1>1, <1>2 DEF Pool!Spare, Alone
<1>4. p \in Block0 + SIZE_ALIGN .. End - 1
  <2>1. p \in Nat /\ n \in Nat \ {0}
    <3>1. p \in DOMAIN owned'
      BY DEF Gave
    <3> QED
      BY <3>1, Settings DEF Inv, Owns
  <2>2. p \in Pool!Bytes(p, n)
    BY <2>1 DEF Pool!Bytes
  <2> QED
    BY <1>3, <2>2 DEF Pool!Spare
<1>5. CASE p \in DOMAIN owned
  <2>1. \E o \in [DOMAIN owned -> Request] : o = owned
    BY DEF Inv, Owns
  <2>2. owned' = [owned EXCEPT ![p] = n]
    BY <1>5, <2>1 DEF Gave
  <2>3. Pool!Resize(p, n)
    BY <1>3, <2>2 DEF Pool!Resize
  <2> QED
    BY <1>5, <2>3 DEF Pool!Next
<1>6. CASE p \notin DOMAIN owned
  <2>1. Pool!Allocate(p, n)
    BY <1>3, <1>6 DEF Pool!Allocate, Gave
  <2> QED
    BY <1>4, <2>1 DEF Pool!Next
<1> QED
  BY <1>5, <1>6

(* What goes back to the pool is freed in the abstract heap.               *)
LEMMA TookStep ==
  ASSUME NEW p \in DOMAIN owned, owned' = Took(owned, p)
  PROVE  Pool!Next
<1>1. Pool!Free(p)
  BY DEF Pool!Free, Took
<1> QED
  BY <1>1 DEF Pool!Next

(* What is handed out is allocated in the abstract heap.                   *)
LEMMA GivenStep ==
  ASSUME Inv, Inv', NEW n \in Request, NEW b, Given(b, n)
  PROVE  [Pool!Next]_owned
<1>1. CASE b = Null
  BY <1>1 DEF Given
<1>2. CASE b # Null
  BY <1>2, GaveStep DEF Given
<1> QED
  BY <1>1, <1>2

-----------------------------------------------------------------------------
(* The invariant holds at first.                                           *)
LEMMA InitInv == ASSUME Init PROVE Inv
<1>1. Sound(heap, {}, {}) /\ Busy(heap.hdr) = {0, End}
  BY InitSound DEF Init
<1>2. Owns(heap.hdr, owned)
  <2>1. owned = [p \in {} |-> 0]
    BY DEF Init
  <2> QED
    BY <1>1, <2>1 DEF Owns
<1>3. Moves(op, owned)
  <2>1. op = [t \in Thread |-> Idle]
    BY DEF Init
  <2>2. Idle.old = Null /\ Idle.new = Null
    BY DEF Idle
  <2> QED
    BY <2>1, <2>2, IdleMove DEF Moves, IsMove
<1> QED
  BY <1>1, <1>2, <1>3 DEF Inv

(* Every step keeps the invariant and is one of the abstract heap or none. *)
LEMMA StepInv == ASSUME Inv, [Next]_vars PROVE Inv' /\ [Pool!Next]_owned
<1>1. ASSUME NEW t \in Thread, NEW n \in Request, tlsf_malloc(t, n) PROVE Inv' /\ [Pool!Next]_owned
  BY <1>1, MallocStep, GivenStep
<1>2. ASSUME NEW t \in Thread, NEW n \in Request, NEW a \in Alignment, tlsf_malloc_aligned(t, n, a)
      PROVE  Inv' /\ [Pool!Next]_owned
  BY <1>2, AlignedStep, GivenStep
<1>3. ASSUME NEW t \in Thread, NEW p \in Mine, tlsf_free(t, p) PROVE Inv' /\ [Pool!Next]_owned
  BY <1>3, FreeStep, TookStep
<1>4. ASSUME NEW t \in Thread, NEW p \in Mine, NEW n \in Request, tlsf_realloc(t, p, n)
      PROVE  Inv' /\ [Pool!Next]_owned
  BY <1>4, ReallocStep, GaveStep
<1>5. ASSUME NEW t \in Thread, MoveMalloc(t) PROVE Inv' /\ [Pool!Next]_owned
  BY <1>5, MoveMallocStep, GivenStep
<1>6. ASSUME NEW t \in Thread, MoveFree(t) PROVE Inv' /\ [Pool!Next]_owned
  BY <1>6, MoveFreeStep, TookStep
<1>7. CASE UNCHANGED vars
  BY <1>7 DEF vars, Inv
<1> QED
  BY <1>1, <1>2, <1>3, <1>4, <1>5, <1>6, <1>7 DEF Next

(* The invariant holds in every reachable state.                           *)
THEOREM Invariant == Spec => []Inv
<1>1. Init => Inv
  BY InitInv
<1>2. Inv /\ [Next]_vars => Inv'
  BY StepInv
<1> QED
  BY <1>1, <1>2, PTL DEF Spec

-----------------------------------------------------------------------------
(* The free blocks fit into the pool, all of them.                         *)
LEMMA HeldFits ==
  ASSUME NEW g, Tiles(g), NEW M, M \subseteq DOMAIN g \ {End}, IsFiniteSet(M)
  PROVE  Cardinality(Held(g, M)) \in 0 .. PoolSize
<1> DEFINE S == Held(g, M)
           T == 1 .. PoolSize
           f == [q \in S |-> q[1] + q[2]]
<1>1. PoolSize \in Nat /\ IsFiniteSet(T) /\ Cardinality(T) = PoolSize
  <2>1. PICK n \in Nat : n = PoolSize
    BY Settings
  <2>2. IsFiniteSet(1 .. n) /\ Cardinality(1 .. n) = n
    BY FS_Interval
  <2> QED
    BY <2>1, <2>2
<1>2. ASSUME NEW q \in S
      PROVE  /\ q[1] \in M /\ q[1] \in Nat /\ q[2] \in Nat \ {0} /\ Fol(g, q[1]) \in Nat
             /\ f[q] = q[1] + q[2] /\ q[1] + q[2] <= Fol(g, q[1]) /\ f[q] \in T
             /\ q = <<q[1], q[2]>>
  <2>1. PICK b, i : b = q[1] /\ i = q[2]
    OBVIOUS
  <2>2. b \in M /\ i \in 1 .. PoolSize /\ i <= g[b].size /\ q = <<b, i>>
    BY <2>1 DEF Held
  <2>3. /\ b \in Nat /\ g[b].size \in Nat /\ Fol(g, b) \in Nat /\ Fol(g, b) <= End
        /\ SIZE_ALIGN \in Nat /\ End \in Nat /\ End + SIZE_ALIGN = PoolSize
    BY <2>2, TileFacts, GrainNat, EndFacts, Settings
  <2>4. b + i <= Fol(g, b)
    BY <1>1, <2>2, <2>3 DEF Fol
  <2>5. b + i \in T
    BY <1>1, <2>2, <2>3, <2>4
  <2> QED
    BY <1>1, <2>1, <2>2, <2>3, <2>4, <2>5
<1>3. f \in [S -> T]
  BY <1>2
<1>4. ASSUME NEW q \in S, NEW r \in S, f[q] = f[r] PROVE q = r
  <2>1. q[1] + q[2] = r[1] + r[2]
    BY <1>4
  <2>2. (q[1] <= r[1] \/ Fol(g, r[1]) <= q[1]) /\ (r[1] <= q[1] \/ Fol(g, q[1]) <= r[1])
    BY <1>2, TileFacts
  <2>3. PICK a, b, i, j : a = q[1] /\ b = r[1] /\ i = q[2] /\ j = r[2]
    OBVIOUS
  <2>4. PICK x, y : x = Fol(g, a) /\ y = Fol(g, b)
    OBVIOUS
  <2>5. /\ a \in Nat /\ b \in Nat /\ i \in Nat \ {0} /\ j \in Nat \ {0} /\ x \in Nat /\ y \in Nat
        /\ a + i <= x /\ b + j <= y /\ a + i = b + j
        /\ (a <= b \/ y <= a) /\ (b <= a \/ x <= b) /\ q = <<a, i>> /\ r = <<b, j>>
    BY <1>2, <2>1, <2>2, <2>3, <2>4
  <2>6. a = b /\ i = j
    BY <2>5
  <2> QED
    BY <2>5, <2>6
<1>5. f \in Injection(S, T)
  <2> HIDE DEF f, S, T
  <2>1. \A q, r \in S : f[q] = f[r] => q = r
    BY <1>4
  <2> QED
    BY <1>3, <2>1 DEF Injection, IsInjective
<1>6. IsFiniteSet(S) /\ Cardinality(S) \in Nat
  BY HeldFinite
<1>7. Cardinality(S) <= PoolSize
  BY <1>1, <1>5, FS_Injection
<1> QED
  BY <1>1, <1>6, <1>7

-----------------------------------------------------------------------------
(* Types: free_size is the number of bytes held, which fit into the pool.  *)
LEMMA InvTypeOK == ASSUME Inv PROVE TypeOK
<1>1. PICK g, M : g = heap.hdr /\ M = Members(g) \ {}
  OBVIOUS
<1>2. Tiles(g) /\ Carries(heap, M) /\ Owns(g, owned)
  BY <1>1 DEF Inv, Sound
<1>3. ASSUME NEW b \in DOMAIN g
      PROVE  /\ b % SIZE_ALIGN = 0 /\ g[b].size % SIZE_ALIGN = 0
             /\ b \in 0 .. End /\ g[b].size \in 0 .. PoolSize
  <2>1. b \in Grain /\ b \in Nat /\ b <= End /\ g[b].size \in Grain /\ g[b].size \in 0 .. PoolSize
    BY <1>2, TileFacts
  <2>2. g[b].size \in Nat
    BY <2>1, GrainNat
  <2> QED
    BY <2>1, <2>2, GrainIff, EndFacts
<1>4. heap.slbitmap \subseteq Class /\ heap.flbitmap \subseteq 0 .. REAL_FLI - 1
  <2>1. Bitmaps(heap.matrix, heap.slbitmap, heap.flbitmap)
    BY <1>2 DEF Carries, Lists
  <2>2. heap.slbitmap \subseteq Class /\ heap.flbitmap = {c[1] : c \in heap.slbitmap}
    BY <2>1 DEF Bitmaps
  <2>3. \A c \in Class : c[1] \in 0 .. REAL_FLI - 1
    BY DEF Class
  <2> QED
    BY <2>2, <2>3
<1>5. heap.free_size \in 0 .. PoolSize
  <2>1. IsFiniteSet(M) /\ heap.free_size = Cardinality(Held(g, M))
    BY <1>1, <1>2 DEF Carries
  <2>2. M \subseteq DOMAIN g \ {End}
    BY <1>1, <1>2 DEF Members, Tiles
  <2> QED
    BY <1>2, <2>1, <2>2, HeldFits
<1>6. \A p \in DOMAIN owned : owned[p] \in Request
  BY <1>2, OwnedBlock
<1>7. op \in [Thread -> [old : DOMAIN owned \cup {Null}, new : DOMAIN owned \cup {Null},
                         size : Request \cup {0}]]
  BY DEF Inv, Moves, Hand
<1> QED
  BY <1>1, <1>3, <1>4, <1>5, <1>6, <1>7 DEF TypeOK

(* Boundary tags: nothing is untold between operations.                    *)
LEMMA InvBoundaryTags == ASSUME Inv PROVE BoundaryTags
<1>1. PICK g, X : g = heap.hdr /\ X = {}
  OBVIOUS
<1>2. Tiles(g) /\ Linked(g, X)
  BY <1>1 DEF Inv, Sound
<1>3. ASSUME NEW b \in DOMAIN g \ {End}
      PROVE  /\ Fol(g, b) \in DOMAIN g /\ g[Fol(g, b)].prev = b
             /\ g[Fol(g, b)].prevFree = g[b].free
  <2>1. PICK n : n = Fol(g, b)
    OBVIOUS
  <2>2. n \in DOMAIN g /\ g[b] \in Header /\ g[n] \in Header
    BY <1>2, <2>1, TileFacts
  <2>3. n \notin X
    BY <1>1
  <2>4. g[n].prev = b /\ (g[n].prevFree <=> g[b].free)
    BY <1>2, <2>1, <2>3, LinkedForward
  <2>5. PICK x, y : x = g[n].prevFree /\ y = g[b].free
    OBVIOUS
  <2>6. x \in BOOLEAN /\ y \in BOOLEAN
    BY <2>2, <2>5 DEF Header
  <2>7. x <=> y
    BY <2>4, <2>5
  <2>8. x = y
    BY <2>6, <2>7, Zenon
  <2> QED
    BY <2>1, <2>2, <2>4, <2>5, <2>8
<1>4. \A b : Following(heap, b) = Fol(g, b)
  BY <1>1 DEF Following, Fol
<1> QED
  BY <1>1, <1>3, <1>4 DEF BoundaryTags

(* No free neighbours: nothing is in hand between operations.              *)
LEMMA InvFullyMerged == ASSUME Inv PROVE FullyMerged
<1>1. PICK g : g = heap.hdr
  OBVIOUS
<1>2. Tiles(g) /\ Merged(g, {})
  BY <1>1 DEF Inv, Sound
<1>3. ASSUME NEW b \in Free PROVE ~heap.hdr[Following(heap, b)].free
  <2>1. b \in DOMAIN g /\ g[b].free
    BY <1>1 DEF Free
  <2>2. b # End
    BY <1>2, <2>1 DEF Tiles
  <2>3. ~g[Fol(g, b)].free
    BY <1>2, <2>1, <2>2 DEF Merged
  <2> QED
    BY <1>1, <2>3 DEF Following, Fol
<1> QED
  BY <1>3 DEF FullyMerged

(* Owners of busy blocks.                                                  *)
LEMMA InvNothingLeaks == ASSUME Inv PROVE NothingLeaks
<1>1. PICK g : g = heap.hdr
  OBVIOUS
<1>2. Tiles(g) /\ Owns(g, owned)
  BY <1>1 DEF Inv, Sound
<1>3. DOMAIN heap.hdr \ Free = Busy(g)
  BY <1>1 DEF Free, Busy
<1>4. 0 \in Busy(g) /\ End \in Busy(g)
  BY <1>2, EndsBusy
<1> QED
  BY <1>2, <1>3, <1>4 DEF NothingLeaks, Owns

(* Searches.                                                               *)
LEMMA InvSearchIsExact == ASSUME Inv PROVE SearchIsExact
<1>1. PICK g, M : g = heap.hdr /\ M = Members(g) \ {}
  OBVIOUS
<1>2. Tiles(g) /\ Carries(heap, M)
  BY <1>1 DEF Inv, Sound
<1>3. ASSUME NEW r \in Request, NEW n, n = ROUNDUP(r), NEW want, want = MAPPING_SEARCH(n),
             NEW b, b = FIND_SUITABLE_BLOCK(heap, want.class)
      PROVE  IF b = Null THEN \A f \in Free : Size(heap, f) < want.size
             ELSE b \in Free /\ Size(heap, b) >= n
  <2>1. n \in Grain /\ n \in Nat /\ n > 0
    BY <1>3, Rounded
  <2>2. \A x \in M : heap.hdr[x].size \in Grain
    BY <1>1, <1>2, TileFacts DEF Members
  <2>3. Found(heap, M, b, want.size) /\ want.size \in Grain /\ want.size >= n
    BY <1>2, <1>3, <2>1, <2>2, FindSound
  <2>4. want.size \in Nat
    BY <2>3, GrainNat
  <2>5. CASE b = Null
    <3>1. SUFFICES ASSUME NEW f \in Free PROVE Size(heap, f) < want.size
      BY <2>5
    <3>2. f \in DOMAIN g /\ g[f].free /\ g[f].size \in 0 .. PoolSize
      BY <1>1, <1>2, TileFacts DEF Free
    <3>3. CASE f \in M
      BY <2>3, <2>5, <3>3 DEF Found, Size
    <3>4. CASE f \notin M
      <4>1. g[f].size = 0
        BY <1>1, <3>2, <3>4 DEF Members
      <4> QED
        BY <1>1, <2>1, <2>3, <2>4, <4>1 DEF Size
    <3> QED
      BY <3>3, <3>4
  <2>6. CASE b # Null
    <3>1. b \in M /\ heap.hdr[b].size >= want.size
      BY <2>3, <2>6 DEF Found
    <3>2. b \in Free /\ heap.hdr[b].size \in Nat
      BY <1>1, <2>2, <3>1, GrainNat DEF Members, Free
    <3> QED
      BY <2>1, <2>3, <2>4, <2>6, <3>1, <3>2 DEF Size
  <2> QED
    BY <2>5, <2>6
<1> QED
  BY <1>3 DEF SearchIsExact

-----------------------------------------------------------------------------
(* The sum of lengths is the number of bytes.                              *)
Pick1(s) == CHOOSE x \in s : TRUE

(* it computes sums over parts of M, one member at a time.                 *)
Sums(it, g, M) ==
    it = [s \in SUBSET M |-> IF s = {} THEN 0 ELSE g[Pick1(s)].size + it[s \ {Pick1(s)}]]

(* The number of bytes held satisfies the recursion.                       *)
LEMMA HeldSums ==
  ASSUME NEW g, NEW M, IsFiniteSet(M), \A x \in M : g[x].size \in 1 .. PoolSize
  PROVE  Sums([s \in SUBSET M |-> Cardinality(Held(g, s))], g, M)
<1> DEFINE it == [s \in SUBSET M |-> Cardinality(Held(g, s))]
<1>1. ASSUME NEW s \in SUBSET M
      PROVE  Cardinality(Held(g, s))
               = IF s = {} THEN 0 ELSE g[Pick1(s)].size + it[s \ {Pick1(s)}]
  <2>1. CASE s = {}
    <3>1. Held(g, s) = {}
      BY <2>1 DEF Held
    <3> QED
      BY <2>1, <3>1, FS_EmptySet
  <2>2. CASE s # {}
    <3>1. PICK x, r : x = Pick1(s) /\ r = s \ {x}
      OBVIOUS
    <3>2. x \in s
      BY <2>2, <3>1 DEF Pick1
    <3>3. IsFiniteSet(s) /\ IsFiniteSet(r) /\ g[x].size \in 1 .. PoolSize
      BY <3>1, <3>2, FS_Subset
    <3>4. Cardinality(Held(g, r)) = Cardinality(Held(g, s)) - g[x].size
      BY <3>1, <3>2, <3>3, HeldMinus
    <3>5. Cardinality(Held(g, s)) \in Nat /\ g[x].size \in Nat
      BY <3>3, HeldFinite, Settings
    <3>6. Cardinality(Held(g, s)) = g[x].size + Cardinality(Held(g, r))
      BY <3>4, <3>5
    <3>7. it[r] = Cardinality(Held(g, r))
      BY <3>1
    <3> QED
      BY <2>2, <3>1, <3>6, <3>7
  <2> QED
    BY <2>1, <2>2
<1>2. \A s \in SUBSET M : it[s] = IF s = {} THEN 0 ELSE g[Pick1(s)].size + it[s \ {Pick1(s)}]
  BY <1>1
<1>3. it = [s \in SUBSET M |-> it[s]]
  OBVIOUS
<1> HIDE DEF it
<1>4. Sums(it, g, M)
  BY <1>2, <1>3 DEF Sums
<1> QED
  BY <1>4 DEF it

(* No other function does.                                                 *)
LEMMA SumsUnique ==
  ASSUME NEW g, NEW M, IsFiniteSet(M), NEW a, NEW b, Sums(a, g, M), Sums(b, g, M)
  PROVE  \A s \in SUBSET M : a[s] = b[s]
<1> DEFINE Bad == {s \in SUBSET M : a[s] # b[s]}
           Sizes == {Cardinality(s) : s \in Bad}
<1> SUFFICES ASSUME Bad # {} PROVE FALSE
  OBVIOUS
<1>1. \A s \in SUBSET M : IsFiniteSet(s) /\ Cardinality(s) \in Nat
  BY FS_Subset, FS_CardinalityType
<1>2. Sizes \in SUBSET Nat /\ Sizes # {}
  BY <1>1
<1>3. PICK m \in Sizes : \A k \in Sizes : m <= k
  BY <1>2, HasSmallest
<1>4. PICK s \in Bad : m = Cardinality(s)
  OBVIOUS
<1>5. s \in SUBSET M /\ a[s] # b[s] /\ IsFiniteSet(s)
  BY <1>1
<1>6. s # {}
  <2> SUFFICES ASSUME s = {} PROVE FALSE
    OBVIOUS
  <2>1. a[s] = 0 /\ b[s] = 0
    BY <1>5 DEF Sums
  <2> QED
    BY <1>5, <2>1
<1>7. PICK x, r : x = Pick1(s) /\ r = s \ {x}
  OBVIOUS
<1>8. x \in s /\ r \in SUBSET M
  BY <1>5, <1>6, <1>7 DEF Pick1
<1>9. a[s] = g[x].size + a[r] /\ b[s] = g[x].size + b[r]
  BY <1>5, <1>6, <1>7 DEF Sums
<1>10. Cardinality(r) = Cardinality(s) - 1
  BY <1>5, <1>7, <1>8, FS_RemoveElement
<1>11. a[r] = b[r]
  <2> SUFFICES ASSUME a[r] # b[r] PROVE FALSE
    OBVIOUS
  <2>1. Cardinality(r) \in Sizes
    BY <1>8
  <2>2. m <= Cardinality(r) /\ Cardinality(s) \in Nat
    BY <1>1, <1>3, <1>5, <2>1
  <2> QED
    BY <1>4, <1>10, <2>2
<1> QED
  BY <1>5, <1>9, <1>11

(* The fold over the lengths is the number of bytes held.                  *)
LEMMA SumIsHeld ==
  ASSUME NEW g, NEW M, IsFiniteSet(M), \A x \in M : g[x].size \in 1 .. PoolSize
  PROVE  MapThenSumSet(LAMBDA b : g[b].size, M) = Cardinality(Held(g, M))
<1>1. PICK it : it = CHOOSE f : Sums(f, g, M)
  OBVIOUS
<1>2. PICK h : h = [s \in SUBSET M |-> Cardinality(Held(g, s))]
  OBVIOUS
<1>3. Sums(h, g, M)
  BY <1>2, HeldSums
<1>4. Sums(it, g, M)
  BY <1>1, <1>3
<1>5. it[M] = h[M]
  BY <1>3, <1>4, SumsUnique
<1>6. h[M] = Cardinality(Held(g, M))
  BY <1>2
<1>7. MapThenSumSet(LAMBDA b : g[b].size, M) = it[M]
  BY <1>1 DEF MapThenSumSet, MapThenFoldSet, Sums, Pick1
<1> QED
  BY <1>5, <1>6, <1>7

-----------------------------------------------------------------------------
(* A list as its links.  A member is as many steps from the head as there  *)
(* are members above it.                                                   *)
Depth(cl, rk, x) == Cardinality(Above(cl, rk, x))

Ordered(cl, rk, node, matrix) ==
    /\ Ranking(cl, rk) /\ IsLinks(node, cl) /\ NextLinks(node, cl, rk)
    /\ PrevLinks(node, cl, rk) /\ Heads(matrix, cl, rk)
    /\ IsFiniteSet(DOMAIN cl)

(* Depths are at most the number of members.                               *)
LEMMA DepthNat ==
  ASSUME NEW cl, NEW rk, IsFiniteSet(DOMAIN cl), NEW x
  PROVE  /\ IsFiniteSet(Above(cl, rk, x)) /\ Depth(cl, rk, x) \in Nat
         /\ Depth(cl, rk, x) <= Cardinality(DOMAIN cl)
<1>1. Above(cl, rk, x) \in SUBSET DOMAIN cl
  BY DEF Above
<1> QED
  BY <1>1, FS_Subset, FS_CardinalityType DEF Depth

(* Members further down have more above them.                              *)
LEMMA DeeperBelow ==
  ASSUME NEW cl, NEW rk, Ranking(cl, rk), IsFiniteSet(DOMAIN cl),
         NEW x \in DOMAIN cl, NEW y \in Below(cl, rk, x)
  PROVE  Depth(cl, rk, x) < Depth(cl, rk, y)
<1>1. PICK A, B : A = Above(cl, rk, x) /\ B = Above(cl, rk, y)
  OBVIOUS
<1>2. /\ y \in DOMAIN cl /\ cl[y] = cl[x] /\ rk[y] < rk[x]
      /\ \A z \in DOMAIN cl : rk[z] \in Nat
  BY DEF Below, Ranking
<1>3. x \in B /\ x \notin A /\ A \subseteq B
  BY <1>1, <1>2 DEF Above
<1>4. IsFiniteSet(A) /\ IsFiniteSet(B) /\ Cardinality(A) \in Nat /\ Cardinality(B) \in Nat
  BY <1>1, DepthNat DEF Depth
<1>5. A \in SUBSET B /\ A # B
  BY <1>3
<1>6. Cardinality(A) <= Cardinality(B) /\ Cardinality(A) # Cardinality(B)
  BY <1>4, <1>5, FS_Subset
<1> QED
  BY <1>1, <1>4, <1>6 DEF Depth

(* Members of a class differ in depth.                                     *)
LEMMA DepthInjective ==
  ASSUME NEW cl, NEW rk, Ranking(cl, rk), IsFiniteSet(DOMAIN cl),
         NEW x \in DOMAIN cl, NEW y \in DOMAIN cl, cl[x] = cl[y],
         Depth(cl, rk, x) = Depth(cl, rk, y)
  PROVE  x = y
<1> SUFFICES ASSUME x # y PROVE FALSE
  OBVIOUS
<1>1. rk[x] \in Nat /\ rk[y] \in Nat /\ rk[x] # rk[y]
  BY DEF Ranking
<1>2. Depth(cl, rk, x) \in Nat /\ Depth(cl, rk, y) \in Nat
  BY DepthNat
<1>3. CASE rk[x] < rk[y]
  <2>1. x \in Below(cl, rk, y)
    BY <1>3 DEF Below
  <2> QED
    BY <1>2, <2>1, DeeperBelow
<1>4. CASE rk[y] < rk[x]
  <2>1. y \in Below(cl, rk, x)
    BY <1>4 DEF Below
  <2> QED
    BY <1>2, <2>1, DeeperBelow
<1> QED
  BY <1>1, <1>3, <1>4

(* A link leads one step deeper.                                           *)
LEMMA NextDepth ==
  ASSUME NEW cl, NEW rk, NEW node, NEW matrix, Ordered(cl, rk, node, matrix),
         NEW x \in DOMAIN cl, NEW n, n = node[x].next, n # Null
  PROVE  n \in DOMAIN cl /\ cl[n] = cl[x] /\ Depth(cl, rk, n) = Depth(cl, rk, x) + 1
<1>1. \A z \in DOMAIN cl : rk[z] \in Nat
  BY DEF Ordered, Ranking
<1>2. n \in DOMAIN cl /\ cl[n] = cl[x] /\ rk[n] < rk[x]
  BY DEF Ordered, NextLinks, Below
<1>3. \A y \in Below(cl, rk, x) : rk[y] <= rk[n]
  BY DEF Ordered, NextLinks
<1>4. PICK A : A = Above(cl, rk, x)
  OBVIOUS
<1>5. Above(cl, rk, n) = A \cup {x}
  <2>1. ASSUME NEW y \in Above(cl, rk, n), y # x PROVE y \in A
    <3>1. y \in DOMAIN cl /\ cl[y] = cl[x] /\ rk[n] < rk[y]
      BY <1>2 DEF Above
    <3>2. ~(rk[y] < rk[x])
      <4> SUFFICES ASSUME rk[y] < rk[x] PROVE FALSE
        OBVIOUS
      <4>1. y \in Below(cl, rk, x)
        BY <3>1 DEF Below
      <4> QED
        BY <1>1, <1>2, <1>3, <3>1, <4>1
    <3>3. rk[y] # rk[x]
      BY <2>1, <3>1 DEF Ordered, Ranking
    <3>4. rk[x] < rk[y]
      BY <1>1, <3>1, <3>2, <3>3
    <3> QED
      BY <1>4, <3>1, <3>4 DEF Above
  <2>2. A \cup {x} \subseteq Above(cl, rk, n)
    BY <1>1, <1>2, <1>4 DEF Above
  <2> QED
    BY <2>1, <2>2
<1>6. x \notin A /\ IsFiniteSet(A)
  BY <1>1, <1>4, DepthNat DEF Above, Ordered
<1>7. Cardinality(A \cup {x}) = Cardinality(A) + 1
  BY <1>6, FS_AddElement
<1> QED
  BY <1>2, <1>4, <1>5, <1>7 DEF Depth

-----------------------------------------------------------------------------
(* The member of class c at depth i, or Null.                              *)
At(cl, rk, c, i) == {x \in DOMAIN cl : cl[x] = c /\ Depth(cl, rk, x) = i}
Nth(cl, rk, c, i) == IF At(cl, rk, c, i) = {} THEN Null ELSE CHOOSE x \in At(cl, rk, c, i) : TRUE

(* A member is found at its depth.                                         *)
LEMMA NthIs ==
  ASSUME NEW cl, NEW rk, Ranking(cl, rk), IsFiniteSet(DOMAIN cl), NEW x \in DOMAIN cl
  PROVE  Nth(cl, rk, cl[x], Depth(cl, rk, x)) = x
<1>1. PICK S : S = At(cl, rk, cl[x], Depth(cl, rk, x))
  OBVIOUS
<1>2. x \in S
  BY <1>1 DEF At
<1>3. \A y \in S : y = x
  BY <1>1, DepthInjective DEF At
<1>4. S = {x}
  BY <1>2, <1>3
<1> QED
  BY <1>1, <1>4 DEF Nth

(* The head is at depth 0.                                                 *)
LEMMA NthHead ==
  ASSUME NEW cl, NEW rk, NEW node, NEW matrix, Ordered(cl, rk, node, matrix), NEW c \in Class
  PROVE  Nth(cl, rk, c, 0) = matrix[c]
<1>1. CASE matrix[c] # Null
  <2>1. PICK t : t = matrix[c]
    OBVIOUS
  <2>2. t \in DOMAIN cl /\ cl[t] = c
    BY <1>1, <2>1 DEF Ordered, Heads
  <2>3. Above(cl, rk, t) = {}
    <3> SUFFICES ASSUME NEW y \in Above(cl, rk, t) PROVE FALSE
      OBVIOUS
    <3>1. y \in DOMAIN cl /\ cl[y] = c /\ rk[t] < rk[y]
      BY <2>2 DEF Above
    <3>2. rk[y] <= rk[t]
      BY <2>1, <3>1 DEF Ordered, Heads
    <3>3. rk[y] \in Nat /\ rk[t] \in Nat
      BY <2>2, <3>1 DEF Ordered, Ranking
    <3> QED
      BY <3>1, <3>2, <3>3
  <2>4. Depth(cl, rk, t) = 0
    BY <2>3, FS_EmptySet DEF Depth
  <2>5. Nth(cl, rk, cl[t], Depth(cl, rk, t)) = t
    BY <2>2, NthIs DEF Ordered
  <2> QED
    BY <2>1, <2>2, <2>4, <2>5
<1>2. CASE matrix[c] = Null
  <2>1. \A x \in DOMAIN cl : cl[x] # c
    BY <1>2 DEF Ordered, Heads
  <2> QED
    BY <1>2, <2>1 DEF Nth, At
<1> QED
  BY <1>1, <1>2

(* One link further is one deeper.                                         *)
LEMMA NthNext ==
  ASSUME NEW cl, NEW rk, NEW node, NEW matrix, Ordered(cl, rk, node, matrix), NEW c \in Class,
         NEW i \in Nat, NEW x, x = Nth(cl, rk, c, i)
  PROVE  Nth(cl, rk, c, i + 1) = IF x = Null THEN Null ELSE node[x].next
<1>1. Ranking(cl, rk) /\ IsFiniteSet(DOMAIN cl) /\ \A z \in DOMAIN cl : z # Null
  BY Settings DEF Ordered, Ranking
<1>2. CASE At(cl, rk, c, i) = {}
  <2>1. x = Null
    BY <1>2 DEF Nth
  <2>2. At(cl, rk, c, i + 1) = {}
    <3> SUFFICES ASSUME NEW z \in At(cl, rk, c, i + 1) PROVE FALSE
      OBVIOUS
    <3>1. z \in DOMAIN cl /\ cl[z] = c /\ Depth(cl, rk, z) = i + 1
      BY DEF At
    <3>2. Above(cl, rk, z) # {}
      <4> SUFFICES ASSUME Above(cl, rk, z) = {} PROVE FALSE
        OBVIOUS
      <4>1. Depth(cl, rk, z) = 0
        BY FS_EmptySet DEF Depth
      <4> QED
        BY <3>1, <4>1
    <3>3. PICK p : p = node[z].prev
      OBVIOUS
    <3>4. p # Null
      BY <3>1, <3>2, <3>3 DEF Ordered, PrevLinks
    <3>5. p \in DOMAIN cl /\ node[p].next = z
      BY <3>1, <3>3, <3>4, LinksAgree DEF Ordered
    <3>6. z # Null
      BY <1>1, <3>1
    <3>7. cl[z] = cl[p] /\ Depth(cl, rk, z) = Depth(cl, rk, p) + 1
      BY <3>5, <3>6, NextDepth
    <3>8. Depth(cl, rk, p) = i
      BY <1>1, <3>1, <3>7, DepthNat
    <3>9. p \in At(cl, rk, c, i)
      BY <3>1, <3>5, <3>7, <3>8 DEF At
    <3> QED
      BY <1>2, <3>9
  <2> QED
    BY <2>1, <2>2 DEF Nth
<1>3. CASE At(cl, rk, c, i) # {}
  <2>1. x \in DOMAIN cl /\ cl[x] = c /\ Depth(cl, rk, x) = i
    <3>1. x \in At(cl, rk, c, i)
      BY <1>3 DEF Nth
    <3> QED
      BY <3>1 DEF At
  <2>2. PICK n : n = node[x].next
    OBVIOUS
  <2>3. x # Null
    BY <1>1, <2>1
  <2>4. CASE n # Null
    <3>1. n \in DOMAIN cl /\ cl[n] = c /\ Depth(cl, rk, n) = i + 1
      BY <2>1, <2>2, <2>4, NextDepth
    <3>2. Nth(cl, rk, cl[n], Depth(cl, rk, n)) = n
      BY <1>1, <3>1, NthIs
    <3> QED
      BY <2>2, <2>3, <3>1, <3>2
  <2>5. CASE n = Null
    <3>1. Below(cl, rk, x) = {}
      BY <2>1, <2>2, <2>5 DEF Ordered, NextLinks
    <3>2. At(cl, rk, c, i + 1) = {}
      <4> SUFFICES ASSUME NEW z \in At(cl, rk, c, i + 1) PROVE FALSE
        OBVIOUS
      <4>1. z \in DOMAIN cl /\ cl[z] = cl[x] /\ Depth(cl, rk, z) = i + 1
        BY <2>1 DEF At
      <4>2. rk[z] \in Nat /\ rk[x] \in Nat
        BY <1>1, <2>1, <4>1 DEF Ranking
      <4>3. z # x
        BY <2>1, <4>1
      <4>4. rk[z] # rk[x]
        BY <1>1, <2>1, <4>1, <4>3 DEF Ranking
      <4>5. ~(rk[z] < rk[x])
        BY <3>1, <4>1 DEF Below
      <4>6. x \in Below(cl, rk, z)
        BY <2>1, <4>1, <4>2, <4>4, <4>5 DEF Below
      <4>7. Depth(cl, rk, z) < Depth(cl, rk, x)
        BY <1>1, <4>1, <4>6, DeeperBelow
      <4> QED
        BY <2>1, <4>1, <4>7
    <3>3. Nth(cl, rk, c, i + 1) = Null
      BY <3>2 DEF Nth
    <3> QED
      BY <2>2, <2>3, <2>5, <3>3
  <2> QED
    BY <2>4, <2>5
<1> QED
  BY <1>2, <1>3

-----------------------------------------------------------------------------
(* w follows the links of node from first.                                 *)
Walks(w, first, node) ==
    w = [i \in 0 .. PoolSize |->
            IF i = 0 THEN first ELSE IF w[i - 1] = Null THEN Null ELSE node[w[i - 1]].next]

(* Members in the order of their depth satisfy the recursion of Chain.     *)
LEMMA NthWalks ==
  ASSUME NEW cl, NEW rk, NEW node, NEW matrix, Ordered(cl, rk, node, matrix), NEW c \in Class
  PROVE  Walks([i \in 0 .. PoolSize |-> Nth(cl, rk, c, i)], matrix[c], node)
<1> DEFINE w == [i \in 0 .. PoolSize |-> Nth(cl, rk, c, i)]
<1>1. PoolSize \in Nat
  BY Settings
<1>2. ASSUME NEW i \in 0 .. PoolSize
      PROVE  w[i] = IF i = 0 THEN matrix[c]
                    ELSE IF w[i - 1] = Null THEN Null ELSE node[w[i - 1]].next
  <2>1. CASE i = 0
    BY <2>1, NthHead
  <2>2. CASE i # 0
    <3>1. PICK j \in Nat : j = i - 1
      BY <1>1, <2>2
    <3>2. j \in 0 .. PoolSize /\ i = j + 1
      BY <1>1, <3>1
    <3>3. PICK x : x = Nth(cl, rk, c, j)
      OBVIOUS
    <3>4. w[j] = x
      BY <3>2, <3>3
    <3>5. Nth(cl, rk, c, j + 1) = IF x = Null THEN Null ELSE node[x].next
      BY <3>3, NthNext
    <3>6. w[i] = Nth(cl, rk, c, j + 1)
      BY <3>2
    <3> HIDE DEF w
    <3> QED
      BY <2>2, <3>1, <3>4, <3>5, <3>6
  <2> QED
    BY <2>1, <2>2
<1>3. w = [i \in 0 .. PoolSize |-> w[i]]
  OBVIOUS
<1> HIDE DEF w
<1>4. Walks(w, matrix[c], node)
  BY <1>2, <1>3 DEF Walks
<1> QED
  BY <1>4 DEF w

(* No other walk does, by least counterexample.                            *)
LEMMA WalksUnique ==
  ASSUME NEW v, NEW w, NEW first, NEW node, Walks(v, first, node), Walks(w, first, node)
  PROVE  \A i \in 0 .. PoolSize : v[i] = w[i]
<1> DEFINE Bad == {i \in 0 .. PoolSize : v[i] # w[i]}
<1> SUFFICES ASSUME Bad # {} PROVE FALSE
  OBVIOUS
<1>1. Bad \in SUBSET Nat /\ PoolSize \in Nat
  BY Settings
<1>2. PICK m \in Bad : \A k \in Bad : m <= k
  BY <1>1, HasSmallest
<1>3. m \in 0 .. PoolSize /\ v[m] # w[m]
  OBVIOUS
<1>4. CASE m = 0
  BY <1>3, <1>4 DEF Walks
<1>5. CASE m # 0
  <2>1. m - 1 \in 0 .. PoolSize /\ m - 1 \notin Bad
    BY <1>1, <1>2, <1>3, <1>5
  <2>2. v[m - 1] = w[m - 1]
    BY <2>1
  <2>3. /\ v[m] = IF v[m - 1] = Null THEN Null ELSE node[v[m - 1]].next
        /\ w[m] = IF w[m - 1] = Null THEN Null ELSE node[w[m - 1]].next
    BY <1>3, <1>5 DEF Walks
  <2> QED
    BY <1>3, <2>2, <2>3
<1> QED
  BY <1>4, <1>5

(* A list reaches the members of its class and nothing else.               *)
LEMMA ChainIs ==
  ASSUME NEW cl, NEW rk, Ordered(cl, rk, heap.node, heap.matrix), NEW c \in Class,
         Cardinality(DOMAIN cl) <= PoolSize
  PROVE  Chain(c) = {x \in DOMAIN cl : cl[x] = c}
<1>1. PICK w : w = CHOOSE f : Walks(f, heap.matrix[c], heap.node)
  OBVIOUS
<1>2. PICK v : v = [i \in 0 .. PoolSize |-> Nth(cl, rk, c, i)]
  OBVIOUS
<1>3. Walks(v, heap.matrix[c], heap.node)
  BY <1>2, NthWalks
<1>4. Walks(w, heap.matrix[c], heap.node)
  BY <1>1, <1>3
<1>5. \A i \in 0 .. PoolSize : w[i] = Nth(cl, rk, c, i)
  BY <1>2, <1>3, <1>4, WalksUnique
<1>6. Chain(c) = {w[i] : i \in 0 .. PoolSize} \ {Null}
  BY <1>1 DEF Chain, Walks
<1>7. Ranking(cl, rk) /\ IsFiniteSet(DOMAIN cl) /\ \A x \in DOMAIN cl : x # Null
  BY Settings DEF Ordered, Ranking
<1>8. ASSUME NEW x \in DOMAIN cl, cl[x] = c PROVE x \in Chain(c)
  <2>1. PICK i : i = Depth(cl, rk, x)
    OBVIOUS
  <2>2. i \in 0 .. PoolSize
    <3>1. i \in Nat /\ i <= Cardinality(DOMAIN cl) /\ Cardinality(DOMAIN cl) \in Nat /\ PoolSize \in Nat
      BY <1>7, <2>1, DepthNat, FS_CardinalityType, Settings
    <3> QED
      BY <3>1
  <2>3. Nth(cl, rk, c, i) = x
    BY <1>7, <1>8, <2>1, NthIs
  <2>4. w[i] = x
    BY <1>5, <2>2, <2>3
  <2> QED
    BY <1>6, <1>7, <2>2, <2>4
<1>9. ASSUME NEW x \in Chain(c) PROVE x \in DOMAIN cl /\ cl[x] = c
  <2>1. PICK i \in 0 .. PoolSize : x = w[i] /\ x # Null
    BY <1>6
  <2>2. x = Nth(cl, rk, c, i)
    BY <1>5, <2>1
  <2>3. x \in At(cl, rk, c, i)
    BY <2>1, <2>2 DEF Nth
  <2> QED
    BY <2>3 DEF At
<1> QED
  BY <1>8, <1>9

-----------------------------------------------------------------------------
(* There are no more blocks than bytes.                                    *)
LEMMA FewBlocks ==
  ASSUME NEW g, Tiles(g), NEW M, M \subseteq DOMAIN g
  PROVE  IsFiniteSet(M) /\ Cardinality(M) <= PoolSize
<1>1. PICK n \in Nat : n = End
  BY EndFacts
<1>2. IsFiniteSet(0 .. n) /\ Cardinality(0 .. n) = n + 1
  BY FS_Interval
<1>3. M \in SUBSET (0 .. n)
  BY <1>1 DEF Tiles
<1>4. IsFiniteSet(M) /\ Cardinality(M) <= n + 1 /\ Cardinality(M) \in Nat
  BY <1>2, <1>3, FS_Subset, FS_CardinalityType
<1>5. n + 1 <= PoolSize
  BY <1>1, EndFacts, Settings
<1> QED
  BY <1>1, <1>4, <1>5, Settings

(* The lists, their links, the bitmaps and free_size.                      *)
LEMMA InvFreeLists == ASSUME Inv PROVE FreeLists
<1>1. PICK g, M : g = heap.hdr /\ M = Members(g)
  OBVIOUS
<1>2. Tiles(g) /\ Carries(heap, M)
  <2>1. Members(g) \ {} = M
    BY <1>1
  <2> QED
    BY <1>1, <2>1 DEF Inv, Sound
<1>3. PICK rk, cl : /\ cl = Classes(g, M)
                    /\ Lists(heap.node, heap.matrix, heap.slbitmap, heap.flbitmap, cl, rk)
  BY <1>1, <1>2 DEF Carries
<1>4. DOMAIN cl = M /\ \A x \in M : cl[x] = MAPPING_INSERT(g[x].size)
  BY <1>3 DEF Classes
<1>5. IsFiniteSet(M) /\ Cardinality(M) <= PoolSize
  BY <1>1, <1>2, FewBlocks DEF Members
<1>6. Ordered(cl, rk, heap.node, heap.matrix) /\ Bitmaps(heap.matrix, heap.slbitmap, heap.flbitmap)
  BY <1>3, <1>4, <1>5 DEF Lists, Ordered
<1>7. {b \in Free : Size(heap, b) > 0} = M
  BY <1>1 DEF Free, Members, Size
<1>8. \A c \in Class : Chain(c) = {b \in M : MAPPING_INSERT(Size(heap, b)) = c}
  <2>1. SUFFICES ASSUME NEW c \in Class
                 PROVE  Chain(c) = {b \in M : MAPPING_INSERT(Size(heap, b)) = c}
    OBVIOUS
  <2>2. Chain(c) = {x \in DOMAIN cl : cl[x] = c}
    BY <1>4, <1>5, <1>6, ChainIs
  <2> QED
    BY <1>1, <1>4, <2>2 DEF Size
<1>9. DOMAIN heap.node = M
  BY <1>4, <1>6 DEF Ordered, IsLinks
<1>10. ASSUME NEW b \in M
       PROVE  /\ heap.node[b].prev = Null <=> heap.matrix[MAPPING_INSERT(Size(heap, b))] = b
              /\ heap.node[b].prev # Null => heap.node[heap.node[b].prev].next = b
  <2>1. PICK c : c = cl[b]
    OBVIOUS
  <2>2. MAPPING_INSERT(Size(heap, b)) = c
    BY <1>1, <1>4, <2>1 DEF Size
  <2>3. heap.node[b].prev = Null <=> heap.matrix[c] = b
    BY <1>4, <1>6, <2>1, HeadIffFirst DEF Ordered
  <2>4. heap.node[b].prev # Null => heap.node[heap.node[b].prev].next = b
    BY <1>4, <1>6, LinksAgree DEF Ordered
  <2> QED
    BY <2>2, <2>3, <2>4
<1>11. /\ heap.slbitmap = {c \in Class : heap.matrix[c] # Null}
       /\ heap.flbitmap = {c[1] : c \in heap.slbitmap}
  BY <1>6 DEF Bitmaps
<1>12. heap.free_size = MapThenSumSet(LAMBDA b : Size(heap, b), M)
  <2>1. heap.free_size = Cardinality(Held(g, M)) /\ \A x \in M : g[x].size \in 1 .. PoolSize
    BY <1>1, <1>2 DEF Carries
  <2>2. MapThenSumSet(LAMBDA b : g[b].size, M) = Cardinality(Held(g, M))
    BY <1>5, <2>1, SumIsHeld
  <2>3. MapThenSumSet(LAMBDA b : Size(heap, b), M) = MapThenSumSet(LAMBDA b : g[b].size, M)
    BY <1>1 DEF Size, MapThenSumSet, MapThenFoldSet
  <2> QED
    BY <2>1, <2>2, <2>3
<1> QED
  BY <1>7, <1>8, <1>9, <1>10, <1>11, <1>12, Zenon DEF FreeLists

-----------------------------------------------------------------------------
(* Headers lie on the granularity of the pool, and free_size stays within  *)
(* it, whatever the constants (tlsf_t and bhdr_t of tlsf.c).               *)
THEOREM TlsfTyped == Spec => []TypeOK
<1>1. Inv => TypeOK
  BY InvTypeOK
<1> QED
  BY <1>1, Invariant, PTL

(* Behind every block but the last comes a header that says what the block *)
(* is: splits, merges, alignment and realloc keep all boundary tags.       *)
THEOREM TagsAgree == Spec => []BoundaryTags
<1>1. Inv => BoundaryTags
  BY InvBoundaryTags
<1> QED
  BY <1>1, Invariant, PTL

(* Two free blocks are never neighbours: MERGE_PREV and MERGE_NEXT see     *)
(* every pair that a call brings together.                                 *)
THEOREM FreeBlocksMerged == Spec => []FullyMerged
<1>1. Inv => FullyMerged
  BY InvFullyMerged
<1> QED
  BY <1>1, Invariant, PTL

(* The lists, followed from their heads, hold exactly the free blocks with *)
(* memory, each in the list of its class, the bitmaps name the lists with  *)
(* members, and free_size is the sum of the lengths.                       *)
THEOREM ListsExact == Spec => []FreeLists
<1>1. Inv => FreeLists
  BY InvFreeLists
<1> QED
  BY <1>1, Invariant, PTL

(* MAPPING_SEARCH and FIND_SUITABLE_BLOCK find a block that is long enough *)
(* whenever one has the rounded length.                                    *)
THEOREM SearchFinds == Spec => []SearchIsExact
<1>1. Inv => SearchIsExact
  BY InvSearchIsExact
<1> QED
  BY <1>1, Invariant, PTL

(* Every busy block belongs to a client, or ends the pool.                 *)
THEOREM NoLeak == Spec => []NothingLeaks
<1>1. Inv => NothingLeaks
  BY InvNothingLeaks
<1> QED
  BY <1>1, Invariant, PTL

(* The allocator with its lock, and with the gap that tlsf_realloc leaves  *)
(* between malloc and free, implements Heap: no two owners share a byte.   *)
THEOREM ThreadsShareHeap == Spec => ImplementsHeap
<1>1. Init => Pool!Init
  BY DEF Init, Pool!Init
<1>2. Inv /\ [Next]_vars => [Pool!Next]_Pool!vars
  BY StepInv DEF Pool!vars
<1> QED
  BY <1>1, <1>2, Invariant, PTL DEF Spec, ImplementsHeap, Pool!Spec
=============================================================================
