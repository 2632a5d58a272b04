-------------------------- MODULE SoftRunnerProofs --------------------------
(***************************************************************************)
(* The software runner against the machine with flags of its own, and what *)
(* its immediate transfers move, for every width of a halfword, layout of  *)
(* the memories, set of channels and registers, and program of             *)
(* instructions as decoded.                                                *)
(*                                                                         *)
(* The code is loops, over the units of a transfer and over the registers  *)
(* of a list, and the model follows them.  Of each loop the proofs say     *)
(* what it has done after so many rounds, by induction, and find in the    *)
(* last what BlockMoved, StoreBlock and LoadBlock say of the whole.        *)
(* Everything else an instruction does commutes with a change of the link  *)
(* register, unless it reads or writes that: the invariant is that the two *)
(* machines differ in nothing else.                                        *)
(***************************************************************************)
EXTENDS SoftRunner, FiniteSetTheorems, WellFoundedInduction, TLAPS

-----------------------------------------------------------------------------
(* Induction over the natural numbers, for sets of them: the least number  *)
(* that is not in the set would follow one that is.                        *)

LEMMA LeastNumber ==
  ASSUME NEW T, T \subseteq Nat, T # {}
  PROVE  \E x \in T : \A y \in T : x <= y
<1>1. PICK R : R = OpToRel(<, Nat)
  OBVIOUS
<1>2. IsWellFoundedOn(R, Nat)
  BY <1>1, NatLessThanWellFounded
<1>3. PICK x \in T : \A y \in T : ~ (<<y, x>> \in R)
  BY <1>2, WFMin
<1>4. \A i, j \in Nat : <<i, j>> \in R <=> i < j
  BY <1>1 DEF OpToRel
<1>5. \A y \in T : x \in Nat /\ y \in Nat /\ ~(y < x)
  BY <1>3, <1>4
<1> QED  BY <1>5

LEMMA Induction ==
  ASSUME NEW S, 0 \in S, \A n \in Nat : n \in S => n + 1 \in S
  PROVE  Nat \subseteq S
<1> SUFFICES ASSUME Nat \ S # {} PROVE FALSE
  OBVIOUS
<1>1. PICK x \in Nat \ S : \A y \in Nat \ S : x <= y
  <2>1. PICK T : T = Nat \ S
    OBVIOUS
  <2>2. T \subseteq Nat /\ T # {}
    BY <2>1
  <2> QED  BY <2>1, <2>2, LeastNumber
<1>2. x # 0 /\ x - 1 \in Nat
  BY <1>1
<1>3. x - 1 \in S
  BY <1>1, <1>2
<1> QED  BY <1>1, <1>2, <1>3

\* The series that starts from x and goes on by F exists.
IsSeries(g, m, x, F) ==
  g = [n \in 0..m |-> IF n = 0 THEN x ELSE F[<<n, g[n - 1]>>]]

LEMMA Recursion ==
  ASSUME NEW m \in Nat, NEW S, NEW x \in S, NEW F \in [Nat \X S -> S]
  PROVE  \E g \in [0..m -> S] : IsSeries(g, m, x, F)
<1> USE DEF IsSeries
<1> DEFINE T == {k \in Nat : \E g \in [0..k -> S] :
                   g = [n \in 0..k |-> IF n = 0 THEN x ELSE F[<<n, g[n - 1]>>]]}
<1>1. 0 \in T
  <2>1. PICK g : g = [n \in 0..0 |-> x]
    OBVIOUS
  <2>2. g \in [0..0 -> S]
    BY <2>1
  <2>3. g = [n \in 0..0 |-> IF n = 0 THEN x ELSE F[<<n, g[n - 1]>>]]
    BY <2>1
  <2> QED  BY <2>2, <2>3
<1>2. ASSUME NEW k \in Nat, k \in T PROVE k + 1 \in T
  <2>1. PICK g \in [0..k -> S] :
          g = [n \in 0..k |-> IF n = 0 THEN x ELSE F[<<n, g[n - 1]>>]]
    BY <1>2
  <2>2. PICK h : h = [n \in 0..(k + 1) |->
                       IF n = k + 1 THEN F[<<k + 1, g[k]>>] ELSE g[n]]
    OBVIOUS
  <2>3. F[<<k + 1, g[k]>>] \in S
    OBVIOUS
  <2>4. h \in [0..(k + 1) -> S]
    BY <2>2, <2>3
  <2>5. ASSUME NEW n \in 0..(k + 1)
        PROVE  h[n] = IF n = 0 THEN x ELSE F[<<n, h[n - 1]>>]
    <3>1. CASE n = k + 1
      <4>1. h[n] = F[<<k + 1, g[k]>>] /\ n # 0 /\ n - 1 = k
        BY <2>2, <3>1
      <4>2. h[k] = g[k]
        BY <2>2
      <4> QED  BY <3>1, <4>1, <4>2
    <3>2. CASE n # k + 1
      <4>1. n \in 0..k /\ h[n] = g[n] /\ (n # 0 => h[n - 1] = g[n - 1])
        BY <2>2, <3>2
      <4>2. g[n] = IF n = 0 THEN x ELSE F[<<n, g[n - 1]>>]
        BY <2>1, <4>1
      <4> QED  BY <4>1, <4>2
    <3> QED  BY <3>1, <3>2
  <2>6. h = [n \in 0..(k + 1) |-> IF n = 0 THEN x ELSE F[<<n, h[n - 1]>>]]
    BY <2>2, <2>5
  <2>7. k + 1 \in Nat
    OBVIOUS
  <2>8. \E f \in [0..(k + 1) -> S] :
          f = [n \in 0..(k + 1) |-> IF n = 0 THEN x ELSE F[<<n, f[n - 1]>>]]
    BY <2>4, <2>6
  <2> QED  BY <2>7, <2>8
<1>3. Nat \subseteq T
  <2> HIDE DEF T
  <2> QED  BY <1>1, <1>2, Induction
<1> QED  BY <1>3

-----------------------------------------------------------------------------
(* Powers of two.                                                          *)

\* A set with one more element has twice as many subsets: those without it, and
\* those with it.
LEMMA Doubles ==
  ASSUME NEW n \in Nat
  PROVE  2 ^ (n + 1) = 2 * 2 ^ n
<1> DEFINE S == 1..n
           T == 1..(n + 1)
           With == {x \in SUBSET T : n + 1 \in x}
<1>1. /\ IsFiniteSet(S) /\ Cardinality(S) = n
      /\ IsFiniteSet(T) /\ Cardinality(T) = n + 1
  BY FS_Interval
<1>2. /\ IsFiniteSet(SUBSET S) /\ Cardinality(SUBSET S) = 2 ^ n
      /\ IsFiniteSet(SUBSET T) /\ Cardinality(SUBSET T) = 2 ^ (n + 1)
  BY <1>1, FS_SUBSET
<1>3. SUBSET T = (SUBSET S) \cup With /\ (SUBSET S) \cap With = {}
  <2>1. T = S \cup {n + 1} /\ n + 1 \notin S
    OBVIOUS
  <2> HIDE DEF S, T
  <2> QED  BY <2>1
<1>4. IsFiniteSet(With) /\ Cardinality(With) = Cardinality(SUBSET S)
  <2> DEFINE f == [x \in SUBSET S |-> x \cup {n + 1}]
  <2>1. T = S \cup {n + 1} /\ n + 1 \notin S
    OBVIOUS
  <2> HIDE DEF S, T
  <2>2. f \in [SUBSET S -> With]
    BY <2>1
  <2>3. ASSUME NEW x \in SUBSET S, NEW y \in SUBSET S, f[x] = f[y] PROVE x = y
    <3>1. x = f[x] \ {n + 1} /\ y = f[y] \ {n + 1}
      BY <2>1
    <3> QED  BY <2>3, <3>1
  <2>4. ASSUME NEW y \in With PROVE \E x \in SUBSET S : f[x] = y
    <3>1. y \ {n + 1} \in SUBSET S /\ f[y \ {n + 1}] = y
      BY <2>1
    <3> QED  BY <3>1
  <2>5. f \in Bijection(SUBSET S, With)
    <3> HIDE DEF f
    <3> QED  BY <2>2, <2>3, <2>4 DEF Bijection, Injection, Surjection, IsInjective
  <2>6. ExistsBijection(SUBSET S, With)
    BY <2>5 DEF ExistsBijection
  <2> HIDE DEF With
  <2> QED  BY <1>2, <2>6, FS_Bijection
<1> HIDE DEF S, T, With
<1>5. Cardinality(SUBSET T) =
        Cardinality(SUBSET S) + Cardinality(With) - Cardinality((SUBSET S) \cap With)
  BY <1>2, <1>3, <1>4, FS_Union
<1>6. Cardinality((SUBSET S) \cap With) = 0
  BY <1>3, FS_EmptySet
<1>7. Cardinality(SUBSET S) \in Nat
  BY <1>2, FS_CardinalityType
<1> QED  BY <1>2, <1>4, <1>5, <1>6, <1>7

LEMMA PowerPositive ==
  ASSUME NEW n \in Nat
  PROVE  2 ^ n \in Nat /\ 2 ^ n > 0
<1> DEFINE S == {k \in Nat : 2 ^ k \in Nat /\ 2 ^ k > 0}
<1>1. 0 \in S
  BY SMT
<1>2. ASSUME NEW k \in Nat, k \in S PROVE k + 1 \in S
  BY <1>2, Doubles
<1>3. Nat \subseteq S
  <2> HIDE DEF S
  <2> QED  BY <1>1, <1>2, Induction
<1> QED  BY <1>3

LEMMA PowerSum ==
  ASSUME NEW a \in Nat, NEW b \in Nat
  PROVE  2 ^ (a + b) = 2 ^ a * 2 ^ b
<1> DEFINE S == {k \in Nat : 2 ^ (a + k) = 2 ^ a * 2 ^ k}
<1>1. 0 \in S
  <2>1. 2 ^ 0 = 1 /\ a + 0 = a /\ 2 ^ a \in Nat
    BY PowerPositive
  <2> QED  BY <2>1
<1>2. ASSUME NEW k \in Nat, k \in S PROVE k + 1 \in S
  <2>1. PICK p \in Nat, q \in Nat : p = 2 ^ a /\ q = 2 ^ k
    BY PowerPositive
  <2>2. 2 ^ (k + 1) = 2 * q
    BY <2>1, Doubles
  <2>3. a + k \in Nat /\ a + (k + 1) = (a + k) + 1
    OBVIOUS
  <2>4. 2 ^ (a + (k + 1)) = 2 * 2 ^ (a + k)
    BY <2>3, Doubles
  <2>5. 2 ^ (a + k) = p * q
    BY <1>2, <2>1
  <2>6. 2 ^ (a + (k + 1)) = p * (2 * q)
    BY <2>4, <2>5
  <2> QED  BY <2>1, <2>2, <2>6
<1>3. Nat \subseteq S
  <2> HIDE DEF S
  <2> QED  BY <1>1, <1>2, Induction
<1> QED  BY <1>3

\* A word is two halves; words come in fours and the flags have a bit each.
LEMMA Ranges ==
  /\ HalfRange \in Nat /\ HalfRange > 128 /\ HalfRange % 4 = 0
  /\ WordRange = HalfRange * HalfRange
  /\ WordRange \in Nat /\ WordRange > 1024 /\ WordRange % 4 = 0
  /\ ZBit \in Nat /\ CBit \in Nat
  /\ 2 ^ CBit \in Nat /\ 2 ^ CBit > 0 /\ 2 ^ ZBit = 2 * 2 ^ CBit /\ WordRange = 8 * 2 ^ CBit
<1>1. PICK h \in Nat : h = HalfBits - 8
  BY DmaAssumption
<1>2. PICK p \in Nat : p = 2 ^ h /\ p > 0
  BY PowerPositive
<1>3. HalfRange = 256 * p
  <2>1. HalfRange = 2 ^ (8 + h) /\ 2 ^ 8 = 256
    BY <1>1, DmaAssumption DEF HalfRange
  <2>2. 2 ^ (8 + h) = 2 ^ 8 * 2 ^ h
    BY PowerSum
  <2> QED  BY <1>2, <2>1, <2>2
<1>4. WordRange = HalfRange * HalfRange
  <2>1. 2 * HalfBits = HalfBits + HalfBits
    BY DmaAssumption
  <2>2. 2 ^ (HalfBits + HalfBits) = 2 ^ HalfBits * 2 ^ HalfBits
    BY PowerSum, DmaAssumption
  <2> QED  BY <2>1, <2>2 DEF WordRange, HalfRange
<1>5. ZBit \in Nat /\ CBit \in Nat /\ ZBit = CBit + 1 /\ 2 * HalfBits = 3 + CBit
  BY DmaAssumption DEF ZBit, CBit
<1>6. PICK c \in Nat : c = 2 ^ CBit /\ c > 0
  BY <1>5, PowerPositive
<1>7. 2 ^ ZBit = 2 * c
  BY <1>5, <1>6, Doubles
<1>8. WordRange = 8 * c
  <2>1. 2 ^ (3 + CBit) = 2 ^ 3 * 2 ^ CBit
    BY <1>5, PowerSum
  <2>2. 2 ^ 3 = 8
    OBVIOUS
  <2> QED  BY <1>5, <1>6, <2>1, <2>2 DEF WordRange
<1>9. HalfRange \in Nat /\ HalfRange > 128 /\ HalfRange % 4 = 0
  BY <1>2, <1>3
<1>10. WordRange > 1024
  <2>1. PICK q \in Nat : q = p * p /\ q > 0
    BY <1>2
  <2>2. WordRange = 65536 * q
    BY <1>2, <1>3, <1>4, <2>1
  <2> QED  BY <2>1, <2>2
<1>11. WordRange % 4 = 0 /\ WordRange \in Nat
  BY <1>6, <1>8
<1> QED  BY <1>4, <1>5, <1>6, <1>7, <1>8, <1>9, <1>10, <1>11

-----------------------------------------------------------------------------
(* Addresses.                                                              *)

LEMMA Division ==
  ASSUME NEW n \in Int, NEW d \in Nat, d > 0
  PROVE  /\ n \div d \in Int /\ n % d \in 0..(d - 1)
         /\ n = (n \div d) * d + (n % d)
  OBVIOUS

LEMMA DivisionUnique ==
  ASSUME NEW q \in Int, NEW d \in Nat, NEW r \in 0..(d - 1), NEW n \in Int,
         n = q * d + r
  PROVE  n \div d = q /\ n % d = r
  OBVIOUS

\* The remainder does not see multiples of the divisor.
LEMMA RemainderOfSum ==
  ASSUME NEW n \in Int, NEW m \in Int, NEW d \in Nat, d > 0
  PROVE  ((n % d) + m) % d = (n + m) % d
<1>1. PICK q \in Int, r \in 0..(d - 1) : r = n % d /\ n = q * d + r
  BY Division
<1>2. PICK k \in Int, s \in 0..(d - 1) : s = (r + m) % d /\ r + m = k * d + s
  BY Division
<1>3. n + m = (q + k) * d + s
  <2>1. (q + k) * d = q * d + k * d
    OBVIOUS
  <2>2. q * d \in Int /\ k * d \in Int
    OBVIOUS
  <2> QED  BY <1>1, <1>2, <2>1, <2>2
<1>4. (n + m) % d = s
  <2>1. PICK t \in Int, u \in Int : t = n + m /\ u = q + k
    OBVIOUS
  <2>2. t = u * d + s
    BY <1>3, <2>1
  <2>3. t % d = s
    BY <2>2, DivisionUnique
  <2> QED  BY <2>1, <2>3
<1> QED  BY <1>1, <1>2, <1>4

LEMMA PlusType ==
  ASSUME NEW a \in Int, NEW n \in Int
  PROVE  Plus(a, n) \in Words /\ Plus(a, n) \in Nat
  BY Ranges, Division DEF Plus, Words

LEMMA PlusPlus ==
  ASSUME NEW a \in Int, NEW n \in Int, NEW m \in Int
  PROVE  Plus(Plus(a, n), m) = Plus(a, n + m)
<1>1. (((a + n) % WordRange) + m) % WordRange = ((a + n) + m) % WordRange
  <2>1. PICK t \in Int : t = a + n
    OBVIOUS
  <2>2. PICK W \in Nat : W = WordRange /\ W > 0
    BY Ranges
  <2>3. ((t % W) + m) % W = (t + m) % W
    BY <2>2, RemainderOfSum
  <2> QED  BY <2>1, <2>2, <2>3
<1>2. (a + n) + m = a + (n + m)
  OBVIOUS
<1> QED  BY <1>1, <1>2 DEF Plus

LEMMA PlusWithin ==
  ASSUME NEW a \in Int, NEW n \in Int, a + n \in Words
  PROVE  Plus(a, n) = a + n
<1>1. a + n = 0 * WordRange + (a + n) /\ a + n \in 0..(WordRange - 1)
  BY Ranges DEF Words
<1> QED  BY <1>1, Ranges, DivisionUnique DEF Plus

\* Two addresses less than the address space apart are two.
LEMMA PlusDiffers ==
  ASSUME NEW a \in Int, NEW n \in Nat, NEW m \in Nat, n < m, m - n < WordRange
  PROVE  Plus(a, n) # Plus(a, m)
<1>1. PICK W \in Nat : W = WordRange /\ W > 0
  BY Ranges
<1>t. PICK t \in Int, u \in Int : t = a + n /\ u = a + m
  OBVIOUS
<1>2. PICK q \in Int, r \in 0..(W - 1) : r = t % W /\ t = q * W + r
  BY <1>1, Division
<1>3. PICK k \in Int, s \in 0..(W - 1) : s = u % W /\ u = k * W + s
  BY <1>1, Division
<1>4. SUFFICES ASSUME r = s PROVE FALSE
  BY <1>1, <1>t, <1>2, <1>3 DEF Plus
<1>5. m - n = (k - q) * W
  <2>1. (k - q) * W = k * W - q * W
    OBVIOUS
  <2>2. q * W \in Int /\ k * W \in Int
    OBVIOUS
  <2> QED  BY <1>t, <1>2, <1>3, <1>4, <2>1, <2>2
<1>6. k - q > 0 => (k - q) * W >= W
  OBVIOUS
<1>7. k - q <= 0 => (k - q) * W <= 0
  OBVIOUS
<1> QED  BY <1>1, <1>5, <1>6, <1>7

\* The address space is a number of words.
LEMMA PlusAligned ==
  ASSUME NEW a \in Int, NEW n \in Int
  PROVE  a % 4 = 0 /\ n % 4 = 0 => Plus(a, n) % 4 = 0
<1>1. PICK w \in Nat : WordRange = 4 * w /\ w > 0
  <2>1. 2 ^ CBit \in Nat /\ 2 ^ CBit > 0 /\ WordRange = 8 * 2 ^ CBit
    BY Ranges
  <2>2. PICK c \in Nat : c = 2 ^ CBit
    BY <2>1
  <2>3. c > 0 /\ WordRange = 8 * c
    BY <2>1, <2>2
  <2>4. PICK v \in Nat : v = 2 * c /\ v > 0
    BY <2>3
  <2>5. WordRange = 4 * v
    BY <2>3, <2>4
  <2> QED  BY <2>4, <2>5
<1>2. PICK q \in Int : Plus(a, n) = a + n - q * (4 * w)
  <2>t. PICK t \in Int : t = a + n
    OBVIOUS
  <2>1. PICK d \in Nat : d = WordRange /\ d = 4 * w /\ d > 0
    BY <1>1
  <2>2. t \div d \in Int /\ t % d \in 0..(d - 1) /\ t = (t \div d) * d + (t % d)
    BY <2>1, Division
  <2>3. PICK q \in Int, r \in Int : q = t \div d /\ r = t % d /\ t = q * d + r
    BY <2>2
  <2>4. PICK p \in Int : p = q * d
    OBVIOUS
  <2>5. r = a + n - q * d
    BY <2>t, <2>3, <2>4
  <2>6. Plus(a, n) = r
    BY <2>t, <2>1, <2>3 DEF Plus
  <2> QED  BY <2>1, <2>5, <2>6
<1>3. PICK p \in Int : p = q * w /\ q * (4 * w) = 4 * p
  OBVIOUS
<1>4. Plus(a, n) = a + n - 4 * p
  BY <1>2, <1>3
<1> QED  BY <1>4

LEMMA PlusZero ==
  ASSUME NEW a \in Words
  PROVE  Plus(a, 0) = a
<1>1. a \in Int /\ a + 0 = a
  BY Ranges DEF Words
<1> QED  BY <1>1, PlusWithin

-----------------------------------------------------------------------------
(* The memories.                                                           *)

Mem == [Cells -> Halfwords]
Memories == RegionNames \ {"io"}

LEMMA RegionFacts ==
  ASSUME NEW n \in RegionNames
  PROVE  /\ Regions[n].start \in Nat /\ Regions[n].start % 4 = 0
         /\ Regions[n].size \in Nat /\ Regions[n].size > 0 /\ Regions[n].size % 4 = 0
         /\ Regions[n].start + Regions[n].size <= WordRange
  BY DmaAssumption

LEMMA Apart ==
  ASSUME NEW n \in RegionNames, NEW o \in RegionNames, n # o, NEW a \in Int, In(n, a)
  PROVE  ~In(o, a)
<1>1. \/ Regions[n].start + Regions[n].size <= Regions[o].start
      \/ Regions[o].start + Regions[o].size <= Regions[n].start
  BY DmaAssumption
<1> QED  BY <1>1, RegionFacts DEF In

LEMMA CellFacts ==
  ASSUME NEW a \in Cells
  PROVE  a \in Nat /\ a % 2 = 0
<1>1. ASSUME NEW c \in Channels, NEW k \in 0..5, a = Base(c) + 2 * k PROVE a \in Nat /\ a % 2 = 0
  <2>1. c \in 0..3 /\ "io" \in RegionNames
    BY DmaAssumption DEF RegionNames
  <2>2. PICK s \in Nat : s = Regions["io"].start /\ s % 4 = 0
    BY <2>1, RegionFacts
  <2>3. PICK m \in Nat : s = 4 * m
    <3>1. s \div 4 \in Nat /\ s = 4 * (s \div 4)
      BY <2>2
    <3> QED  BY <3>1
  <2>4. PICK x \in Nat : x = 2 * m + 88 + 6 * c + k
    BY <2>1
  <2>5. a = 2 * x
    BY <1>1, <2>1, <2>2, <2>3, <2>4 DEF Base, DMA0SAD
  <2> QED  BY <2>5
<1>2. ASSUME NEW n \in Memories, a \in CellsOf(n) PROVE a \in Nat /\ a % 2 = 0
  BY <1>2, RegionFacts DEF CellsOf, Memories
<1> QED  BY <1>1, <1>2 DEF Cells, DmaCells, Memories

\* A word that begins in a region lies in it.
LEMMA WordInRegion ==
  ASSUME NEW n \in RegionNames, NEW a \in Int, In(n, a), a % 4 = 0
  PROVE  In(n, a + 2) /\ a \in Words /\ a + 2 \in Words /\ Plus(a, 2) = a + 2
<1>1. /\ a + 2 < Regions[n].start + Regions[n].size
      /\ a >= Regions[n].start /\ a + 2 >= Regions[n].start
  BY RegionFacts DEF In
<1>2. a \in Words /\ a + 2 \in Words
  BY <1>1, RegionFacts, Ranges DEF Words
<1>3. Plus(a, 2) = a + 2
  BY <1>2, PlusWithin
<1>4. In(n, a + 2)
  BY <1>1 DEF In
<1> QED  BY <1>2, <1>3, <1>4

\* The registers of a channel are cells of the I/O page, out of a transfer's reach.
LEMMA DmaRegister ==
  ASSUME NEW c \in Channels, NEW k \in 0..5
  PROVE  /\ Base(c) + 2 * k \in Cells /\ Base(c) + 2 * k \in Nat
         /\ ~In("rom", Base(c) + 2 * k) /\ ~Reachable(Base(c) + 2 * k)
<1>1. c \in 0..3 /\ "io" \in RegionNames /\ Regions["io"].size >= 176 + 4 * 12
  BY DmaAssumption DEF RegionNames
<1>2. Base(c) + 2 * k \in Nat /\ In("io", Base(c) + 2 * k)
  BY <1>1, RegionFacts DEF Base, DMA0SAD, In
<1>3. \A n \in Memories : ~In(n, Base(c) + 2 * k)
  BY <1>1, <1>2, Apart DEF Memories
<1>4. Base(c) + 2 * k \in Cells
  BY DEF Cells, DmaCells
<1> QED  BY <1>2, <1>3, <1>4 DEF Memories, Reachable, RegionNames

LEMMA ControlCell ==
  ASSUME NEW c \in Channels
  PROVE  /\ {Base(c), Base(c) + 2, Base(c) + 4, Base(c) + 6, Base(c) + 8} \subseteq Cells
         /\ ControlAddr(c) \in Cells /\ ~Reachable(ControlAddr(c))
         /\ ControlAddr(c) \in Nat
         /\ \A d \in Channels : ControlAddr(d) = ControlAddr(c) => d = c
<1>1. /\ Base(c) + 2 * 0 \in Cells /\ Base(c) + 2 * 1 \in Cells /\ Base(c) + 2 * 2 \in Cells
      /\ Base(c) + 2 * 3 \in Cells /\ Base(c) + 2 * 4 \in Cells /\ Base(c) + 2 * 5 \in Cells
      /\ ~Reachable(Base(c) + 2 * 5) /\ Base(c) + 2 * 5 \in Nat
  BY DmaRegister
<1>2. Base(c) \in Int /\ DMA0SAD \in Int /\ Channels \subseteq 0..3 /\ Base(c) + 10 \in Nat
  <2>1. "io" \in RegionNames /\ Channels \subseteq 0..3
    BY DmaAssumption DEF RegionNames
  <2> QED  BY <2>1, RegionFacts DEF Base, DMA0SAD
<1>3. \A d \in Channels : ControlAddr(d) = ControlAddr(c) => d = c
  BY <1>2 DEF ControlAddr, Base
<1> QED  BY <1>1, <1>2, <1>3 DEF ControlAddr

LEMMA GetType ==
  ASSUME NEW mem \in Mem, NEW a
  PROVE  Get(mem, a) \in Halfwords
  BY Ranges DEF Get, Mem, Halfwords

LEMMA WordAtType ==
  ASSUME NEW mem \in Mem, NEW a
  PROVE  WordAt(mem, a) \in Words
<1>1. PICK x \in Halfwords, y \in Halfwords : x = Get(mem, a) /\ y = Get(mem, a + 2)
  BY GetType
<1>2. PICK h \in Nat : h = HalfRange /\ WordRange = h * h /\ h > 0
  BY Ranges
<1>3. x \in Nat /\ y \in Nat /\ x <= h - 1 /\ y <= h - 1
  BY <1>1, <1>2 DEF Halfwords
<1>4. h * y <= h * (h - 1) /\ h * y \in Nat
  BY <1>2, <1>3
<1>5. h * (h - 1) = h * h - h
  BY <1>2
<1>6. h * h \in Nat
  BY <1>2
<1>7. x + h * y \in 0..(h * h - 1)
  BY <1>2, <1>3, <1>4, <1>5, <1>6
<1> QED  BY <1>1, <1>2, <1>7 DEF WordAt, Words

-----------------------------------------------------------------------------
(* A transfer, unit by unit.                                               *)

Controls == [enable : BOOLEAN, timed : BOOLEAN, is32 : BOOLEAN, repeat : BOOLEAN,
             src : 0..3, dst : 0..3]

\* A transfer under way.
Moving == [mem : Mem, source : Words, dest : Words]

UnitStep(mode, control) == AddrStep(mode, IF control.is32 THEN 4 ELSE 2)

LEMMA ControlType ==
  ASSUME NEW half \in Halfwords
  PROVE  ControlOf(half) \in Controls
<1>1. half \in Nat
  BY Ranges DEF Halfwords
<1>2. half % 4 \in 0..3 /\ half \div 4 \in Nat /\ (half \div 4) % 4 \in 0..3
  BY <1>1
<1> QED  BY <1>2 DEF ControlOf, Controls, Bit

LEMMA StepFacts ==
  ASSUME NEW control \in Controls, NEW mode \in 0..3
  PROVE  UnitStep(mode, control) \in Int
  BY DEF UnitStep, AddrStep, Controls

LEMMA DmaReadType ==
  ASSUME NEW mem \in Mem, NEW a
  PROVE  DmaRead(mem, a) \in Halfwords
  BY GetType, Ranges DEF DmaRead, Halfwords

LEMMA DmaWriteType ==
  ASSUME NEW mem \in Mem, NEW a, NEW half \in Halfwords
  PROVE  /\ DmaWrite(mem, a, half) \in Mem
         /\ \A x \in Cells : DmaWrite(mem, a, half)[x] =
                               IF x = a /\ Reachable(a) THEN half ELSE mem[x]
  BY DEF DmaWrite, Mem

\* What a unit moves: each of its halves to where it goes, and nothing else.
LEMMA UnitMoves ==
  ASSUME NEW t \in Moving, NEW control \in Controls
  PROVE  /\ MoveUnit(t, control) \in Moving
         /\ MoveUnit(t, control).source = Plus(t.source, UnitStep(control.src, control))
         /\ MoveUnit(t, control).dest = Plus(t.dest, UnitStep(control.dst, control))
         /\ \A x \in Cells :
              /\ \A h \in Halves(control) :
                   x = Plus(t.dest, h) /\ Reachable(x) =>
                     MoveUnit(t, control).mem[x] = DmaRead(t.mem, Plus(t.source, h))
              /\ (\A h \in Halves(control) : x # Plus(t.dest, h)) \/ ~Reachable(x) =>
                   MoveUnit(t, control).mem[x] = t.mem[x]
<1> DEFINE low == DmaWrite(t.mem, t.dest, DmaRead(t.mem, t.source))
           high == DmaWrite(low, Plus(t.dest, 2), DmaRead(t.mem, Plus(t.source, 2)))
           source == Plus(t.source, UnitStep(control.src, control))
           dest == Plus(t.dest, UnitStep(control.dst, control))
<1>1. /\ t.mem \in Mem /\ t.source \in Words /\ t.dest \in Words
      /\ t.source \in Int /\ t.dest \in Int
  BY Ranges DEF Moving, Words
<1>2. /\ control.src \in 0..3 /\ control.dst \in 0..3 /\ control.is32 \in BOOLEAN
  BY DEF Controls
<1>4. source \in Words /\ dest \in Words
  <2>1. UnitStep(control.src, control) \in Int /\ UnitStep(control.dst, control) \in Int
    BY <1>2, StepFacts
  <2> HIDE DEF source, dest
  <2>2. source \in Words
    BY <1>1, <2>1, PlusType DEF source
  <2>3. dest \in Words
    BY <1>1, <2>1, PlusType DEF dest
  <2> QED  BY <2>2, <2>3
<1>5. DmaRead(t.mem, t.source) \in Halfwords /\ DmaRead(t.mem, Plus(t.source, 2)) \in Halfwords
  BY <1>1, DmaReadType
<1>6. /\ low \in Mem
      /\ \A x \in Cells : low[x] = IF x = t.dest /\ Reachable(t.dest)
                                   THEN DmaRead(t.mem, t.source) ELSE t.mem[x]
  BY <1>1, <1>5, DmaWriteType
<1> HIDE DEF low
<1>7. /\ high \in Mem
      /\ \A x \in Cells : high[x] = IF x = Plus(t.dest, 2) /\ Reachable(Plus(t.dest, 2))
                                    THEN DmaRead(t.mem, Plus(t.source, 2)) ELSE low[x]
  BY <1>5, <1>6, DmaWriteType
<1> HIDE DEF high
<1>8. MoveUnit(t, control) =
        [mem |-> IF control.is32 THEN high ELSE low, source |-> source, dest |-> dest]
  BY DEF MoveUnit, low, high, UnitStep
<1> HIDE DEF source, dest
<1>9. Plus(t.source, 0) = t.source /\ Plus(t.dest, 0) = t.dest /\ Plus(t.dest, 2) # Plus(t.dest, 0)
  BY <1>1, PlusZero, PlusDiffers, Ranges
<1>10. MoveUnit(t, control) \in Moving
  BY <1>4, <1>6, <1>7, <1>8 DEF Moving
<1>11. ASSUME NEW x \in Cells
       PROVE  /\ \A h \in Halves(control) :
                   x = Plus(t.dest, h) /\ Reachable(x) =>
                     MoveUnit(t, control).mem[x] = DmaRead(t.mem, Plus(t.source, h))
              /\ (\A h \in Halves(control) : x # Plus(t.dest, h)) \/ ~Reachable(x) =>
                   MoveUnit(t, control).mem[x] = t.mem[x]
  <2>1. CASE control.is32
    <3>1. Halves(control) = {0, 2} /\ MoveUnit(t, control).mem = high
      BY <2>1, <1>8 DEF Halves
    <3> QED  BY <3>1, <1>6, <1>7, <1>9
  <2>2. CASE ~control.is32
    <3>1. Halves(control) = {0} /\ MoveUnit(t, control).mem = low
      BY <2>2, <1>8 DEF Halves
    <3> QED  BY <3>1, <1>6, <1>9
  <2> QED  BY <2>1, <2>2
<1> QED  BY <1>8, <1>10, <1>11 DEF source, dest


IsTransfer(g, n, t, control) ==
  g = [u \in 0..n |-> IF u = 0 THEN t ELSE MoveUnit(g[u - 1], control)]

LEMMA TransferExists ==
  ASSUME NEW n \in Nat, NEW t \in Moving, NEW control \in Controls
  PROVE  \E g : IsTransfer(g, n, t, control)
<1>1. PICK F : F = [p \in Nat \X Moving |-> MoveUnit(p[2], control)]
  OBVIOUS
<1>2. \A p \in Nat \X Moving : p[2] \in Moving /\ F[p] = MoveUnit(p[2], control)
  BY <1>1
<1>3. F \in [Nat \X Moving -> Moving]
  <2>1. \A x \in Moving : MoveUnit(x, control) \in Moving
    BY UnitMoves
  <2>2. \A p \in Nat \X Moving : MoveUnit(p[2], control) \in Moving
    BY <1>2, <2>1
  <2> QED  BY <1>1, <2>2
<1>4. PICK g \in [0..n -> Moving] : IsSeries(g, n, t, F)
  BY <1>3, Recursion
<1>5. ASSUME NEW u \in 0..n, u # 0 PROVE F[<<u, g[u - 1]>>] = MoveUnit(g[u - 1], control)
  <2>1. u \in Nat /\ g[u - 1] \in Moving
    BY <1>4, <1>5
  <2> QED  BY <1>2, <2>1
<1>6. g = [u \in 0..n |-> IF u = 0 THEN t ELSE F[<<u, g[u - 1]>>]]
  BY <1>4 DEF IsSeries
<1>7. \A u \in 0..n : g[u] = IF u = 0 THEN t ELSE MoveUnit(g[u - 1], control)
  BY <1>5, <1>6
<1>8. g = [u \in 0..n |-> IF u = 0 THEN t ELSE MoveUnit(g[u - 1], control)]
  BY <1>4, <1>7
<1> QED  BY <1>8 DEF IsTransfer

\* Unit u of a transfer starts u steps from where the first one does.
LEMMA TransferUnits ==
  ASSUME NEW n \in Nat, NEW t \in Moving, NEW control \in Controls,
         NEW g, IsTransfer(g, n, t, control)
  PROVE  \A u \in 0..n :
           /\ g[u] \in Moving
           /\ g[u].source = Plus(t.source, u * UnitStep(control.src, control))
           /\ g[u].dest = Plus(t.dest, u * UnitStep(control.dst, control))
<1>1. PICK s \in Int, d \in Int :
        s = UnitStep(control.src, control) /\ d = UnitStep(control.dst, control)
  <2>1. control.src \in 0..3 /\ control.dst \in 0..3
    BY DEF Controls
  <2> QED  BY <2>1, StepFacts
<1>2. PICK x \in Words, y \in Words : x = t.source /\ y = t.dest
  BY DEF Moving
<1>3. x \in Int /\ y \in Int
  BY <1>2, Ranges DEF Words
<1> DEFINE S == {k \in Nat : k \in 0..n =>
                   g[k] \in Moving /\ g[k].source = Plus(x, k * s) /\ g[k].dest = Plus(y, k * d)}
<1>4. 0 \in S
  <2>1. g[0] = t
    BY DEF IsTransfer
  <2>2. 0 * s = 0 /\ 0 * d = 0
    OBVIOUS
  <2> QED  BY <1>2, <2>1, <2>2, PlusZero
<1>5. ASSUME NEW k \in Nat, k \in S PROVE k + 1 \in S
  <2> SUFFICES ASSUME k + 1 \in 0..n
               PROVE  /\ g[k + 1] \in Moving
                      /\ g[k + 1].source = Plus(x, (k + 1) * s)
                      /\ g[k + 1].dest = Plus(y, (k + 1) * d)
    OBVIOUS
  <2>1. g[k + 1] = MoveUnit(g[k], control)
    BY DEF IsTransfer
  <2>2. g[k] \in Moving /\ g[k].source = Plus(x, k * s) /\ g[k].dest = Plus(y, k * d)
    BY <1>5
  <2>3. /\ g[k + 1] \in Moving
        /\ g[k + 1].source = Plus(Plus(x, k * s), s)
        /\ g[k + 1].dest = Plus(Plus(y, k * d), d)
    BY <1>1, <2>1, <2>2, UnitMoves
  <2>4. PICK v \in Int, w \in Int : v = k * s /\ w = k * d
    OBVIOUS
  <2>5. v + s = (k + 1) * s /\ w + d = (k + 1) * d
    BY <2>4
  <2>6. Plus(Plus(x, v), s) = Plus(x, v + s)
    BY <1>3, PlusPlus
  <2>7. Plus(Plus(y, w), d) = Plus(y, w + d)
    BY <1>3, PlusPlus
  <2> QED  BY <2>3, <2>4, <2>5, <2>6, <2>7
<1>6. Nat \subseteq S
  <2> HIDE DEF S
  <2> QED  BY <1>4, <1>5, Induction
<1>7. \A u \in 0..n : u \in S
  BY <1>6
<1> QED  BY <1>1, <1>2, <1>7

\* Where a half of a unit comes from and goes to.
UnitFrom(g, p) == Plus(g[p[1]].source, p[2])
UnitTo(g, p) == Plus(g[p[1]].dest, p[2])

\* After some of the units, each halfword that they went to has what the last of them
\* came with, as long as no unit reads what another has written.
LEMMA TransferCells ==
  ASSUME NEW n \in Nat, NEW t \in Moving, NEW control \in Controls,
         NEW g, IsTransfer(g, n, t, control),
         \A p, q \in (0..(n - 1)) \X Halves(control) : UnitFrom(g, p) # UnitTo(g, q)
  PROVE  \A u \in 0..n : \A a \in Cells :
           IF Reachable(a) /\ \E p \in (0..(u - 1)) \X Halves(control) : UnitTo(g, p) = a
           THEN \E p \in (0..(u - 1)) \X Halves(control) :
                  /\ UnitTo(g, p) = a
                  /\ \A q \in (0..(u - 1)) \X Halves(control) : UnitTo(g, q) = a => q[1] <= p[1]
                  /\ g[u].mem[a] = DmaRead(t.mem, UnitFrom(g, p))
           ELSE g[u].mem[a] = t.mem[a]
<1> DEFINE Pairs(u) == (0..(u - 1)) \X Halves(control)
           Moved(u, a) ==
             IF Reachable(a) /\ \E p \in Pairs(u) : UnitTo(g, p) = a
             THEN \E p \in Pairs(u) :
                    /\ UnitTo(g, p) = a
                    /\ \A q \in Pairs(u) : UnitTo(g, q) = a => q[1] <= p[1]
                    /\ g[u].mem[a] = DmaRead(t.mem, UnitFrom(g, p))
             ELSE g[u].mem[a] = t.mem[a]
           S == {k \in Nat : k \in 0..n => \A a \in Cells : Moved(k, a)}
<1>1. 0 \in S
  <2>1. g[0] = t
    BY DEF IsTransfer
  <2>2. Pairs(0) = {}
    OBVIOUS
  <2> QED  BY <2>1, <2>2
<1>2. ASSUME NEW k \in Nat, k \in S PROVE k + 1 \in S
  <2> SUFFICES ASSUME k + 1 \in 0..n, NEW a \in Cells PROVE Moved(k + 1, a)
    <3> HIDE DEF Moved
    <3> QED  OBVIOUS
  <2>1. g[k + 1] = MoveUnit(g[k], control) /\ k \in 0..(n - 1) /\ k \in 0..n
    BY DEF IsTransfer
  <2>2. \A x \in Cells : Moved(k, x)
    BY <1>2, <2>1
  <2>3. g[k] \in Moving
    BY <2>1, TransferUnits
  <2>4. \A h \in Halves(control) : <<k, h>> \in Pairs(k + 1) /\ <<k, h>> \in Pairs(n)
    BY <2>1
  <2>5. Pairs(k) \subseteq Pairs(k + 1)
    OBVIOUS
  <2>6. Pairs(k) \subseteq Pairs(n) /\ Pairs(k + 1) \subseteq Pairs(n)
    BY <2>1
  <2>7. \A p \in Pairs(k + 1) :
          p \in Pairs(k) \/ \E h \in Halves(control) : p = <<k, h>>
    <3> SUFFICES ASSUME NEW p \in Pairs(k + 1), p \notin Pairs(k)
                 PROVE  \E h \in Halves(control) : p = <<k, h>>
      OBVIOUS
    <3>1. p = <<p[1], p[2]>> /\ p[1] \in 0..k /\ p[2] \in Halves(control)
      OBVIOUS
    <3>2. p[1] = k
      BY <3>1
    <3> QED  BY <3>1, <3>2
  <2>8. \A h \in Halves(control) :
          /\ UnitFrom(g, <<k, h>>) = Plus(g[k].source, h)
          /\ UnitTo(g, <<k, h>>) = Plus(g[k].dest, h)
    BY DEF UnitFrom, UnitTo
  <2>9. \A p \in Pairs(k + 1) : p[1] \in 0..k
    OBVIOUS
  <2> HIDE DEF Pairs
  <2>10. CASE Reachable(a) /\ \E h \in Halves(control) : a = UnitTo(g, <<k, h>>)
    <3>1. PICK h \in Halves(control) : a = UnitTo(g, <<k, h>>)
      BY <2>10
    <3>2. g[k + 1].mem[a] = DmaRead(g[k].mem, UnitFrom(g, <<k, h>>))
      BY <2>1, <2>3, <2>8, <2>10, <3>1, UnitMoves
    <3>3. DmaRead(g[k].mem, UnitFrom(g, <<k, h>>)) = DmaRead(t.mem, UnitFrom(g, <<k, h>>))
      <4>1. PICK x : x = UnitFrom(g, <<k, h>>)
        OBVIOUS
      <4>2. x \in Cells => g[k].mem[x] = t.mem[x]
        <5>1. <<k, h>> \in Pairs(n)
          BY <2>4
        <5>2. \A q \in Pairs(k) : UnitTo(g, q) # x
          BY <2>6, <4>1, <5>1 DEF Pairs
        <5> QED  BY <2>2, <5>2
      <4>3. DOMAIN t.mem = Cells /\ DOMAIN g[k].mem = Cells
        BY <2>3 DEF Moving, Mem
      <4> QED  BY <4>1, <4>2, <4>3 DEF DmaRead, Get
    <3>4. <<k, h>> \in Pairs(k + 1) /\ <<k, h>>[1] = k
      BY <2>4
    <3>5. \A q \in Pairs(k + 1) : q[1] <= <<k, h>>[1]
      BY <2>9
    <3> QED  BY <2>10, <3>1, <3>2, <3>3, <3>4, <3>5
  <2>11. CASE ~(Reachable(a) /\ \E h \in Halves(control) : a = UnitTo(g, <<k, h>>))
    <3>1. g[k + 1].mem[a] = g[k].mem[a]
      BY <2>1, <2>3, <2>8, <2>11, UnitMoves
    <3>2. Reachable(a) => \A p \in Pairs(k + 1) : UnitTo(g, p) = a => p \in Pairs(k)
      BY <2>7, <2>11
    <3>3. Moved(k, a)
      BY <2>2
    <3>4. CASE Reachable(a) /\ \E p \in Pairs(k) : UnitTo(g, p) = a
      <4>1. PICK p \in Pairs(k) :
                    /\ UnitTo(g, p) = a
                    /\ \A q \in Pairs(k) : UnitTo(g, q) = a => q[1] <= p[1]
                    /\ g[k].mem[a] = DmaRead(t.mem, UnitFrom(g, p))
        BY <3>3, <3>4
      <4>2. p \in Pairs(k + 1)
        BY <2>5
      <4>3. \A q \in Pairs(k + 1) : UnitTo(g, q) = a => q[1] <= p[1]
        BY <3>2, <3>4, <4>1
      <4>4. g[k + 1].mem[a] = DmaRead(t.mem, UnitFrom(g, p))
        BY <3>1, <4>1
      <4> QED  BY <3>4, <4>1, <4>2, <4>3, <4>4
    <3>5. CASE ~(Reachable(a) /\ \E p \in Pairs(k) : UnitTo(g, p) = a)
      <4>1. g[k].mem[a] = t.mem[a]
        BY <3>3, <3>5
      <4>2. ~(Reachable(a) /\ \E p \in Pairs(k + 1) : UnitTo(g, p) = a)
        BY <3>2, <3>5
      <4> QED  BY <3>1, <4>1, <4>2
    <3> QED  BY <3>4, <3>5
  <2> QED  BY <2>10, <2>11
<1>3. Nat \subseteq S
  <2> HIDE DEF S
  <2> QED  BY <1>1, <1>2, Induction
<1>4. \A u \in 0..n : u \in S
  <2> HIDE DEF S
  <2>1. \A u \in 0..n : u \in Nat
    OBVIOUS
  <2> QED  BY <1>3, <2>1
<1> QED  BY <1>4

LEMMA RunDmaUnits ==
  ASSUME NEW mem \in Mem, NEW source \in Words, NEW dest \in Words,
         NEW control \in Controls, NEW channel, NEW count, NEW n \in Nat,
         n = Units(channel, count)
  PROVE  \E g : /\ IsTransfer(g, n, [mem |-> mem, source |-> source, dest |-> dest], control)
                /\ RunDma(mem, channel, source, dest, count, control) = g[n].mem
<1> DEFINE t == [mem |-> mem, source |-> source, dest |-> dest]
           after == CHOOSE g : g = [u \in 0..Units(channel, count) |->
                                      IF u = 0 THEN t ELSE MoveUnit(g[u - 1], control)]
<1>1. t \in Moving
  BY DEF Moving
<1>2. \E g : IsTransfer(g, n, t, control)
  <2> HIDE DEF t
  <2> QED  BY <1>1, TransferExists
<1>3. IsTransfer(after, n, t, control)
  BY <1>2 DEF IsTransfer
<1>4. RunDma(mem, channel, source, dest, count, control) = after[n].mem
  BY DEF RunDma
<1> HIDE DEF after
<1> QED  BY <1>3, <1>4

LEMMA Disabled ==
  ASSUME NEW half \in Halfwords, ControlOf(half).enable
  PROVE  half - EnableBit \in Halfwords
<1>1. half \in Nat /\ half \in 0..(HalfRange - 1) /\ HalfRange \in Nat
  BY Ranges DEF Halfwords
<1>2. 2 ^ 7 = 128
  OBVIOUS
<1>3. (half \div 128) % 2 = 1
  BY <1>2 DEF ControlOf, Bit
<1>4. half >= 128
  BY <1>1, <1>3
<1> QED  BY <1>1, <1>2, <1>4 DEF EnableBit, Halfwords

\* An immediate transfer moves its block.
LEMMA Immediate ==
  ASSUME NEW mem \in Mem, NEW c \in Channels,
         ControlOf(mem[ControlAddr(c)]).enable
  PROVE  /\ RunImmediateDma(mem, c) \in Mem
         /\ BlockMoved(mem, RunImmediateDma(mem, c), c)
<1> DEFINE base == Base(c)
           half == mem[ControlAddr(c)]
           control == ControlOf(half)
           count == mem[base + 8]
           source == WordAt(mem, base)
           dest == WordAt(mem, base + 4)
<1>1. half \in Halfwords /\ count \in Halfwords /\ control \in Controls
  BY ControlCell, ControlType DEF Mem
<1>2. source \in Words /\ dest \in Words
  BY WordAtType
<1>3. PICK n \in Nat : n = Units(c, count)
  BY <1>1, Ranges, DmaAssumption DEF Units, Halfwords
<1> DEFINE t == [mem |-> mem, source |-> source, dest |-> dest]
<1>4. PICK g : IsTransfer(g, n, t, control) /\ RunDma(mem, c, source, dest, count, control) = g[n].mem
  <2> HIDE DEF source, dest, control, count
  <2> QED  BY <1>1, <1>2, <1>3, RunDmaUnits
<1>5. t \in Moving
  BY <1>2 DEF Moving
<1>6. /\ \A u \in 0..n : /\ g[u] \in Moving
                         /\ g[u].source = Plus(source, u * UnitStep(control.src, control))
                         /\ g[u].dest = Plus(dest, u * UnitStep(control.dst, control))
  <2> HIDE DEF t, control
  <2>1. \A u \in 0..n : /\ g[u] \in Moving
                        /\ g[u].source = Plus(t.source, u * UnitStep(control.src, control))
                        /\ g[u].dest = Plus(t.dest, u * UnitStep(control.dst, control))
    BY <1>1, <1>4, <1>5, TransferUnits
  <2> QED  BY <2>1 DEF t
<1> DEFINE moved == g[n].mem
           result == [moved EXCEPT ![ControlAddr(c)] =
                        IF control.repeat THEN moved[ControlAddr(c)] ELSE half - EnableBit]
<1>7. moved \in Mem
  BY <1>6 DEF Moving
<1>8. RunImmediateDma(mem, c) = result
  BY <1>4 DEF RunImmediateDma
<1>9. result \in Mem /\ \A a \in Cells :
        result[a] = IF a = ControlAddr(c) /\ ~control.repeat THEN half - EnableBit ELSE moved[a]
  <2>1. half - EnableBit \in Halfwords
    BY <1>1, Disabled
  <2> HIDE DEF moved, half, control
  <2> QED  BY <1>7, <2>1 DEF Mem
<1> DEFINE units == CASE count > 0 -> 0..(count - 1)
                      [] count = 0 /\ c = 3 -> 0..(LargestLast - 1)
                      [] OTHER -> 0..(Largest - 1)
           From(u, h) == Plus(UnitAt(source, control.src, control, u), h)
           To(u, h) == Plus(UnitAt(dest, control.dst, control, u), h)
           pairs == units \X Halves(control)
<1>10. units = 0..(n - 1)
  <2>1. count \in Nat
    BY <1>1, Ranges DEF Halfwords
  <2> HIDE DEF count
  <2> QED  BY <1>3, <2>1 DEF Units
<1>11. pairs = (0..(n - 1)) \X Halves(control)
  BY <1>10
<1>12. \A p \in pairs : UnitFrom(g, p) = From(p[1], p[2]) /\ UnitTo(g, p) = To(p[1], p[2])
  <2> SUFFICES ASSUME NEW p \in pairs
               PROVE  UnitFrom(g, p) = From(p[1], p[2]) /\ UnitTo(g, p) = To(p[1], p[2])
    OBVIOUS
  <2>1. p \in (0..n) \X Halves(control) /\ p[1] \in 0..n
    <3> HIDE DEF pairs, control
    <3>1. p \in (0..(n - 1)) \X Halves(control)
      BY <1>11
    <3> QED  BY <3>1
  <2>2. /\ UnitFrom(g, p) = Plus(g[p[1]].source, p[2])
        /\ UnitTo(g, p) = Plus(g[p[1]].dest, p[2])
    BY DEF UnitFrom, UnitTo
  <2> QED  BY <1>6, <2>1, <2>2 DEF UnitAt, UnitStep
<1> HIDE DEF From, To, pairs, units
<1>13. ASSUME \A p, q \in pairs : From(p[1], p[2]) # To(q[1], q[2]), NEW a \in Cells
       PROVE  IF a = ControlAddr(c)
              THEN result[a] = IF control.repeat THEN half ELSE half - EnableBit
              ELSE IF ~Reachable(a) \/ \A p \in pairs : To(p[1], p[2]) # a
                   THEN result[a] = mem[a]
              ELSE \E p \in pairs :
                     /\ To(p[1], p[2]) = a
                     /\ \A q \in pairs : To(q[1], q[2]) = a => q[1] <= p[1]
                     /\ result[a] = DmaRead(mem, From(p[1], p[2]))
  <2>1. \A p, q \in pairs : UnitFrom(g, p) # UnitTo(g, q)
    BY <1>12, <1>13
  <2>2. IF Reachable(a) /\ \E p \in pairs : UnitTo(g, p) = a
        THEN \E p \in pairs :
               /\ UnitTo(g, p) = a
               /\ \A q \in pairs : UnitTo(g, q) = a => q[1] <= p[1]
               /\ g[n].mem[a] = DmaRead(t.mem, UnitFrom(g, p))
        ELSE g[n].mem[a] = t.mem[a]
    <3> HIDE DEF t, control
    <3>1. \A p, q \in (0..(n - 1)) \X Halves(control) : UnitFrom(g, p) # UnitTo(g, q)
      BY <1>11, <2>1
    <3>2. n \in 0..n
      OBVIOUS
    <3>3. control \in Controls
      BY <1>1
    <3>4. IsTransfer(g, n, t, control)
      BY <1>4
    <3>5. IF Reachable(a) /\ \E p \in (0..(n - 1)) \X Halves(control) : UnitTo(g, p) = a
          THEN \E p \in (0..(n - 1)) \X Halves(control) :
                 /\ UnitTo(g, p) = a
                 /\ \A q \in (0..(n - 1)) \X Halves(control) : UnitTo(g, q) = a => q[1] <= p[1]
                 /\ g[n].mem[a] = DmaRead(t.mem, UnitFrom(g, p))
          ELSE g[n].mem[a] = t.mem[a]
      BY <1>5, <3>1, <3>2, <3>3, <3>4, TransferCells
    <3> QED  BY <1>11, <3>5
  <2>3. t.mem = mem /\ moved = g[n].mem
    OBVIOUS
  <2>4. ~Reachable(ControlAddr(c))
    BY ControlCell
  <2> HIDE DEF t, moved, result, half, control
  <2>5. CASE a = ControlAddr(c)
    <3>1. moved[a] = mem[a]
      BY <2>2, <2>3, <2>4, <2>5
    <3> QED  BY <1>9, <2>5, <3>1 DEF half
  <2>6. CASE a # ControlAddr(c)
    <3>1. result[a] = moved[a]
      BY <1>9, <2>6
    <3> QED  BY <1>12, <2>2, <2>3, <2>6, <3>1
  <2> QED  BY <2>5, <2>6
<1>14. BlockMoved(mem, result, c)
  <2>1. DOMAIN mem = Cells
    BY DEF Mem
  <2> HIDE DEF result
  <2> QED  BY <1>13, <2>1 DEF BlockMoved, From, To, pairs, units
<1> QED  BY <1>8, <1>9, <1>14

-----------------------------------------------------------------------------
(* The machines.                                                           *)

\* Transfers that did what they are to do.
Transfers ==
  {x \in [before : Mem, after : Mem, channel : Channels] :
     BlockMoved(x.before, x.after, x.channel)}
Machine == [regs : [Regs -> Words], thumb : BOOLEAN, mem : Mem, reads : Nat,
            moved : SUBSET Transfers]

LEMMA RegFacts ==
  /\ LowRegs \subseteq Regs /\ Sp \in Regs /\ Lr \in Regs /\ Pc \in Regs /\ 0 \in Regs
  /\ Regs \subseteq 0..15 /\ NoReg \notin Regs /\ NoReg = 16
  /\ Lr \notin LowRegs /\ Pc \notin LowRegs /\ Sp \notin LowRegs
  /\ Lr # Sp /\ Lr # Pc /\ Sp # Pc
  BY RunnerAssumption DEF Regs, Sp, Lr, Pc, NoReg

LEMMA SetRegType ==
  ASSUME NEW m \in Machine, NEW r, NEW word \in Words
  PROVE  SetReg(m, r, word) \in Machine
  BY DEF SetReg, Machine

LEMMA ReadRegType ==
  ASSUME NEW m \in Machine, NEW r \in Regs
  PROVE  m.regs[r] \in Words /\ m.regs[r] \in Nat
  BY Ranges DEF Machine, Words

LEMMA WordHalves ==
  ASSUME NEW word \in Words
  PROVE  word % HalfRange \in Halfwords /\ word \div HalfRange \in Halfwords
<1>1. PICK h \in Nat : h = HalfRange /\ h > 0 /\ WordRange = h * h
  BY Ranges
<1>2. word \in Nat /\ word <= h * h - 1
  BY <1>1, Ranges DEF Words
<1>3. PICK q \in Int, r \in 0..(h - 1) : q = word \div h /\ r = word % h /\ word = q * h + r
  BY <1>1, <1>2, Division
<1>4. q >= 0
  <2>1. q < 0 => q * h <= -h
    BY <1>1
  <2> QED  BY <1>2, <1>3, <2>1
<1>5. q < h
  <2>1. q >= h => q * h >= h * h
    BY <1>1
  <2> QED  BY <1>1, <1>2, <1>3, <2>1
<1> QED  BY <1>1, <1>3, <1>4, <1>5 DEF Halfwords

LEMMA PutType ==
  ASSUME NEW mem \in Mem, NEW a, NEW half \in Halfwords
  PROVE  /\ Put(mem, a, half) \in Mem
         /\ \A x \in Cells : Put(mem, a, half)[x] = IF x = a THEN half ELSE mem[x]
  BY DEF Put, Mem

LEMMA PutWordType ==
  ASSUME NEW mem \in Mem, NEW a, NEW word \in Words
  PROVE  /\ PutWord(mem, a, word) \in Mem
         /\ \A x \in Cells : PutWord(mem, a, word)[x] =
                               IF x = Plus(a, 2) THEN word \div HalfRange
                               ELSE IF x = a THEN word % HalfRange ELSE mem[x]
<1>1. word % HalfRange \in Halfwords /\ word \div HalfRange \in Halfwords
  BY WordHalves
<1> DEFINE low == Put(mem, a, word % HalfRange)
<1>2. low \in Mem /\ \A x \in Cells : low[x] = IF x = a THEN word % HalfRange ELSE mem[x]
  BY <1>1, PutType
<1> HIDE DEF low
<1>3. /\ Put(low, Plus(a, 2), word \div HalfRange) \in Mem
      /\ \A x \in Cells : Put(low, Plus(a, 2), word \div HalfRange)[x] =
                            IF x = Plus(a, 2) THEN word \div HalfRange ELSE low[x]
  BY <1>1, <1>2, PutType
<1> QED  BY <1>2, <1>3 DEF PutWord, low

\* A store that starts a transfer, one at most, leaves it done.
LEMMA AfterIoStoreType ==
  ASSUME NEW m \in Machine, NEW a
  PROVE  AfterIoStore(m, a) \in Machine
<1>1. m.mem \in Mem /\ m.moved \subseteq Transfers
  BY DEF Machine
<1>2. CASE Started(m.mem, a) = {}
  <2>1. AfterIoStore(m, a) = [m EXCEPT !.mem = m.mem, !.moved = m.moved \cup {}]
    BY <1>2 DEF AfterIoStore, Transferred, RunImmediateDmaIfEnabled
  <2> QED  BY <1>1, <2>1 DEF Machine
<1>3. ASSUME NEW d \in Started(m.mem, a) PROVE AfterIoStore(m, a) \in Machine
  <2>1. \A e \in Started(m.mem, a) : e \in Channels /\ d \in Channels /\ e = d
    BY ControlCell DEF Started
  <2>2. PICK c \in Channels : c = CHOOSE channel \in Channels : channel \in Started(m.mem, a)
    BY <1>3, <2>1
  <2>3. c \in Started(m.mem, a)
    BY <1>3, <2>1, <2>2
  <2>4. c = d /\ Started(m.mem, a) = {c}
    BY <1>3, <2>1, <2>3
  <2>5. ControlOf(m.mem[ControlAddr(c)]).enable
    BY <2>3 DEF Started
  <2> DEFINE after == RunImmediateDma(m.mem, c)
  <2>6. after \in Mem /\ BlockMoved(m.mem, after, c)
    BY <1>1, <2>5, Immediate
  <2>7. RunImmediateDmaIfEnabled(m.mem, a) = after
    BY <1>3, <2>2 DEF RunImmediateDmaIfEnabled
  <2>8. {[before |-> m.mem, after |-> after, channel |-> channel] :
           channel \in Started(m.mem, a)}
          = {[before |-> m.mem, after |-> after, channel |-> c]}
    BY <2>4
  <2> HIDE DEF after
  <2>9. AfterIoStore(m, a) =
          [m EXCEPT !.mem = after,
                    !.moved = m.moved \cup {[before |-> m.mem, after |-> after, channel |-> c]}]
    BY <2>7, <2>8 DEF AfterIoStore, Transferred
  <2>10. [before |-> m.mem, after |-> after, channel |-> c] \in Transfers
    BY <1>1, <2>6 DEF Transfers
  <2> QED  BY <1>1, <2>6, <2>9, <2>10 DEF Machine
<1> QED  BY <1>2, <1>3

LEMMA WithMemType ==
  ASSUME NEW m \in Machine, NEW mem \in Mem
  PROVE  [m EXCEPT !.mem = mem] \in Machine
  BY DEF Machine

LEMMA StoreWordType ==
  ASSUME NEW m \in Machine, NEW a, NEW word \in Words
  PROVE  StoreWord(m, a, word) \in Machine
<1>1. PutWord(m.mem, a, word) \in Mem
  BY PutWordType DEF Machine
<1> DEFINE stored == [m EXCEPT !.mem = PutWord(m.mem, a, word)]
<1>2. stored \in Machine
  BY <1>1, WithMemType
<1> HIDE DEF stored
<1>3. AfterIoStore(AfterIoStore(stored, a), Plus(a, 2)) \in Machine
  BY <1>2, AfterIoStoreType
<1>4. StoreWord(m, a, word) \in {m, stored, AfterIoStore(AfterIoStore(stored, a), Plus(a, 2))}
  BY DEF StoreWord, stored
<1> QED  BY <1>2, <1>3, <1>4

LEMMA StoreHalfType ==
  ASSUME NEW m \in Machine, NEW a, NEW half \in Halfwords
  PROVE  StoreHalf(m, a, half) \in Machine
<1>1. Put(m.mem, a, half) \in Mem
  BY PutType DEF Machine
<1> DEFINE stored == [m EXCEPT !.mem = Put(m.mem, a, half)]
<1>2. stored \in Machine
  BY <1>1, WithMemType
<1> HIDE DEF stored
<1>3. AfterIoStore(stored, a) \in Machine
  BY <1>2, AfterIoStoreType
<1>4. StoreHalf(m, a, half) \in {m, stored, AfterIoStore(stored, a)}
  BY DEF StoreHalf, stored
<1> QED  BY <1>2, <1>3, <1>4

LEMMA LoadWordType ==
  ASSUME NEW m \in Machine, NEW a
  PROVE  LoadWord(m, a) \in Words
<1>1. WordAt(m.mem, a) \in Words
  BY WordAtType DEF Machine
<1> QED  BY <1>1, Ranges DEF LoadWord, Words

LEMMA LoadHalfType ==
  ASSUME NEW m \in Machine, NEW rd, NEW a
  PROVE  LoadHalf(m, rd, a) \in Machine
<1>1. Get(m.mem, a) \in Words /\ 0 \in Words /\ VblankLine \in Words
  <2>1. Get(m.mem, a) \in Halfwords
    BY GetType DEF Machine
  <2>2. PICK h \in Nat : h = HalfRange /\ h > 128 /\ WordRange = h * h
    BY Ranges
  <2>3. h * h >= h /\ h * h \in Nat
    BY <2>2
  <2> QED  BY <2>1, <2>2, <2>3, Ranges, RunnerAssumption DEF Words, Halfwords
<1>2. PICK w \in Words : w = IF m.reads + 1 < 3 THEN 0 ELSE VblankLine
  BY <1>1
<1>3. [m EXCEPT !.reads = m.reads + 1, !.regs[rd] = w] \in Machine
  <2>1. PICK t : t = [m EXCEPT !.reads = m.reads + 1]
    OBVIOUS
  <2>2. t \in Machine
    BY <2>1 DEF Machine
  <2>3. SetReg(t, rd, w) \in Machine
    BY <2>2, SetRegType
  <2>4. SetReg(t, rd, w) = [m EXCEPT !.reads = m.reads + 1, !.regs[rd] = w]
    BY <2>1 DEF SetReg, Machine
  <2> QED  BY <2>3, <2>4
<1>4. CASE In("io", a) /\ a = VCOUNT
  BY <1>2, <1>3, <1>4 DEF LoadHalf, LoadIo
<1>5. CASE In("io", a) /\ a # VCOUNT
  <2>1. LoadHalf(m, rd, a) = SetReg(m, rd, 0)
    BY <1>5 DEF LoadHalf, LoadIo, SetReg
  <2> QED  BY <1>1, <2>1, SetRegType
<1>6. CASE ~In("io", a)
  <2>1. PICK v \in Words :
          v = IF In("rom", a) \/ In("ewram", a) \/ In("iwram", a) THEN Get(m.mem, a) ELSE 0
    BY <1>1
  <2>2. LoadHalf(m, rd, a) = SetReg(m, rd, v)
    BY <1>6, <2>1 DEF LoadHalf, SetReg
  <2> QED  BY <2>2, SetRegType
<1> QED  BY <1>4, <1>5, <1>6

LEMMA BranchExchangeType ==
  ASSUME NEW m \in Machine, NEW word \in Words
  PROVE  BranchExchange(m, word) \in Machine
<1>1. word - (word % 2) \in Words
  BY Ranges DEF Words
<1> QED  BY <1>1 DEF BranchExchange, Machine

-----------------------------------------------------------------------------
(* The instructions keep a machine a machine.                              *)

\* A sum of powers of two below 2^n is below it.
LEMMA OfBitsType ==
  ASSUME NEW bits
  PROVE  OfBits(bits) \in Words
<1>1. PICK n \in Nat : n = 2 * HalfBits
  BY DmaAssumption
<1>2. PICK F : F = [p \in Nat \X Nat |->
                      IF p[1] # 0 /\ p[1] - 1 \in bits THEN p[2] + 2 ^ (p[1] - 1) ELSE p[2]]
  OBVIOUS
<1>3. F \in [Nat \X Nat -> Nat]
  <2>1. ASSUME NEW p \in Nat \X Nat
        PROVE  (IF p[1] # 0 /\ p[1] - 1 \in bits THEN p[2] + 2 ^ (p[1] - 1) ELSE p[2]) \in Nat
    <3>1. CASE p[1] # 0 /\ p[1] - 1 \in bits
      <4>1. PICK k \in Nat : k = p[1] - 1
        BY <3>1
      <4>2. 2 ^ k \in Nat
        BY PowerPositive
      <4> QED  BY <3>1, <4>1, <4>2
    <3>2. CASE ~(p[1] # 0 /\ p[1] - 1 \in bits)
      BY <3>2
    <3> QED  BY <3>1, <3>2
  <2> QED  BY <1>2, <2>1
<1>4. PICK g \in [0..n -> Nat] : IsSeries(g, n, 0, F)
  <2>1. 0 \in Nat
    OBVIOUS
  <2> QED  BY <1>3, <2>1, Recursion
<1> DEFINE Below(f) ==
  [k \in 0..n |-> IF k = 0 THEN 0
                  ELSE IF k - 1 \in bits THEN f[k - 1] + 2 ^ (k - 1) ELSE f[k - 1]]
<1>5. g = Below(g)
  <2>1. ASSUME NEW k \in 0..n, k # 0
        PROVE  F[<<k, g[k - 1]>>] =
                 IF k - 1 \in bits THEN g[k - 1] + 2 ^ (k - 1) ELSE g[k - 1]
    <3>1. <<k, g[k - 1]>> \in Nat \X Nat
      BY <1>4, <2>1
    <3> QED  BY <1>2, <2>1, <3>1
  <2>2. \A k \in 0..n : g[k] = IF k = 0 THEN 0 ELSE F[<<k, g[k - 1]>>]
    BY <1>4 DEF IsSeries
  <2>3. \A k \in 0..n : g[k] = Below(g)[k]
    BY <2>1, <2>2
  <2>4. g = [k \in 0..n |-> g[k]]
    BY <1>4
  <2>5. Below(g) = [k \in 0..n |-> Below(g)[k]]
    OBVIOUS
  <2> HIDE DEF Below
  <2> QED  BY <2>3, <2>4, <2>5
<1> DEFINE below == CHOOSE f : f = Below(f)
<1>6. below = Below(below)
  <2> HIDE DEF Below
  <2> QED  BY <1>5
<1>7. OfBits(bits) = below[n]
  BY <1>1 DEF OfBits
<1> HIDE DEF below
<1> DEFINE S == {k \in Nat : k \in 0..n => below[k] \in Nat /\ below[k] < 2 ^ k}
<1>8. 0 \in S
  <2>1. 2 ^ 0 = 1 /\ below[0] = 0
    BY <1>6
  <2> QED  BY <2>1
<1>9. ASSUME NEW k \in Nat, k \in S PROVE k + 1 \in S
  <2>1. PICK p \in Nat : p = 2 ^ k
    BY PowerPositive
  <2>2. 2 ^ (k + 1) = 2 * p
    BY <2>1, Doubles
  <2>3. k + 1 \in 0..n => below[k + 1] = IF k \in bits THEN below[k] + p ELSE below[k]
    <3>1. k + 1 \in 0..n => k + 1 # 0 /\ (k + 1) - 1 = k
      OBVIOUS
    <3> QED  BY <1>6, <2>1, <3>1
  <2> QED  BY <1>9, <2>1, <2>2, <2>3
<1>10. n \in S
  <2> HIDE DEF S
  <2> QED  BY <1>8, <1>9, Induction
<1>11. 2 ^ n = WordRange
  BY <1>1 DEF WordRange
<1> QED  BY <1>7, <1>10, <1>11, Ranges DEF Words

LEMMA OperandType ==
  ASSUME NEW m \in Machine, NEW i, Decoded(i)
  PROVE  /\ Operand(m, i) \in Int
         /\ i.op \in {"add", "sub", "cmp", "tst", "str", "strh", "ldr", "ldrh"} =>
              Address(m, i) \in Words
<1>1. i.rs # NoReg => i.rs \in Regs
  BY RegFacts DEF Decoded
<1>2. Operand(m, i) \in Int
  BY <1>1, ReadRegType DEF Operand, Decoded
<1>3. ASSUME i.op \in {"add", "sub", "cmp", "tst", "str", "strh", "ldr", "ldrh"}
      PROVE  Address(m, i) \in Words
  <2>1. i.rn \in Regs
    BY <1>3, RegFacts DEF Decoded
  <2>2. PICK a \in Int, b \in Int : a = m.regs[i.rn] /\ b = Operand(m, i)
    BY <1>2, <2>1, ReadRegType
  <2> QED  BY <2>2, PlusType DEF Address
<1> QED  BY <1>2, <1>3

LEMMA ShiftType ==
  ASSUME NEW word \in Words, NEW n \in Nat
  PROVE  /\ (word * 2 ^ n) % WordRange \in Words
         /\ word \div (2 ^ n) \in Words
<1>1. PICK p \in Nat : p = 2 ^ n /\ p > 0
  BY PowerPositive
<1>2. word \in Nat /\ word < WordRange /\ WordRange \in Nat /\ WordRange > 0
  BY Ranges DEF Words
<1>3. (word * p) % WordRange \in Words
  BY <1>2 DEF Words
<1>4. PICK q \in Int, r \in 0..(p - 1) : q = word \div p /\ word = q * p + r
  BY <1>1, <1>2, Division
<1>5. q >= 0
  <2>1. q < 0 => q * p <= -p
    BY <1>1
  <2> QED  BY <1>2, <1>4, <2>1
<1>6. q <= word
  <2>1. q * p >= q
    BY <1>1, <1>5
  <2> QED  BY <1>2, <1>4, <2>1
<1>7. q \in Words
  BY <1>2, <1>5, <1>6 DEF Words
<1> QED  BY <1>1, <1>3, <1>4, <1>7

LEMMA PlainType ==
  ASSUME NEW m \in Machine, NEW i, Decoded(i), NEW pc \in Int,
         i.op \in ThumbOps \ {"cmp", "tst", "bcond", "push", "pop", "stmia", "ldmia"}
  PROVE  Plain(m, i, pc) \in Machine
<1> DEFINE p == Plain(m, i, pc)
<1>1. \A r \in Regs : m.regs[r] \in Words /\ m.regs[r] \in Nat /\ m.regs[r] \in Int
  BY ReadRegType
<1>2. PICK o \in Int : o = Operand(m, i)
  BY OperandType
<1>3. i.imm \in Int
  BY DEF Decoded
<1>4. i.op \in {"add", "sub", "str", "strh", "ldr", "ldrh"} =>
        Address(m, i) \in Words /\ i.rn \in Regs
  BY OperandType, RegFacts DEF Decoded
<1>5. CASE i.op \in {"mov", "lit"}
  <2>1. i.imm \in Words
    BY <1>5 DEF Decoded
  <2>2. p = SetReg(m, i.rd, i.imm)
    BY <1>5 DEF Plain
  <2> QED  BY <2>1, <2>2, SetRegType
<1>6. CASE i.op = "lsl"
  <2>1. i.rs \in Regs /\ i.imm \in Nat
    BY <1>6, RegFacts, DmaAssumption DEF Decoded
  <2>2. (m.regs[i.rs] * 2 ^ i.imm) % WordRange \in Words
    BY <1>1, <2>1, ShiftType
  <2>3. p = SetReg(m, i.rd, (m.regs[i.rs] * 2 ^ i.imm) % WordRange)
    BY <1>6 DEF Plain
  <2> QED  BY <2>2, <2>3, SetRegType
<1>7. CASE i.op = "lsr"
  <2>1. i.rs \in Regs /\ i.imm \in Nat
    BY <1>7, RegFacts, DmaAssumption DEF Decoded
  <2>2. PICK n \in Nat : n = i.imm % (2 * HalfBits)
    BY <2>1, DmaAssumption
  <2>3. m.regs[i.rs] \div (2 ^ n) \in Words
    BY <1>1, <2>1, ShiftType
  <2>4. p = SetReg(m, i.rd, m.regs[i.rs] \div (2 ^ n))
    BY <1>7, <2>2 DEF Plain
  <2> QED  BY <2>3, <2>4, SetRegType
<1>8. CASE i.op = "add"
  <2>1. p = SetReg(m, i.rd, Address(m, i))
    BY <1>8 DEF Plain
  <2> QED  BY <1>4, <1>8, <2>1, SetRegType
<1>9. CASE i.op = "sub"
  <2>1. PICK x \in Int : x = m.regs[i.rn]
    BY <1>1, <1>4, <1>9
  <2>2. Plus(x, -o) \in Words
    BY PlusType
  <2>3. p = SetReg(m, i.rd, Plus(x, -o))
    BY <1>2, <1>9, <2>1 DEF Plain
  <2> QED  BY <2>2, <2>3, SetRegType
<1>10. CASE i.op \in {"orr", "bic"}
  <2>1. \E b : p = SetReg(m, i.rd, OfBits(b))
    BY <1>10 DEF Plain, StepAlu
  <2> QED  BY <2>1, OfBitsType, SetRegType
<1>11. CASE i.op \in HighOps
  <2>1. p = StepHighRegister(m, i)
    BY <1>11 DEF Plain, HighOps
  <2>2. i.op # "cmp_hi" => i.rs \in Regs
    BY <1>11, RegFacts DEF Decoded, HighOps
  <2>3. CASE i.op = "add_hi"
    <3>1. i.rd \in Regs
      BY <2>3, RegFacts DEF Decoded, HighOps
    <3>2. PICK x \in Int, y \in Int : x = m.regs[i.rd] /\ y = m.regs[i.rs]
      BY <1>1, <2>2, <2>3, <3>1
    <3>3. p = SetReg(m, i.rd, Plus(x, y))
      BY <2>1, <2>3, <3>2 DEF StepHighRegister
    <3>4. Plus(x, y) \in Words
      BY PlusType
    <3> QED  BY <3>3, <3>4, SetRegType
  <2>4. CASE i.op = "mov_hi"
    <3>1. p = SetReg(m, i.rd, m.regs[i.rs])
      BY <2>1, <2>4 DEF StepHighRegister
    <3> QED  BY <1>1, <2>2, <2>4, <3>1, SetRegType
  <2>5. CASE i.op = "bx"
    <3>1. p = BranchExchange(m, m.regs[i.rs])
      BY <2>1, <2>5 DEF StepHighRegister
    <3> QED  BY <1>1, <2>2, <2>5, <3>1, BranchExchangeType
  <2>6. CASE i.op = "cmp_hi"
    BY <2>1, <2>6 DEF StepHighRegister
  <2> QED  BY <1>11, <2>3, <2>4, <2>5, <2>6 DEF HighOps
<1>12. CASE i.op = "str"
  <2>1. i.rd \in Regs
    BY <1>12, RegFacts DEF Decoded, HighOps
  <2>2. p = StoreWord(m, Address(m, i), m.regs[i.rd])
    BY <1>12 DEF Plain
  <2> QED  BY <1>1, <2>1, <2>2, StoreWordType
<1>13. CASE i.op = "strh"
  <2>1. i.rd \in Regs
    BY <1>13, RegFacts DEF Decoded, HighOps
  <2>2. p = StoreHalf(m, Address(m, i), m.regs[i.rd] % HalfRange)
    BY <1>13 DEF Plain
  <2>3. m.regs[i.rd] % HalfRange \in Halfwords
    BY <1>1, <2>1, WordHalves
  <2> QED  BY <2>2, <2>3, StoreHalfType
<1>14. CASE i.op = "ldr"
  <2>1. p = SetReg(m, i.rd, LoadWord(m, Address(m, i)))
    BY <1>14 DEF Plain
  <2> QED  BY <2>1, LoadWordType, SetRegType
<1>15. CASE i.op = "ldrh"
  <2>1. p = LoadHalf(m, i.rd, Address(m, i))
    BY <1>15 DEF Plain
  <2> QED  BY <2>1, LoadHalfType
<1>16. CASE i.op = "adr"
  <2>1. PICK x \in Int : x = ((pc + 4) \div 4) * 4
    OBVIOUS
  <2>2. p = SetReg(m, i.rd, Plus(x, i.imm))
    BY <1>16, <2>1 DEF Plain
  <2>3. Plus(x, i.imm) \in Words
    BY <1>3, PlusType
  <2> QED  BY <2>2, <2>3, SetRegType
<1>17. CASE i.op = "b"
  <2>1. PICK x \in Int : x = m.regs[Pc]
    BY <1>1, RegFacts
  <2>2. p = SetReg(m, Pc, Plus(x, i.imm))
    BY <1>17, <2>1 DEF Plain
  <2>3. Plus(x, i.imm) \in Words
    BY <1>3, PlusType
  <2> QED  BY <2>2, <2>3, SetRegType
<1>18. CASE i.op = "bl_high"
  <2>1. PICK x \in Int : x = 4 + i.imm
    BY <1>3
  <2>2. p = SetReg(m, Lr, Plus(pc, x))
    BY <1>18, <2>1 DEF Plain
  <2>3. Plus(pc, x) \in Words
    BY PlusType
  <2> QED  BY <2>2, <2>3, SetRegType
<1>19. CASE i.op = "bl_low"
  <2>1. PICK x \in Words, y \in Int : x = m.regs[Pc] /\ y = m.regs[Lr]
    BY <1>1, RegFacts
  <2>2. x + 1 - (x % 2) \in Words
    BY Ranges DEF Words
  <2>3. Plus(y, i.imm) \in Words
    BY <1>3, PlusType
  <2>4. PICK u \in Words, v \in Words : u = x + 1 - (x % 2) /\ v = Plus(y, i.imm)
    BY <2>2, <2>3
  <2>5. p = [m EXCEPT !.regs[Lr] = u, !.regs[Pc] = v]
    BY <1>19, <2>1, <2>4 DEF Plain
  <2>6. [m EXCEPT !.regs[Lr] = u, !.regs[Pc] = v] = SetReg(SetReg(m, Lr, u), Pc, v)
    BY DEF SetReg, Machine
  <2> QED  BY <2>5, <2>6, SetRegType
<1>20. CASE i.op \in {"swi", "nop"}
  BY <1>20 DEF Plain
<1>21. \/ i.op \in {"mov", "lit", "lsl", "lsr", "add", "sub", "orr", "bic", "str", "strh"}
      \/ i.op \in {"ldr", "ldrh", "adr", "b", "bl_high", "bl_low", "swi", "nop"}
      \/ i.op \in HighOps
  BY DEF ThumbOps
<1> QED
  BY <1>21, <1>5, <1>6, <1>7, <1>8, <1>9, <1>10, <1>11, <1>12, <1>13, <1>14, <1>15, <1>16,
     <1>17, <1>18, <1>19, <1>20

LEMMA ArmType ==
  ASSUME NEW m \in Machine, NEW i, Decoded(i), NEW pc \in Int, i.op \in ArmOps
  PROVE  Arm(m, i, pc) \in Machine
<1>1. i.imm \in Int /\ 0 \in Regs
  BY RegFacts DEF Decoded
<1>2. m.regs[0] \in Words
  BY <1>1, ReadRegType
<1>3. CASE i.op = "arm_b"
  <2>1. PICK x \in Int : x = 8 + i.imm
    BY <1>1
  <2>2. Arm(m, i, pc) = SetReg(m, Pc, Plus(pc, x))
    BY <1>3, <2>1 DEF Arm
  <2>3. Plus(pc, x) \in Words
    BY PlusType
  <2> QED  BY <2>2, <2>3, SetRegType
<1>4. CASE i.op \in {"arm_mov", "arm_ldr_sp"}
  <2>1. i.imm \in Words
    BY <1>4 DEF Decoded
  <2>2. Arm(m, i, pc) \in {SetReg(m, 0, i.imm), SetReg(m, Sp, i.imm)}
    BY <1>4 DEF Arm
  <2> QED  BY <2>1, <2>2, SetRegType
<1>5. CASE i.op = "arm_adr"
  <2>1. Arm(m, i, pc) = SetReg(m, 0, Plus(pc, 8 + 1))
    BY <1>5 DEF Arm
  <2>2. Plus(pc, 8 + 1) \in Words
    BY PlusType
  <2> QED  BY <2>1, <2>2, SetRegType
<1>6. CASE i.op = "arm_bx"
  <2>1. Arm(m, i, pc) = BranchExchange(m, m.regs[0])
    BY <1>6 DEF Arm
  <2> QED  BY <1>2, <2>1, BranchExchangeType
<1>7. CASE i.op = "arm_str_ime"
  <2>1. \E a : Arm(m, i, pc) \in {m, StoreWord(m, a, m.regs[0])}
    BY <1>7 DEF Arm
  <2> QED  BY <1>2, <2>1, StoreWordType
<1>8. CASE i.op = "arm_msr"
  <2>1. Arm(m, i, pc) = m
    BY <1>8 DEF Arm
  <2> QED  BY <2>1
<1> QED  BY <1>3, <1>4, <1>5, <1>6, <1>7, <1>8 DEF ArmOps

-----------------------------------------------------------------------------
(* The loops over registers.                                               *)

\* A machine in such a loop, and the address it has come to.
Blocks == [m : Machine, a : Words]

NextBlock(kind, t, r) == IF kind = "store" THEN StoreNext(t, r) ELSE LoadNext(t, r)

LEMMA NextBlockType ==
  ASSUME NEW t \in Blocks, NEW r \in Regs, NEW kind
  PROVE  NextBlock(kind, t, r) \in Blocks
<1>1. t.m \in Machine /\ t.a \in Words /\ t.a \in Int
  BY Ranges DEF Blocks, Words
<1>2. Plus(t.a, 4) \in Words
  <2>1. PICK a \in Int : a = t.a
    BY <1>1
  <2>2. Plus(a, 4) \in Words
    BY PlusType
  <2> QED  BY <2>1, <2>2
<1>3. StoreWord(t.m, t.a, t.m.regs[r]) \in Machine
  BY <1>1, ReadRegType, StoreWordType
<1>4. SetReg(t.m, r, LoadWord(t.m, t.a)) \in Machine
  BY <1>1, LoadWordType, SetRegType
<1>5. StoreNext(t, r) \in Blocks
  BY <1>2, <1>3 DEF StoreNext, Blocks
<1>6. LoadNext(t, r) \in Blocks
  BY <1>2, <1>4 DEF LoadNext, Blocks
<1> QED  BY <1>5, <1>6 DEF NextBlock

\* Each of the loops goes over the registers in their order.
IsLoop(g, kind, m, regs, a) ==
  /\ g \in [0..NoReg -> Blocks]
  /\ g[0] = [m |-> m, a |-> a]
  /\ \A r \in 0..15 : g[r + 1] = IF r \in regs THEN NextBlock(kind, g[r], r) ELSE g[r]
  /\ g[NoReg] = IF kind = "store" THEN StoreEach(m, regs, a) ELSE LoadEach(m, regs, a)

LEMMA Loop ==
  ASSUME NEW m \in Machine, NEW regs \in SUBSET Regs, NEW a \in Words, NEW kind \in {"store", "load"}
  PROVE  \E g : IsLoop(g, kind, m, regs, a)
<1>1. PICK n \in Nat : n = NoReg /\ n = 16
  BY RegFacts
<1>2. PICK t \in Blocks : t = [m |-> m, a |-> a]
  BY DEF Blocks
<1>3. PICK F : F = [p \in Nat \X Blocks |->
                      IF p[1] # 0 /\ p[1] - 1 \in regs THEN NextBlock(kind, p[2], p[1] - 1)
                      ELSE p[2]]
  OBVIOUS
<1>4. F \in [Nat \X Blocks -> Blocks]
  <2>1. \A p \in Nat \X Blocks : p[2] \in Blocks
    OBVIOUS
  <2>2. \A s \in Blocks : \A r \in regs : NextBlock(kind, s, r) \in Blocks
    BY NextBlockType
  <2>3. \A p \in Nat \X Blocks :
          (IF p[1] # 0 /\ p[1] - 1 \in regs THEN NextBlock(kind, p[2], p[1] - 1) ELSE p[2])
            \in Blocks
    BY <2>1, <2>2
  <2> QED  BY <1>3, <2>3
<1>5. PICK h \in [0..n -> Blocks] : IsSeries(h, n, t, F)
  BY <1>2, <1>4, Recursion
<1> DEFINE UpTo(f) == [r \in 0..n |-> IF r = 0 THEN t
                                      ELSE IF r - 1 \in regs THEN NextBlock(kind, f[r - 1], r - 1)
                                      ELSE f[r - 1]]
<1>6. h = UpTo(h)
  <2>1. ASSUME NEW k \in 0..n, k # 0
        PROVE  F[<<k, h[k - 1]>>] =
                 IF k - 1 \in regs THEN NextBlock(kind, h[k - 1], k - 1) ELSE h[k - 1]
    <3>1. <<k, h[k - 1]>> \in Nat \X Blocks
      BY <1>5, <2>1
    <3> QED  BY <1>3, <2>1, <3>1
  <2>2. \A k \in 0..n : h[k] = IF k = 0 THEN t ELSE F[<<k, h[k - 1]>>]
    BY <1>5 DEF IsSeries
  <2>3. \A k \in 0..n : h[k] = UpTo(h)[k]
    BY <2>1, <2>2
  <2>4. h = [k \in 0..n |-> h[k]]
    BY <1>5
  <2>5. UpTo(h) = [k \in 0..n |-> UpTo(h)[k]]
    OBVIOUS
  <2> HIDE DEF UpTo
  <2> QED  BY <2>3, <2>4, <2>5
<1> DEFINE g == CHOOSE f : f = UpTo(f)
<1>7. g = UpTo(g)
  <2> HIDE DEF UpTo
  <2> QED  BY <1>6
<1>8. g[NoReg] = IF kind = "store" THEN StoreEach(m, regs, a) ELSE LoadEach(m, regs, a)
  <2>1. CASE kind = "store"
    BY <1>1, <1>2, <2>1 DEF StoreEach, NextBlock
  <2>2. CASE kind # "store"
    BY <1>1, <1>2, <2>2 DEF LoadEach, NextBlock
  <2> QED  BY <2>1, <2>2
<1> HIDE DEF g
<1>9. \A r \in 0..15 : g[r + 1] = IF r \in regs THEN NextBlock(kind, g[r], r) ELSE g[r]
  <2> SUFFICES ASSUME NEW r \in 0..15
               PROVE  g[r + 1] = IF r \in regs THEN NextBlock(kind, g[r], r) ELSE g[r]
    OBVIOUS
  <2>1. r + 1 \in 0..n /\ r + 1 # 0 /\ (r + 1) - 1 = r
    BY <1>1
  <2> QED  BY <1>7, <2>1
<1>10. g[0] = t
  BY <1>1, <1>7
<1> DEFINE S == {k \in Nat : k \in 0..n => g[k] \in Blocks}
<1>11. 0 \in S
  BY <1>10
<1>12. ASSUME NEW k \in Nat, k \in S PROVE k + 1 \in S
  <2> SUFFICES ASSUME k + 1 \in 0..n PROVE g[k + 1] \in Blocks
    OBVIOUS
  <2>1. k \in 0..15 /\ g[k] \in Blocks
    BY <1>1, <1>12
  <2>2. k \in regs => NextBlock(kind, g[k], k) \in Blocks
    BY <2>1, NextBlockType
  <2> QED  BY <1>9, <2>1, <2>2
<1>13. Nat \subseteq S
  <2> HIDE DEF S
  <2> QED  BY <1>11, <1>12, Induction
<1>14. \A k \in 0..n : g[k] \in Blocks
  BY <1>13
<1>15. g \in [0..n -> Blocks]
  <2>1. UpTo(g) = [k \in 0..n |-> UpTo(g)[k]]
    OBVIOUS
  <2> HIDE DEF UpTo
  <2> QED  BY <1>7, <1>14, <2>1
<1> QED  BY <1>1, <1>2, <1>8, <1>9, <1>10, <1>15 DEF IsLoop

LEMMA LoopType ==
  ASSUME NEW m \in Machine, NEW regs \in SUBSET Regs, NEW a \in Words
  PROVE  StoreEach(m, regs, a) \in Blocks /\ LoadEach(m, regs, a) \in Blocks
<1>1. NoReg \in 0..NoReg
  BY RegFacts
<1>2. \E g \in [0..NoReg -> Blocks] : g[NoReg] = StoreEach(m, regs, a)
  <2>1. PICK kind \in {"store", "load"} : kind = "store"
    OBVIOUS
  <2>2. PICK g : IsLoop(g, kind, m, regs, a)
    BY Loop
  <2> QED  BY <2>1, <2>2 DEF IsLoop
<1>3. \E g \in [0..NoReg -> Blocks] : g[NoReg] = LoadEach(m, regs, a)
  <2>1. PICK kind \in {"store", "load"} : kind # "store"
    OBVIOUS
  <2>2. PICK g : IsLoop(g, kind, m, regs, a)
    BY Loop
  <2> QED  BY <2>1, <2>2 DEF IsLoop
<1> QED  BY <1>1, <1>2, <1>3

LEMMA ListType ==
  ASSUME NEW i, Decoded(i)
  PROVE  /\ i.list \in SUBSET Regs
         /\ IsFiniteSet(i.list) /\ Cardinality(i.list) \in Nat
<1>1. i.list \in SUBSET Regs
  BY RegFacts DEF Decoded
<1>2. IsFiniteSet(0..15)
  <2>1. PICK a \in Int, b \in Int : a = 0 /\ b = 15
    OBVIOUS
  <2> QED  BY <2>1, FS_Interval
<1>3. IsFiniteSet(i.list)
  BY <1>1, <1>2, RegFacts, FS_Subset
<1> QED  BY <1>1, <1>3, FS_CardinalityType

LEMMA FetchType ==
  ASSUME NEW m \in Machine
  PROVE  Fetch(m) \in Machine
<1>1. PICK w \in Words : w = Plus(m.regs[Pc], IF m.thumb THEN 2 ELSE 4)
  <2>1. PICK x \in Int, y \in Int : x = m.regs[Pc] /\ y = IF m.thumb THEN 2 ELSE 4
    BY ReadRegType, RegFacts
  <2>2. Plus(x, y) \in Words
    BY PlusType
  <2> QED  BY <2>1, <2>2
<1>2. Fetch(m) = [SetReg(m, Pc, w) EXCEPT !.moved = {}]
  BY <1>1, RegFacts DEF Fetch, SetReg, Machine
<1>3. SetReg(m, Pc, w) \in Machine
  BY SetRegType
<1> QED  BY <1>2, <1>3 DEF Machine

LEMMA SetCmpType ==
  ASSUME NEW m \in Machine, NEW lhs, NEW rhs
  PROVE  SetCmp(m, lhs, rhs) \in Machine
<1>1. PICK c \in Nat : c = 2 ^ CBit /\ 2 ^ ZBit = 2 * c /\ c > 0 /\ WordRange = 8 * c
  BY Ranges
<1>2. (IF lhs = rhs THEN 2 ^ ZBit ELSE 0) + (IF lhs >= rhs THEN 2 ^ CBit ELSE 0) \in Words
  BY <1>1 DEF Words
<1> QED  BY <1>2, SetRegType DEF SetCmp

LEMMA BlockStepType ==
  ASSUME NEW m \in Machine, NEW i, Decoded(i)
  PROVE  /\ Push(m, i) \in Machine /\ Pop(m, i) \in Machine
         /\ i.op \in {"stmia", "ldmia"} => Stmia(m, i) \in Machine /\ Ldmia(m, i) \in Machine
<1>1. /\ i.list \in SUBSET Regs /\ i.list \ {Lr} \in SUBSET Regs
      /\ i.list \ {Pc} \in SUBSET Regs /\ i.list \cap {Lr} \in SUBSET Regs
  BY ListType, RegFacts
<1>2. Push(m, i) \in Machine
  <2>1. PICK x \in Int, y \in Int : x = m.regs[Sp] /\ y = -4 * Cardinality(i.list)
    BY ReadRegType, RegFacts, ListType
  <2>2. PICK sp \in Words : sp = Plus(m.regs[Sp], -4 * Cardinality(i.list))
    BY <2>1, PlusType
  <2>3. PICK low \in Blocks : low = StoreEach(m, i.list \ {Lr}, sp)
    BY <1>1, LoopType
  <2>4. low.m \in Machine /\ low.a \in Words
    BY DEF Blocks
  <2>5. PICK all \in Blocks : all = StoreEach(low.m, i.list \cap {Lr}, low.a)
    BY <1>1, <2>4, LoopType
  <2>6. Push(m, i) = SetReg(all.m, Sp, sp)
    BY <2>2, <2>3, <2>5 DEF Push
  <2> QED  BY <2>6, SetRegType DEF Blocks
<1>3. Pop(m, i) \in Machine
  <2>1. m.regs[Sp] \in Words
    BY ReadRegType, RegFacts
  <2>2. PICK low \in Blocks : low = LoadEach(m, i.list \ {Pc}, m.regs[Sp])
    BY <1>1, <2>1, LoopType
  <2>3. low.m \in Machine /\ low.a \in Words /\ low.a \in Int
    BY Ranges DEF Blocks, Words
  <2>4. BranchExchange(low.m, LoadWord(low.m, low.a)) \in Machine /\ Plus(low.a, 4) \in Words
    <3>1. PICK a \in Int, w \in Words : a = low.a /\ w = LoadWord(low.m, low.a)
      BY <2>3, LoadWordType
    <3>2. Plus(a, 4) \in Words
      BY PlusType
    <3>3. BranchExchange(low.m, w) \in Machine
      BY <2>3, BranchExchangeType
    <3> QED  BY <3>1, <3>2, <3>3
  <2>5. PICK all \in Blocks :
          all = IF Pc \in i.list
                THEN [m |-> BranchExchange(low.m, LoadWord(low.m, low.a)), a |-> Plus(low.a, 4)]
                ELSE low
    BY <2>4 DEF Blocks
  <2>6. Pop(m, i) = SetReg(all.m, Sp, all.a)
    BY <2>2, <2>5 DEF Pop
  <2> QED  BY <2>6, SetRegType DEF Blocks
<1>4. ASSUME i.op \in {"stmia", "ldmia"}
      PROVE  Stmia(m, i) \in Machine /\ Ldmia(m, i) \in Machine
  <2>1. m.regs[i.rn] \in Words
    BY <1>4, ReadRegType, RegFacts DEF Decoded
  <2>2. PICK s \in Blocks, l \in Blocks :
          s = StoreEach(m, i.list, m.regs[i.rn]) /\ l = LoadEach(m, i.list, m.regs[i.rn])
    BY <1>1, <2>1, LoopType
  <2>3. Stmia(m, i) = SetReg(s.m, i.rn, s.a) /\ Ldmia(m, i) = SetReg(l.m, i.rn, l.a)
    BY <2>2 DEF Stmia, Ldmia
  <2> QED  BY <2>3, SetRegType DEF Blocks
<1> QED  BY <1>2, <1>3, <1>4

LEMMA StepType ==
  ASSUME NEW m \in Machine, NEW i, Decoded(i), i.op # "other"
  PROVE  Step(m, i) \in Machine
<1>1. PICK next \in Machine : next = Fetch(m)
  BY FetchType
<1>2. PICK pc \in Int : pc = m.regs[Pc]
  BY ReadRegType, RegFacts
<1>3. ArmOps \cap ThumbOps = {}
  BY DEF ArmOps, ThumbOps, HighOps
<1>4. CASE i.op \in ArmOps
  <2>1. Step(m, i) = Arm(next, i, pc)
    BY <1>1, <1>2, <1>4 DEF Step, ArmOps
  <2> QED  BY <1>4, <2>1, ArmType
<1>5. CASE i.op \in {"cmp", "tst"}
  <2>1. \E l, r : Step(m, i) = SetCmp(next, l, r)
    BY <1>1, <1>5 DEF Step, ArmOps
  <2> QED  BY <2>1, SetCmpType
<1>6. CASE i.op = "bcond"
  <2>1. PICK x \in Int, y \in Int : x = next.regs[Pc] /\ y = i.imm
    BY ReadRegType, RegFacts DEF Decoded
  <2>2. Step(m, i) \in {next, SetReg(next, Pc, Plus(x, y))}
    BY <1>1, <1>6, <2>1 DEF Step, ArmOps, ConditionalBranch
  <2>3. Plus(x, y) \in Words
    BY PlusType
  <2> QED  BY <2>2, <2>3, SetRegType
<1>7. CASE i.op = "push"
  BY <1>1, <1>7, BlockStepType DEF Step, ArmOps
<1>8. CASE i.op = "pop"
  BY <1>1, <1>8, BlockStepType DEF Step, ArmOps
<1>9. CASE i.op \in {"stmia", "ldmia"}
  BY <1>1, <1>9, BlockStepType DEF Step, ArmOps
<1>10. CASE i.op \in ThumbOps \ {"cmp", "tst", "bcond", "push", "pop", "stmia", "ldmia"}
  <2>1. Step(m, i) = Plain(next, i, pc)
    BY <1>1, <1>2, <1>3, <1>10 DEF Step
  <2> QED  BY <1>10, <2>1, PlainType
<1> QED  BY <1>4, <1>5, <1>6, <1>7, <1>8, <1>9, <1>10 DEF Decoded

-----------------------------------------------------------------------------
(* The machine that a program leaves is one.                               *)

LEMMA NewType ==
  ASSUME NEW thumb \in BOOLEAN
  PROVE  New(thumb) \in Machine
<1>1. Memory \in Mem
  <2>1. ASSUME NEW a \in Cells, In("rom", a) PROVE Rom[a] \in Halfwords
    <3>1. a \in CellsOf("rom")
      BY <2>1, CellFacts, RegionFacts DEF In, CellsOf, RegionNames
    <3> QED  BY <3>1, RunnerAssumption
  <2>2. 0 \in Halfwords
    BY Ranges DEF Halfwords
  <2> QED  BY <2>1, <2>2 DEF Memory, Mem
<1>2. {StackTop, ThumbEntry, Regions["rom"].start, 0} \subseteq Words
  <2>1. "rom" \in RegionNames
    BY DEF RegionNames
  <2> QED  BY <2>1, RegionFacts, RunnerAssumption, Ranges DEF Words
<1>3. [r \in Regs |->
        CASE r = Sp -> StackTop
          [] r = Pc -> IF thumb THEN ThumbEntry ELSE Regions["rom"].start
          [] OTHER -> 0] \in [Regs -> Words]
  BY <1>2
<1> QED  BY <1>1, <1>3 DEF New, Machine

LEMMA MachinesType ==
  ASSUME NEW program \in Prologues
  PROVE  Machines(program)[Len(program)] \in Machine
<1>1. PICK n \in Nat : n = Len(program)
  BY RunnerAssumption
<1>2. \A k \in 1..n : Decoded(program[k]) /\ program[k].op # "other"
  BY <1>1, RunnerAssumption
<1>3. PICK new \in Machine : new = New(program[1].op \notin ArmOps)
  BY NewType
<1>4. PICK F : F = [p \in Nat \X Machine |->
                      IF p[1] \in 1..n THEN Step(p[2], program[p[1]]) ELSE p[2]]
  OBVIOUS
<1>5. F \in [Nat \X Machine -> Machine]
  <2>1. \A m \in Machine : \A k \in 1..n : Step(m, program[k]) \in Machine
    BY <1>2, StepType
  <2>2. \A p \in Nat \X Machine :
          (IF p[1] \in 1..n THEN Step(p[2], program[p[1]]) ELSE p[2]) \in Machine
    BY <2>1
  <2> QED  BY <1>4, <2>2
<1>6. PICK h \in [0..n -> Machine] : IsSeries(h, n, new, F)
  BY <1>3, <1>5, Recursion
<1> DEFINE Go(f) == [k \in 0..n |-> IF k = 0 THEN new ELSE Step(f[k - 1], program[k])]
<1>7. h = Go(h)
  <2>1. ASSUME NEW k \in 0..n, k # 0
        PROVE  F[<<k, h[k - 1]>>] = Step(h[k - 1], program[k])
    <3>1. <<k, h[k - 1]>> \in Nat \X Machine /\ k \in 1..n
      BY <1>6, <2>1
    <3> QED  BY <1>4, <3>1
  <2>2. \A k \in 0..n : h[k] = IF k = 0 THEN new ELSE F[<<k, h[k - 1]>>]
    BY <1>6 DEF IsSeries
  <2>3. \A k \in 0..n : h[k] = Go(h)[k]
    BY <2>1, <2>2
  <2>4. h = [k \in 0..n |-> h[k]]
    BY <1>6
  <2>5. Go(h) = [k \in 0..n |-> Go(h)[k]]
    OBVIOUS
  <2> HIDE DEF Go
  <2> QED  BY <2>3, <2>4, <2>5
<1> DEFINE g == CHOOSE f : f = Go(f)
<1>8. g = Go(g)
  <2> HIDE DEF Go
  <2> QED  BY <1>7
<1>9. Machines(program) = g
  BY <1>1, <1>3 DEF Machines
<1> HIDE DEF g
<1> DEFINE S == {k \in Nat : k \in 0..n => g[k] \in Machine}
<1>10. 0 \in S
  BY <1>8
<1>11. ASSUME NEW k \in Nat, k \in S PROVE k + 1 \in S
  <2> SUFFICES ASSUME k + 1 \in 0..n PROVE g[k + 1] \in Machine
    OBVIOUS
  <2>1. k + 1 \in 1..n /\ k + 1 # 0 /\ (k + 1) - 1 = k
    OBVIOUS
  <2>2. g[k + 1] = Step(g[k], program[k + 1])
    BY <1>8, <2>1
  <2>3. g[k] \in Machine
    BY <1>11, <2>1
  <2> QED  BY <1>2, <2>1, <2>2, <2>3, StepType
<1>12. n \in S
  <2> HIDE DEF S
  <2> QED  BY <1>10, <1>11, Induction
<1> QED  BY <1>1, <1>9, <1>12

-----------------------------------------------------------------------------
(* Both machines are machines at all times.                                *)

Typed ==
  /\ runner \in Machine /\ reference \in Machine
  /\ flags \in [z : BOOLEAN, c : BOOLEAN]
  /\ seen \in [lr : BOOLEAN, flags : BOOLEAN]

LEMMA FlagsType ==
  ASSUME NEW m
  PROVE  FlagsOf(m) \in [z : BOOLEAN, c : BOOLEAN]
  BY DEF FlagsOf, Z, C, Bit

-----------------------------------------------------------------------------
(* What does not read the link register does the same whatever is in it.   *)

LEMMA SetRegFields ==
  ASSUME NEW m \in Machine, NEW r \in Regs, NEW w \in Words
  PROVE  LET t == SetReg(m, r, w)
         IN  /\ t \in Machine
             /\ t.thumb = m.thumb /\ t.mem = m.mem /\ t.reads = m.reads /\ t.moved = m.moved
             /\ t.regs[r] = w
             /\ \A q \in Regs \ {r} : t.regs[q] = m.regs[q]
  BY SetRegType DEF SetReg, Machine

LEMMA SetRegSwap ==
  ASSUME NEW m \in Machine, NEW r, NEW q, r # q, NEW v, NEW w
  PROVE  SetReg(SetReg(m, r, v), q, w) = SetReg(SetReg(m, q, w), r, v)
<1>1. PICK f \in [Regs -> Words] : f = m.regs
  BY DEF Machine
<1>2. [[f EXCEPT ![r] = v] EXCEPT ![q] = w] = [[f EXCEPT ![q] = w] EXCEPT ![r] = v]
  OBVIOUS
<1>3. SetReg(SetReg(m, r, v), q, w) = [m EXCEPT !.regs = [[f EXCEPT ![r] = v] EXCEPT ![q] = w]]
  BY <1>1 DEF SetReg, Machine
<1>4. SetReg(SetReg(m, q, w), r, v) = [m EXCEPT !.regs = [[f EXCEPT ![q] = w] EXCEPT ![r] = v]]
  BY <1>1 DEF SetReg, Machine
<1> QED  BY <1>2, <1>3, <1>4

LEMMA SetRegTwice ==
  ASSUME NEW m \in Machine, NEW r, NEW v, NEW w
  PROVE  SetReg(SetReg(m, r, v), r, w) = SetReg(m, r, w)
  BY DEF SetReg, Machine

LEMMA SetRegSame ==
  ASSUME NEW m \in Machine, NEW r \in Regs
  PROVE  SetReg(m, r, m.regs[r]) = m
  BY DEF SetReg, Machine

LEMMA AfterIoStoreLr ==
  ASSUME NEW m \in Machine, NEW a, NEW x \in Words
  PROVE  /\ AfterIoStore(SetReg(m, Lr, x), a) = SetReg(AfterIoStore(m, a), Lr, x)
         /\ AfterIoStore(m, a).regs = m.regs
<1>1. SetReg(m, Lr, x).mem = m.mem
  BY DEF SetReg, Machine
<1>2. PICK mem, new :
        /\ mem = RunImmediateDmaIfEnabled(m.mem, a)
        /\ new = {[before |-> m.mem, after |-> mem, channel |-> channel] :
                    channel \in Started(m.mem, a)}
  OBVIOUS
<1>3. AfterIoStore(m, a) = [m EXCEPT !.mem = mem, !.moved = m.moved \cup new]
  BY <1>2 DEF AfterIoStore, Transferred
<1>4. AfterIoStore(SetReg(m, Lr, x), a) =
        [SetReg(m, Lr, x) EXCEPT !.mem = mem, !.moved = SetReg(m, Lr, x).moved \cup new]
  BY <1>1, <1>2 DEF AfterIoStore, Transferred
<1> QED  BY <1>3, <1>4 DEF SetReg, Machine

LEMMA StoreWordLr ==
  ASSUME NEW m \in Machine, NEW a, NEW word \in Words, NEW x \in Words
  PROVE  /\ StoreWord(SetReg(m, Lr, x), a, word) = SetReg(StoreWord(m, a, word), Lr, x)
         /\ StoreWord(m, a, word).regs = m.regs
<1>1. PICK mem \in Mem : mem = PutWord(m.mem, a, word)
  BY PutWordType DEF Machine
<1>2. PICK stored \in Machine : stored = [m EXCEPT !.mem = mem] /\ stored.regs = m.regs
  BY WithMemType DEF Machine
<1>3. [SetReg(m, Lr, x) EXCEPT !.mem = PutWord(SetReg(m, Lr, x).mem, a, word)]
        = SetReg(stored, Lr, x)
  BY <1>1, <1>2 DEF SetReg, Machine
<1>4. /\ AfterIoStore(SetReg(stored, Lr, x), a) = SetReg(AfterIoStore(stored, a), Lr, x)
      /\ AfterIoStore(stored, a).regs = m.regs /\ AfterIoStore(stored, a) \in Machine
  BY <1>2, AfterIoStoreLr, AfterIoStoreType
<1>5. PICK once \in Machine : once = AfterIoStore(stored, a) /\ once.regs = m.regs
  BY <1>4
<1>6. /\ AfterIoStore(SetReg(once, Lr, x), Plus(a, 2)) = SetReg(AfterIoStore(once, Plus(a, 2)), Lr, x)
      /\ AfterIoStore(once, Plus(a, 2)).regs = m.regs
  BY <1>5, AfterIoStoreLr
<1>7. CASE In("io", a)
  BY <1>1, <1>2, <1>3, <1>4, <1>5, <1>6, <1>7 DEF StoreWord
<1>8. CASE ~In("io", a) /\ (In("ewram", a) \/ In("iwram", a))
  BY <1>1, <1>2, <1>3, <1>8 DEF StoreWord
<1>9. CASE ~In("io", a) /\ ~(In("ewram", a) \/ In("iwram", a))
  BY <1>9 DEF StoreWord
<1> QED  BY <1>7, <1>8, <1>9

LEMMA StoreHalfLr ==
  ASSUME NEW m \in Machine, NEW a, NEW half \in Halfwords, NEW x \in Words
  PROVE  /\ StoreHalf(SetReg(m, Lr, x), a, half) = SetReg(StoreHalf(m, a, half), Lr, x)
         /\ StoreHalf(m, a, half).regs = m.regs
<1>1. PICK mem \in Mem : mem = Put(m.mem, a, half)
  BY PutType DEF Machine
<1>2. PICK stored \in Machine : stored = [m EXCEPT !.mem = mem] /\ stored.regs = m.regs
  BY WithMemType DEF Machine
<1>3. [SetReg(m, Lr, x) EXCEPT !.mem = Put(SetReg(m, Lr, x).mem, a, half)]
        = SetReg(stored, Lr, x)
  BY <1>1, <1>2 DEF SetReg, Machine
<1>4. /\ AfterIoStore(SetReg(stored, Lr, x), a) = SetReg(AfterIoStore(stored, a), Lr, x)
      /\ AfterIoStore(stored, a).regs = m.regs
  BY <1>2, AfterIoStoreLr
<1>5. CASE In("io", a)
  BY <1>1, <1>2, <1>3, <1>4, <1>5 DEF StoreHalf
<1>6. CASE ~In("io", a) /\ (In("palette", a) \/ In("vram", a))
  BY <1>1, <1>2, <1>3, <1>6 DEF StoreHalf
<1>7. CASE ~In("io", a) /\ ~(In("palette", a) \/ In("vram", a))
  BY <1>7 DEF StoreHalf
<1> QED  BY <1>5, <1>6, <1>7

LEMMA LoadHalfLr ==
  ASSUME NEW m \in Machine, NEW rd, rd # Lr, NEW a, NEW x \in Words
  PROVE  /\ LoadHalf(SetReg(m, Lr, x), rd, a) = SetReg(LoadHalf(m, rd, a), Lr, x)
         /\ LoadHalf(m, rd, a).regs[Lr] = m.regs[Lr]
<1>1. SetReg(m, Lr, x).mem = m.mem /\ SetReg(m, Lr, x).reads = m.reads
  BY DEF SetReg, Machine
<1>2. PICK n : n = IF m.reads + 1 < 3 THEN 0 ELSE VblankLine
  OBVIOUS
<1>3. CASE In("io", a) /\ a = VCOUNT
  <2>1. PICK t : t = [m EXCEPT !.reads = m.reads + 1]
    OBVIOUS
  <2>2. t \in Machine /\ t.regs = m.regs
    BY <2>1 DEF Machine
  <2>3. [SetReg(m, Lr, x) EXCEPT !.reads = m.reads + 1] = SetReg(t, Lr, x)
    BY <2>1 DEF SetReg, Machine
  <2>4. LoadHalf(m, rd, a) = SetReg(t, rd, n)
    BY <1>2, <1>3, <2>1 DEF LoadHalf, LoadIo, SetReg, Machine
  <2>5. LoadHalf(SetReg(m, Lr, x), rd, a) = SetReg(SetReg(t, Lr, x), rd, n)
    <3>1. LoadHalf(SetReg(m, Lr, x), rd, a) =
            [SetReg(m, Lr, x) EXCEPT !.reads = m.reads + 1, !.regs[rd] = n]
      BY <1>1, <1>2, <1>3 DEF LoadHalf, LoadIo
    <3>2. PICK s : s = SetReg(m, Lr, x) /\ DOMAIN s = {"regs", "thumb", "mem", "reads", "moved"}
      BY DEF SetReg, Machine
    <3>3. [s EXCEPT !.reads = m.reads + 1, !.regs[rd] = n]
            = SetReg([s EXCEPT !.reads = m.reads + 1], rd, n)
      BY <3>2 DEF SetReg
    <3> QED  BY <2>3, <3>1, <3>2, <3>3
  <2>6. SetReg(t, rd, n).regs[Lr] = m.regs[Lr]
    BY <2>2 DEF SetReg, Machine
  <2> QED  BY <2>2, <2>4, <2>5, <2>6, SetRegSwap
<1>4. CASE ~(In("io", a) /\ a = VCOUNT)
  <2>1. PICK v : v = IF In("io", a) THEN 0
                     ELSE IF In("rom", a) \/ In("ewram", a) \/ In("iwram", a)
                     THEN Get(m.mem, a) ELSE 0
    OBVIOUS
  <2>2. LoadHalf(m, rd, a) = SetReg(m, rd, v)
    BY <1>4, <2>1 DEF LoadHalf, LoadIo, SetReg
  <2>3. PICK s \in Machine : s = SetReg(m, Lr, x) /\ s.mem = m.mem
    BY <1>1, SetRegType
  <2>4. LoadHalf(s, rd, a) = SetReg(s, rd, v)
    <3>1. v = IF In("io", a) THEN 0
              ELSE IF In("rom", a) \/ In("ewram", a) \/ In("iwram", a)
              THEN Get(s.mem, a) ELSE 0
      BY <2>1, <2>3
    <3> QED  BY <1>4, <3>1 DEF LoadHalf, LoadIo, SetReg
  <2>5. SetReg(m, rd, v).regs[Lr] = m.regs[Lr]
    BY DEF SetReg, Machine
  <2> QED  BY <2>2, <2>3, <2>4, <2>5, SetRegSwap
<1> QED  BY <1>3, <1>4

LEMMA BranchExchangeLr ==
  ASSUME NEW m \in Machine, NEW word, NEW x \in Words
  PROVE  /\ BranchExchange(SetReg(m, Lr, x), word) = SetReg(BranchExchange(m, word), Lr, x)
         /\ BranchExchange(m, word).regs[Lr] = m.regs[Lr]
<1>1. PICK b, w : b = (word % 2 = 1) /\ w = word - (word % 2)
  OBVIOUS
<1>2. PICK t : t = [m EXCEPT !.thumb = b]
  OBVIOUS
<1>3. t \in Machine /\ t.regs = m.regs
  BY <1>1, <1>2 DEF Machine
<1>4. BranchExchange(m, word) = SetReg(t, Pc, w)
  BY <1>1, <1>2 DEF BranchExchange, SetReg, Machine
<1>5. BranchExchange(SetReg(m, Lr, x), word) = SetReg(SetReg(t, Lr, x), Pc, w)
  <2>1. PICK s : s = SetReg(m, Lr, x) /\ DOMAIN s = {"regs", "thumb", "mem", "reads", "moved"}
    BY DEF SetReg, Machine
  <2>2. [s EXCEPT !.thumb = b] = SetReg(t, Lr, x)
    BY <1>2, <2>1 DEF SetReg, Machine
  <2>3. BranchExchange(s, word) = SetReg([s EXCEPT !.thumb = b], Pc, w)
    BY <1>1, <2>1 DEF BranchExchange, SetReg
  <2> QED  BY <2>1, <2>2, <2>3
<1>6. SetReg(t, Pc, w).regs[Lr] = t.regs[Lr]
  BY <1>3, RegFacts DEF SetReg, Machine
<1> QED  BY <1>3, <1>4, <1>5, <1>6, RegFacts, SetRegSwap

LEMMA FetchLr ==
  ASSUME NEW m \in Machine, NEW x \in Words
  PROVE  /\ Fetch(SetReg(m, Lr, x)) = SetReg(Fetch(m), Lr, x)
         /\ Fetch(m).thumb = m.thumb /\ Fetch(m).mem = m.mem /\ Fetch(m).reads = m.reads
         /\ \A r \in Regs \ {Pc} : Fetch(m).regs[r] = m.regs[r]
<1>1. SetReg(m, Lr, x).regs[Pc] = m.regs[Pc] /\ SetReg(m, Lr, x).thumb = m.thumb
  BY RegFacts DEF SetReg, Machine
<1>2. PICK w : w = Plus(m.regs[Pc], IF m.thumb THEN 2 ELSE 4)
  OBVIOUS
<1>3. PICK t : t = [m EXCEPT !.moved = {}]
  OBVIOUS
<1>4. t \in Machine
  BY <1>3 DEF Machine
<1>5. Fetch(m) = SetReg(t, Pc, w)
  BY <1>2, <1>3 DEF Fetch, SetReg, Machine
<1>6. Fetch(SetReg(m, Lr, x)) = SetReg(SetReg(t, Lr, x), Pc, w)
  <2>1. [SetReg(m, Lr, x) EXCEPT !.moved = {}] = SetReg(t, Lr, x)
    BY <1>3 DEF SetReg, Machine
  <2>2. PICK s : s = SetReg(m, Lr, x) /\ DOMAIN s = {"regs", "thumb", "mem", "reads", "moved"}
    BY DEF SetReg, Machine
  <2>3. Fetch(s) = [s EXCEPT !.regs[Pc] = w, !.moved = {}]
    BY <1>1, <1>2, <2>2 DEF Fetch
  <2>4. [s EXCEPT !.regs[Pc] = w, !.moved = {}] = SetReg([s EXCEPT !.moved = {}], Pc, w)
    BY <2>2 DEF SetReg
  <2> QED  BY <2>1, <2>2, <2>3, <2>4
<1>7. /\ Fetch(m).thumb = m.thumb /\ Fetch(m).mem = m.mem /\ Fetch(m).reads = m.reads
      /\ \A r \in Regs \ {Pc} : Fetch(m).regs[r] = m.regs[r]
  BY <1>3, <1>5 DEF SetReg, Machine
<1> QED  BY <1>4, <1>5, <1>6, <1>7, RegFacts, SetRegSwap

\* A register set, other than the link register, is set whatever that holds.
LEMMA SetRegLr ==
  ASSUME NEW m \in Machine, NEW r, r # Lr, NEW w, NEW x
  PROVE  /\ SetReg(SetReg(m, Lr, x), r, w) = SetReg(SetReg(m, r, w), Lr, x)
         /\ SetReg(m, r, w).regs[Lr] = m.regs[Lr]
<1>1. SetReg(m, r, w).regs[Lr] = m.regs[Lr]
  BY DEF SetReg, Machine
<1> QED  BY <1>1, SetRegSwap

PlainOps == ThumbOps \ {"cmp", "tst", "bcond", "push", "pop", "stmia", "ldmia"}

LEMMA PlainLr ==
  ASSUME NEW m \in Machine, NEW i, Decoded(i), NEW pc \in Int, i.op \in PlainOps,
         NEW x \in Words, ~ReadsLr(i), ~WritesLr(i)
  PROVE  /\ Plain(SetReg(m, Lr, x), i, pc) = SetReg(Plain(m, i, pc), Lr, x)
         /\ Plain(m, i, pc).regs[Lr] = m.regs[Lr]
<1> DEFINE n == SetReg(m, Lr, x)
<1>1. \A r \in Regs \ {Lr} : n.regs[r] = m.regs[r]
  BY SetRegFields, RegFacts
<1>2. n.mem = m.mem
  BY SetRegFields, RegFacts
<1> HIDE DEF n
<1>3. i.rs # Lr /\ (i.rs # NoReg => i.rs \in Regs \ {Lr})
  BY RegFacts DEF Decoded, ReadsLr
<1>4. i.op \notin {"bx", "cmp_hi"} => i.rd # Lr
  BY RegFacts DEF Decoded, ReadsLr, WritesLr, HighOps
<1>5. i.op \in {"orr", "bic", "add_hi", "str", "strh"} => i.rd \in Regs \ {Lr}
  BY <1>4, RegFacts DEF Decoded, HighOps
<1>6. i.op \in {"add", "sub", "str", "strh", "ldr", "ldrh"} => i.rn \in Regs \ {Lr}
  BY RegFacts DEF Decoded
<1>7. Operand(n, i) = Operand(m, i)
  BY <1>1, <1>3 DEF Operand
<1>8. i.op \in {"add", "sub", "str", "strh", "ldr", "ldrh"} => Address(n, i) = Address(m, i)
  BY <1>1, <1>6, <1>7 DEF Address
<1>9. n.regs[Pc] = m.regs[Pc]
  BY <1>1, RegFacts
<1>10. ASSUME NEW r, r # Lr, NEW w,
              Plain(n, i, pc) = SetReg(n, r, w), Plain(m, i, pc) = SetReg(m, r, w)
       PROVE  /\ Plain(SetReg(m, Lr, x), i, pc) = SetReg(Plain(m, i, pc), Lr, x)
              /\ Plain(m, i, pc).regs[Lr] = m.regs[Lr]
  BY <1>10, SetRegLr DEF n
<1>11. CASE i.op \in {"mov", "lit"}
  <2>1. Plain(n, i, pc) = SetReg(n, i.rd, i.imm) /\ Plain(m, i, pc) = SetReg(m, i.rd, i.imm)
    BY <1>11 DEF Plain
  <2> QED  BY <1>4, <1>10, <1>11, <2>1
<1>12. CASE i.op = "lsl"
  <2>1. PICK w : w = (m.regs[i.rs] * 2 ^ i.imm) % WordRange
    OBVIOUS
  <2>2. n.regs[i.rs] = m.regs[i.rs]
    BY <1>1, <1>3, <1>12 DEF Decoded
  <2>3. Plain(n, i, pc) = SetReg(n, i.rd, w) /\ Plain(m, i, pc) = SetReg(m, i.rd, w)
    BY <1>12, <2>1, <2>2 DEF Plain
  <2> QED  BY <1>4, <1>10, <1>12, <2>3
<1>13. CASE i.op = "lsr"
  <2>1. PICK w : w = m.regs[i.rs] \div (2 ^ (i.imm % (2 * HalfBits)))
    OBVIOUS
  <2>2. n.regs[i.rs] = m.regs[i.rs]
    BY <1>1, <1>3, <1>13 DEF Decoded
  <2>3. Plain(n, i, pc) = SetReg(n, i.rd, w) /\ Plain(m, i, pc) = SetReg(m, i.rd, w)
    BY <1>13, <2>1, <2>2 DEF Plain
  <2> QED  BY <1>4, <1>10, <1>13, <2>3
<1>14. CASE i.op = "add"
  <2>1. /\ Plain(n, i, pc) = SetReg(n, i.rd, Address(m, i))
        /\ Plain(m, i, pc) = SetReg(m, i.rd, Address(m, i))
    BY <1>8, <1>14 DEF Plain
  <2> QED  BY <1>4, <1>10, <1>14, <2>1
<1>15. CASE i.op = "sub"
  <2>1. PICK w : w = Plus(m.regs[i.rn], -Operand(m, i))
    OBVIOUS
  <2>2. n.regs[i.rn] = m.regs[i.rn]
    BY <1>1, <1>6, <1>15
  <2>3. Plain(n, i, pc) = SetReg(n, i.rd, w) /\ Plain(m, i, pc) = SetReg(m, i.rd, w)
    BY <1>7, <1>15, <2>1, <2>2 DEF Plain
  <2> QED  BY <1>4, <1>10, <1>15, <2>3
<1>16. CASE i.op \in {"orr", "bic"}
  <2>1. n.regs[i.rs] = m.regs[i.rs] /\ n.regs[i.rd] = m.regs[i.rd]
    BY <1>1, <1>3, <1>5, <1>16 DEF Decoded
  <2>2. PICK w : w = OfBits(IF i.op = "orr" THEN Bits(m.regs[i.rd]) \cup Bits(m.regs[i.rs])
                            ELSE Bits(m.regs[i.rd]) \ Bits(m.regs[i.rs]))
    OBVIOUS
  <2>3. StepAlu(n, i) = SetReg(n, i.rd, w) /\ StepAlu(m, i) = SetReg(m, i.rd, w)
    BY <2>1, <2>2 DEF StepAlu
  <2>4. Plain(n, i, pc) = StepAlu(n, i) /\ Plain(m, i, pc) = StepAlu(m, i)
    BY <1>16 DEF Plain
  <2> QED  BY <1>4, <1>10, <1>16, <2>3, <2>4
<1>17. CASE i.op \in HighOps
  <2>1. Plain(n, i, pc) = StepHighRegister(n, i) /\ Plain(m, i, pc) = StepHighRegister(m, i)
    BY <1>17 DEF Plain, HighOps
  <2>2. i.op # "cmp_hi" => n.regs[i.rs] = m.regs[i.rs]
    BY <1>1, <1>3, <1>17 DEF Decoded, HighOps
  <2>3. CASE i.op = "add_hi"
    <3>1. PICK w : w = Plus(m.regs[i.rd], m.regs[i.rs])
      OBVIOUS
    <3>2. n.regs[i.rd] = m.regs[i.rd]
      BY <1>1, <1>5, <2>3
    <3>3. StepHighRegister(n, i) = SetReg(n, i.rd, w) /\ StepHighRegister(m, i) = SetReg(m, i.rd, w)
      BY <2>2, <2>3, <3>1, <3>2 DEF StepHighRegister
    <3> QED  BY <1>4, <1>10, <2>1, <2>3, <3>3
  <2>4. CASE i.op = "mov_hi"
    <3>1. PICK w : w = m.regs[i.rs]
      OBVIOUS
    <3>2. StepHighRegister(n, i) = SetReg(n, i.rd, w) /\ StepHighRegister(m, i) = SetReg(m, i.rd, w)
      BY <2>2, <2>4, <3>1 DEF StepHighRegister
    <3> QED  BY <1>4, <1>10, <2>1, <2>4, <3>2
  <2>5. CASE i.op = "bx"
    <3>1. /\ StepHighRegister(n, i) = BranchExchange(n, m.regs[i.rs])
          /\ StepHighRegister(m, i) = BranchExchange(m, m.regs[i.rs])
      BY <2>2, <2>5 DEF StepHighRegister
    <3> QED  BY <2>1, <3>1, BranchExchangeLr DEF n
  <2>6. CASE i.op = "cmp_hi"
    BY <2>1, <2>6 DEF StepHighRegister, n
  <2> QED  BY <1>17, <2>3, <2>4, <2>5, <2>6 DEF HighOps
<1>18. CASE i.op = "str"
  <2>0. PICK a : a = Address(m, i)
    OBVIOUS
  <2>1. PICK w \in Words : w = m.regs[i.rd] /\ w = n.regs[i.rd]
    BY <1>1, <1>5, <1>18, ReadRegType
  <2>2. Plain(n, i, pc) = StoreWord(n, a, w) /\ Plain(m, i, pc) = StoreWord(m, a, w)
    BY <1>8, <1>18, <2>0, <2>1 DEF Plain
  <2> QED  BY <2>2, StoreWordLr DEF n
<1>19. CASE i.op = "strh"
  <2>1. m.regs[i.rd] \in Words /\ n.regs[i.rd] = m.regs[i.rd]
    BY <1>1, <1>5, <1>19, ReadRegType
  <2>0. PICK a : a = Address(m, i)
    OBVIOUS
  <2>2. PICK h \in Halfwords : h = m.regs[i.rd] % HalfRange
    BY <2>1, WordHalves
  <2>3. Plain(n, i, pc) = StoreHalf(n, a, h) /\ Plain(m, i, pc) = StoreHalf(m, a, h)
    BY <1>8, <1>19, <2>0, <2>1, <2>2 DEF Plain
  <2> QED  BY <2>3, StoreHalfLr DEF n
<1>20. CASE i.op = "ldr"
  <2>1. PICK w : w = LoadWord(m, Address(m, i)) /\ w = LoadWord(n, Address(m, i))
    BY <1>2 DEF LoadWord
  <2>2. Plain(n, i, pc) = SetReg(n, i.rd, w) /\ Plain(m, i, pc) = SetReg(m, i.rd, w)
    BY <1>8, <1>20, <2>1 DEF Plain
  <2> QED  BY <1>4, <1>10, <1>20, <2>2
<1>21. CASE i.op = "ldrh"
  <2>1. /\ Plain(n, i, pc) = LoadHalf(n, i.rd, Address(m, i))
        /\ Plain(m, i, pc) = LoadHalf(m, i.rd, Address(m, i))
    BY <1>8, <1>21 DEF Plain
  <2> QED  BY <1>4, <1>21, <2>1, LoadHalfLr DEF n
<1>22. CASE i.op = "adr"
  <2>1. PICK w : w = Plus(((pc + 4) \div 4) * 4, i.imm)
    OBVIOUS
  <2>2. Plain(n, i, pc) = SetReg(n, i.rd, w) /\ Plain(m, i, pc) = SetReg(m, i.rd, w)
    BY <1>22, <2>1 DEF Plain
  <2> QED  BY <1>4, <1>10, <1>22, <2>2
<1>23. CASE i.op = "b"
  <2>1. PICK w : w = Plus(m.regs[Pc], i.imm)
    OBVIOUS
  <2>2. Plain(n, i, pc) = SetReg(n, Pc, w) /\ Plain(m, i, pc) = SetReg(m, Pc, w)
    BY <1>9, <1>23, <2>1 DEF Plain
  <2> QED  BY <1>10, <2>2, RegFacts
<1>24. i.op \notin {"bl_high", "bl_low"}
  BY DEF WritesLr
<1>25. CASE i.op \in {"swi", "nop"}
  BY <1>25 DEF Plain, n
<1>26. \/ i.op \in {"mov", "lit", "lsl", "lsr", "add", "sub", "orr", "bic", "str", "strh"}
       \/ i.op \in {"ldr", "ldrh", "adr", "b", "bl_high", "bl_low", "swi", "nop"}
       \/ i.op \in HighOps
  BY DEF ThumbOps, PlainOps
<1> QED  BY <1>11, <1>12, <1>13, <1>14, <1>15, <1>16, <1>17, <1>18, <1>19, <1>20, <1>21,
            <1>22, <1>23, <1>24, <1>25, <1>26

LEMMA ArmLr ==
  ASSUME NEW m \in Machine, NEW i, Decoded(i), NEW pc \in Int, i.op \in ArmOps, NEW x \in Words
  PROVE  /\ Arm(SetReg(m, Lr, x), i, pc) = SetReg(Arm(m, i, pc), Lr, x)
         /\ Arm(m, i, pc).regs[Lr] = m.regs[Lr]
<1> DEFINE n == SetReg(m, Lr, x)
<1>1. n.regs[0] = m.regs[0] /\ m.regs[0] \in Words /\ 0 # Lr
  BY SetRegFields, ReadRegType, RegFacts DEF Lr
<1> HIDE DEF n
<1>2. ASSUME NEW r, r # Lr, NEW w, Arm(n, i, pc) = SetReg(n, r, w), Arm(m, i, pc) = SetReg(m, r, w)
      PROVE  /\ Arm(SetReg(m, Lr, x), i, pc) = SetReg(Arm(m, i, pc), Lr, x)
             /\ Arm(m, i, pc).regs[Lr] = m.regs[Lr]
  BY <1>2, SetRegLr DEF n
<1>3. CASE i.op = "arm_b"
  <2>1. PICK w : w = Plus(pc, 8 + i.imm)
    OBVIOUS
  <2>2. Arm(n, i, pc) = SetReg(n, Pc, w) /\ Arm(m, i, pc) = SetReg(m, Pc, w)
    BY <1>3, <2>1 DEF Arm
  <2> QED  BY <1>2, <2>2, RegFacts
<1>4. CASE i.op = "arm_mov"
  <2>1. Arm(n, i, pc) = SetReg(n, 0, i.imm) /\ Arm(m, i, pc) = SetReg(m, 0, i.imm)
    BY <1>4 DEF Arm
  <2> QED  BY <1>1, <1>2, <2>1
<1>5. CASE i.op = "arm_ldr_sp"
  <2>1. Arm(n, i, pc) = SetReg(n, Sp, i.imm) /\ Arm(m, i, pc) = SetReg(m, Sp, i.imm)
    BY <1>5 DEF Arm
  <2> QED  BY <1>2, <2>1, RegFacts
<1>6. CASE i.op = "arm_adr"
  <2>1. PICK w : w = Plus(pc, 8 + 1)
    OBVIOUS
  <2>2. Arm(n, i, pc) = SetReg(n, 0, w) /\ Arm(m, i, pc) = SetReg(m, 0, w)
    BY <1>6, <2>1 DEF Arm
  <2> QED  BY <1>1, <1>2, <2>2
<1>7. CASE i.op = "arm_bx"
  <2>1. /\ Arm(n, i, pc) = BranchExchange(n, m.regs[0])
        /\ Arm(m, i, pc) = BranchExchange(m, m.regs[0])
    BY <1>1, <1>7 DEF Arm
  <2> QED  BY <2>1, BranchExchangeLr DEF n
<1>8. CASE i.op = "arm_str_ime"
  <2>0. PICK a : a = Plus(m.regs[0], IME - Regions["io"].start)
    OBVIOUS
  <2>1. PICK w \in Words : w = m.regs[0]
    BY <1>1
  <2>2. /\ Arm(n, i, pc) = IF In("io", a) THEN StoreWord(n, a, w) ELSE n
        /\ Arm(m, i, pc) = IF In("io", a) THEN StoreWord(m, a, w) ELSE m
    BY <1>1, <1>8, <2>0, <2>1 DEF Arm
  <2> QED  BY <2>2, StoreWordLr DEF n
<1>9. CASE i.op = "arm_msr"
  BY <1>9 DEF Arm, n
<1> QED  BY <1>3, <1>4, <1>5, <1>6, <1>7, <1>8, <1>9 DEF ArmOps

-----------------------------------------------------------------------------
(* Blocks: the loops do what StoreBlock and LoadBlock say.                 *)

LEMMA RankFacts ==
  ASSUME NEW list \in SUBSET Regs
  PROVE  /\ Rank(list, 0) = 0 /\ Rank(list, NoReg) = Cardinality(list)
         /\ \A r \in 0..NoReg : Rank(list, r) \in Nat /\ Rank(list, r) <= 16
         /\ \A r \in 0..15 :
              Rank(list, r + 1) = IF r \in list THEN Rank(list, r) + 1 ELSE Rank(list, r)
         /\ \A r \in list, q \in 0..NoReg : r < q => Rank(list, r) < Rank(list, q)
<1>1. \A r \in list : r \in 0..15
  BY RegFacts
<1>2. IsFiniteSet(0..15) /\ Cardinality(0..15) = 16
  <2>1. PICK a \in Int, b \in Int : a = 0 /\ b = 15
    OBVIOUS
  <2>2. IsFiniteSet(a..b) /\ Cardinality(a..b) = IF a > b THEN 0 ELSE b - a + 1
    BY FS_Interval
  <2>3. a..b = 0..15 /\ (IF a > b THEN 0 ELSE b - a + 1) = 16
    BY <2>1
  <2> QED  BY <2>2, <2>3
<1>3. \A t \in SUBSET list : IsFiniteSet(t) /\ Cardinality(t) \in Nat /\ Cardinality(t) <= 16
  <2> SUFFICES ASSUME NEW t \in SUBSET list
               PROVE  IsFiniteSet(t) /\ Cardinality(t) \in Nat /\ Cardinality(t) <= 16
    OBVIOUS
  <2>1. t \in SUBSET (0..15)
    BY <1>1
  <2>2. PICK S : S = 0..15 /\ IsFiniteSet(S) /\ Cardinality(S) = 16 /\ t \in SUBSET S
    BY <1>2, <2>1
  <2>3. IsFiniteSet(t) /\ Cardinality(t) <= Cardinality(S)
    BY <2>2, FS_Subset
  <2> QED  BY <2>2, <2>3, FS_CardinalityType
<1>4. \A r : {q \in list : q < r} \in SUBSET list
  OBVIOUS
<1>5. \A r : Rank(list, r) \in Nat /\ Rank(list, r) <= 16
  BY <1>3, <1>4 DEF Rank
<1>6. Rank(list, 0) = 0
  <2>1. {q \in list : q < 0} = {}
    BY <1>1
  <2> QED  BY <2>1, FS_EmptySet DEF Rank
<1>7. Rank(list, NoReg) = Cardinality(list)
  <2>1. \A q \in list : q < NoReg
    BY <1>1, RegFacts
  <2>2. {q \in list : q < NoReg} = list
    BY <2>1
  <2> QED  BY <2>2 DEF Rank
<1>8. ASSUME NEW r \in 0..15
      PROVE  Rank(list, r + 1) = IF r \in list THEN Rank(list, r) + 1 ELSE Rank(list, r)
  <2>1. CASE r \in list
    <3>1. PICK t \in SUBSET list : t = {q \in list : q < r}
      OBVIOUS
    <3>2. r \notin t /\ {q \in list : q < r + 1} = t \cup {r}
      <4>1. \A q \in list : (q < r + 1 <=> q < r \/ q = r)
        BY <1>1
      <4>2. ~(r < r)
        OBVIOUS
      <4> QED  BY <2>1, <3>1, <4>1, <4>2
    <3>3. IsFiniteSet(t)
      BY <1>3
    <3>4. Cardinality(t \cup {r}) = Cardinality(t) + 1
      BY <3>2, <3>3, FS_AddElement
    <3> QED  BY <2>1, <3>1, <3>2, <3>4 DEF Rank
  <2>2. CASE r \notin list
    <3>1. {q \in list : q < r + 1} = {q \in list : q < r}
      BY <1>1, <2>2
    <3> QED  BY <2>2, <3>1 DEF Rank
  <2> QED  BY <2>1, <2>2
<1>9. ASSUME NEW r \in list, NEW q \in 0..NoReg, r < q PROVE Rank(list, r) < Rank(list, q)
  <2>1. r \in 0..15 /\ r + 1 <= q
    BY <1>1, <1>9, RegFacts
  <2>2. Rank(list, r + 1) = Rank(list, r) + 1
    BY <1>8, <2>1
  <2>3. PICK t \in SUBSET list, u \in SUBSET list :
          t = {p \in list : p < r + 1} /\ u = {p \in list : p < q}
    OBVIOUS
  <2>4. t \in SUBSET u
    <3>1. \A p \in list : p < r + 1 => p < q
      BY <1>1, <2>1, RegFacts
    <3> QED  BY <2>3, <3>1
  <2>5. IsFiniteSet(u)
    BY <1>3
  <2>6. Cardinality(t) <= Cardinality(u)
    BY <2>4, <2>5, FS_Subset
  <2>7. Rank(list, r + 1) <= Rank(list, q)
    BY <2>3, <2>6 DEF Rank
  <2> QED  BY <1>5, <2>2, <2>7
<1> QED  BY <1>5, <1>6, <1>7, <1>8, <1>9

\* Addresses of a list of registers' words, each of its own, none of the I/O page.
Held(a) == In("ewram", a) \/ In("iwram", a)
SlotsOf(s, list) ==
  /\ s \in [list -> Words]
  /\ \A r \in list : s[r] \in Nat /\ s[r] % 4 = 0 /\ ~In("io", s[r])
  /\ \A r, q \in list : s[r] = s[q] => r = q

LEMMA SlotFacts ==
  ASSUME NEW list \in SUBSET Regs, NEW a \in Words, a % 4 = 0,
         \A r \in list : ~In("io", Slot(list, a, r))
  PROVE  SlotsOf([r \in list |-> Slot(list, a, r)], list)
<1>1. a \in Int /\ WordRange > 1024
  BY Ranges DEF Words
<1>2. \A r \in list : r \in 0..NoReg /\ Rank(list, r) \in Nat /\ Rank(list, r) <= 16
  BY RankFacts, RegFacts
<1>3. ASSUME NEW r \in list
      PROVE  Slot(list, a, r) \in Words /\ Slot(list, a, r) \in Nat /\ Slot(list, a, r) % 4 = 0
  <2>1. PICK k \in Nat : k = Rank(list, r)
    BY <1>2
  <2>2. PICK n \in Int, b \in Int : n = 4 * k /\ n % 4 = 0 /\ b = a
    BY <1>1
  <2>3. Plus(b, n) \in Words /\ Plus(b, n) \in Nat
    BY PlusType
  <2>4. Plus(b, n) % 4 = 0
    BY <2>2, PlusAligned
  <2> QED  BY <2>1, <2>2, <2>3, <2>4 DEF Slot
<1>4. ASSUME NEW r \in list, NEW q \in list, r < q PROVE Slot(list, a, r) # Slot(list, a, q)
  <2>1. Rank(list, r) < Rank(list, q)
    BY <1>2, <1>4, RankFacts
  <2>2. PICK i \in Nat, j \in Nat :
          i = Rank(list, r) /\ j = Rank(list, q) /\ i < j /\ j <= 16
    BY <1>2, <2>1
  <2>3. PICK n \in Nat, k \in Nat, b \in Int : n = 4 * i /\ k = 4 * j /\ b = a
    BY <1>1
  <2>4. n < k /\ k - n < WordRange
    BY <1>1, <2>2, <2>3, Ranges
  <2>5. Plus(b, n) # Plus(b, k)
    BY <2>4, PlusDiffers
  <2> QED  BY <2>2, <2>3, <2>5 DEF Slot
<1>5. \A r, q \in list : Slot(list, a, r) = Slot(list, a, q) => r = q
  <2>1. \A r, q \in list : r < q \/ q < r \/ r = q
    BY RegFacts
  <2> QED  BY <1>4, <2>1
<1> QED  BY <1>3, <1>5 DEF SlotsOf

\* n differs from m in its memory only.
Beside(m, n) == n = [m EXCEPT !.mem = n.mem]

\* mem is m's with the words of the registers in done at their addresses.
Written(m, mem, done, s) ==
  /\ mem \in Mem
  /\ \A x \in Cells :
       /\ \A r \in done : Held(s[r]) =>
            /\ x = s[r] => mem[x] = m.regs[r] % HalfRange
            /\ x = s[r] + 2 => mem[x] = m.regs[r] \div HalfRange
       /\ (\A r \in done : Held(s[r]) => x # s[r] /\ x # s[r] + 2) => mem[x] = m.mem[x]

\* n is m after the store of some of the list's registers.
Partly(m, n, list, s, done) ==
  Beside(m, n) /\ SlotsOf(s, list) /\ Written(m, n.mem, done, s)

LEMMA WrittenOnce ==
  ASSUME NEW m, NEW done, NEW s, NEW a, NEW b, Written(m, a, done, s), Written(m, b, done, s)
  PROVE  a = b
<1>1. \A x \in Cells : a[x] = b[x]
  BY DEF Written
<1> QED  BY <1>1 DEF Written, Mem

\* Two words' halves are two.
LEMMA HalvesApart ==
  ASSUME NEW a \in Nat, NEW b \in Nat, a % 4 = 0, b % 4 = 0
  PROVE  a # b + 2 /\ (a + 2 = b + 2 => a = b)
  OBVIOUS

LEMMA WrittenNext ==
  ASSUME NEW m \in Machine, NEW n \in Machine, NEW list \in SUBSET Regs,
         NEW s, NEW done \in SUBSET list, Partly(m, n, list, s, done),
         NEW r \in list, r \notin done, NEW t, t = StoreWord(n, s[r], n.regs[r])
  PROVE  t \in Machine /\ Partly(m, t, list, s, done \cup {r})
<1>0. Beside(m, n) /\ SlotsOf(s, list) /\ Written(m, n.mem, done, s)
  BY DEF Partly
<1>1. n.regs = m.regs
  BY <1>0 DEF Machine, Beside
<1>2. PICK w \in Words : w = n.regs[r] /\ w = m.regs[r]
  BY <1>1, ReadRegType
<1>3. PICK a \in Nat : a = s[r] /\ a % 4 = 0 /\ ~In("io", a)
  BY <1>0 DEF SlotsOf
<1>4. CASE Held(a)
  <2>1. Plus(a, 2) = a + 2
    <3>1. \A o \in {"ewram", "iwram"} : In(o, a) => Plus(a, 2) = a + 2
      BY <1>3, WordInRegion DEF RegionNames
    <3> QED  BY <1>4, <3>1 DEF Held
  <2>2. PICK mem \in Mem : mem = PutWord(n.mem, a, w)
    BY PutWordType DEF Machine
  <2>3. t = [n EXCEPT !.mem = mem]
    BY <1>2, <1>3, <1>4, <2>2 DEF StoreWord, Held
  <2>4. t \in Machine /\ Beside(m, t) /\ t.mem = mem
    BY <1>0, <2>3 DEF Machine, Beside
  <2>5. \A x \in Cells : mem[x] = IF x = a + 2 THEN w \div HalfRange
                                  ELSE IF x = a THEN w % HalfRange ELSE n.mem[x]
    BY <2>1, <2>2, PutWordType DEF Machine
  <2>6. \A q \in done : s[q] # a /\ s[q] # a + 2 /\ a # s[q] + 2 /\ s[q] + 2 # a + 2
    <3> SUFFICES ASSUME NEW q \in done
                 PROVE  s[q] # a /\ s[q] # a + 2 /\ a # s[q] + 2 /\ s[q] + 2 # a + 2
      OBVIOUS
    <3>1. PICK b \in Nat : b = s[q] /\ b % 4 = 0
      BY <1>0 DEF SlotsOf
    <3>2. b # a
      BY <1>0, <1>3, <3>1 DEF SlotsOf
    <3> QED  BY <1>3, <3>1, <3>2, HalvesApart
  <2>7. a # a + 2
    BY <1>3
  <2>8. Written(m, mem, done \cup {r}, s)
    <3> SUFFICES ASSUME NEW x \in Cells
                 PROVE  /\ \A q \in done \cup {r} : Held(s[q]) =>
                             /\ x = s[q] => mem[x] = m.regs[q] % HalfRange
                             /\ x = s[q] + 2 => mem[x] = m.regs[q] \div HalfRange
                        /\ (\A q \in done \cup {r} : Held(s[q]) => x # s[q] /\ x # s[q] + 2) =>
                             mem[x] = m.mem[x]
      BY DEF Written
    <3>1. mem[x] = IF x = a + 2 THEN w \div HalfRange
                   ELSE IF x = a THEN w % HalfRange ELSE n.mem[x]
      BY <2>5
    <3>2. /\ \A q \in done : Held(s[q]) =>
               /\ x = s[q] => n.mem[x] = m.regs[q] % HalfRange
               /\ x = s[q] + 2 => n.mem[x] = m.regs[q] \div HalfRange
          /\ (\A q \in done : Held(s[q]) => x # s[q] /\ x # s[q] + 2) => n.mem[x] = m.mem[x]
      BY <1>0 DEF Written
    <3>3. \A q \in done : Held(s[q]) =>
               /\ x = s[q] => mem[x] = m.regs[q] % HalfRange
               /\ x = s[q] + 2 => mem[x] = m.regs[q] \div HalfRange
      BY <2>6, <3>1, <3>2
    <3>4. /\ x = a => mem[x] = m.regs[r] % HalfRange
          /\ x = a + 2 => mem[x] = m.regs[r] \div HalfRange
      BY <1>2, <2>7, <3>1
    <3>5. (\A q \in done \cup {r} : Held(s[q]) => x # s[q] /\ x # s[q] + 2) => mem[x] = m.mem[x]
      BY <1>3, <1>4, <3>1, <3>2
    <3> QED  BY <1>3, <3>3, <3>4, <3>5
  <2> QED  BY <1>0, <2>4, <2>8 DEF Partly
<1>5. CASE ~Held(a)
  <2>1. t = n
    BY <1>3, <1>5 DEF StoreWord, Held
  <2>2. Written(m, n.mem, done \cup {r}, s)
    BY <1>0, <1>3, <1>5 DEF Written
  <2> QED  BY <1>0, <2>1, <2>2 DEF Partly
<1> QED  BY <1>4, <1>5

\* Of the list's registers regs are stored next, from address a on.
Follow(regs, list, s, done, a) ==
  /\ done \in SUBSET list /\ regs \in SUBSET (list \ done)
  /\ \A r \in regs : s[r] = Plus(a, 4 * Rank(regs, r))

Stored(m, t, regs, list, s, done, a) ==
  /\ t.m \in Machine /\ t.a = Plus(a, 4 * Cardinality(regs))
  /\ Partly(m, t.m, list, s, done \cup regs)

LEMMA StoreLoop ==
  ASSUME NEW m \in Machine, NEW n \in Machine, NEW list \in SUBSET Regs,
         NEW s, NEW done, Partly(m, n, list, s, done),
         NEW regs, NEW a \in Words, Follow(regs, list, s, done, a)
  PROVE  Stored(m, StoreEach(n, regs, a), regs, list, s, done, a)
<1>1. PICK kind \in {"store", "load"} : kind = "store"
  OBVIOUS
<1>2. /\ done \in SUBSET list /\ regs \in SUBSET Regs /\ regs \subseteq list /\ regs \cap done = {}
      /\ \A r \in regs : s[r] = Plus(a, 4 * Rank(regs, r))
  BY DEF Follow
<1>3. PICK g : IsLoop(g, kind, n, regs, a)
  BY <1>2, Loop
<1>4. /\ Rank(regs, 0) = 0 /\ Rank(regs, NoReg) = Cardinality(regs)
      /\ \A r \in 0..NoReg : Rank(regs, r) \in Nat
      /\ \A r \in 0..15 : Rank(regs, r + 1) = IF r \in regs THEN Rank(regs, r) + 1 ELSE Rank(regs, r)
  BY <1>2, RankFacts
<1>5. a \in Int
  BY Ranges DEF Words
<1> DEFINE So(k) ==
             /\ g[k].a = Plus(a, 4 * Rank(regs, k))
             /\ Partly(m, g[k].m, list, s, done \cup {q \in regs : q < k})
           S == {k \in Nat : k \in 0..NoReg => So(k)}
<1>6. 0 \in S
  <2>1. done \cup {q \in regs : q < 0} = done
    <3>1. \A q \in regs : ~(q < 0)
      BY <1>2, RegFacts
    <3> QED  BY <3>1
  <2>2. Plus(a, 4 * Rank(regs, 0)) = a
    BY <1>4, PlusZero
  <2>3. g[0].m = n /\ g[0].a = a
    BY <1>3 DEF IsLoop
  <2>4. So(0)
    BY <2>1, <2>2, <2>3
  <2> HIDE DEF So
  <2> QED  BY <2>4
<1>7. ASSUME NEW k \in Nat, k \in S PROVE k + 1 \in S
  <2> SUFFICES ASSUME k + 1 \in 0..NoReg PROVE So(k + 1)
    <3> HIDE DEF So
    <3> QED  OBVIOUS
  <2>1. k \in 0..15 /\ k \in 0..NoReg
    BY RegFacts
  <2>2. So(k)
    BY <1>7, <2>1
  <2>3. PICK t \in Machine, b \in Words : t = g[k].m /\ b = g[k].a
    BY <1>3, <2>1 DEF Blocks, IsLoop
  <2>4. PICK past \in SUBSET list : past = done \cup {q \in regs : q < k}
    BY <1>2
  <2>5. Partly(m, t, list, s, past) /\ b = Plus(a, 4 * Rank(regs, k))
    BY <2>2, <2>3, <2>4
  <2>6. CASE k \in regs
    <3>1. g[k + 1] = StoreNext(g[k], k)
      BY <1>1, <1>3, <2>1, <2>6 DEF NextBlock, IsLoop
    <3>2. g[k + 1].m = StoreWord(t, b, t.regs[k]) /\ g[k + 1].a = Plus(b, 4)
      BY <2>3, <3>1 DEF StoreNext
    <3>3. b = s[k]
      BY <1>2, <2>5, <2>6
    <3>4. k \notin past /\ k \in list /\ done \cup {q \in regs : q < k + 1} = past \cup {k}
      <4>1. \A q \in regs : q \in 0..15
        BY <1>2, RegFacts
      <4>2. {q \in regs : q < k + 1} = {q \in regs : q < k} \cup {k}
        <5>1. \A q \in regs : (q < k + 1 <=> q < k \/ q = k)
          BY <4>1
        <5> QED  BY <2>6, <5>1
      <4>3. k \notin {q \in regs : q < k}
        OBVIOUS
      <4> QED  BY <1>2, <2>4, <2>6, <4>2, <4>3
    <3>5. PICK u : u = StoreWord(t, s[k], t.regs[k])
      OBVIOUS
    <3>6. Partly(m, u, list, s, past \cup {k})
      BY <2>5, <3>4, <3>5, WrittenNext
    <3>7. Plus(b, 4) = Plus(a, 4 * Rank(regs, k + 1))
      <4>1. PICK j \in Nat : j = Rank(regs, k) /\ j + 1 = Rank(regs, k + 1)
        BY <1>4, <2>1, <2>6
      <4>2. PICK c \in Int, d \in Int, e \in Int : c = 4 * j /\ d = 4 /\ c + d = 4 * (j + 1) /\ e = a
        BY <1>5
      <4>3. Plus(Plus(e, c), d) = Plus(e, c + d)
        BY PlusPlus
      <4> QED  BY <2>5, <4>1, <4>2, <4>3
    <3> QED  BY <3>2, <3>3, <3>4, <3>5, <3>6, <3>7
  <2>7. CASE k \notin regs
    <3>1. g[k + 1] = g[k] /\ Rank(regs, k + 1) = Rank(regs, k)
      BY <1>3, <1>4, <2>1, <2>7 DEF IsLoop
    <3>2. {q \in regs : q < k + 1} = {q \in regs : q < k}
      <4>1. \A q \in regs : q \in 0..15
        BY <1>2, RegFacts
      <4>2. \A q \in regs : (q < k + 1 <=> q < k)
        BY <2>7, <4>1
      <4> QED  BY <4>2
    <3> QED  BY <2>2, <3>1, <3>2
  <2> QED  BY <2>6, <2>7
<1>8. So(NoReg)
  <2>1. NoReg \in Nat /\ NoReg \in 0..NoReg
    BY RegFacts
  <2>2. NoReg \in S
    <3> HIDE DEF S
    <3> QED  BY <1>6, <1>7, <2>1, Induction
  <2> QED  BY <2>1, <2>2
<1>9. {q \in regs : q < NoReg} = regs
  <2>1. \A q \in regs : q < NoReg
    BY <1>2, RegFacts
  <2> QED  BY <2>1
<1>10. StoreEach(n, regs, a) = g[NoReg] /\ g[NoReg].m \in Machine
  BY <1>1, <1>3, RegFacts DEF Blocks, IsLoop
<1> QED  BY <1>4, <1>8, <1>9, <1>10 DEF Stored

\* What StoreBlock says of a list's registers is what the loop comes to.
LEMMA StoreBlockWritten ==
  ASSUME NEW m \in Machine, NEW list \in SUBSET Regs, NEW a,
         NEW s, s = [r \in list |-> Slot(list, a, r)], SlotsOf(s, list)
  PROVE  Partly(m, StoreBlock(m, list, a), list, s, list)
<1> DEFINE Here(x) == {r \in list : Held(s[r]) /\ (x = s[r] \/ x = s[r] + 2)}
           Half(x, r) == IF x = s[r] THEN m.regs[r] % HalfRange ELSE m.regs[r] \div HalfRange
           Cell(x) == IF Here(x) = {} THEN m.mem[x] ELSE Half(x, CHOOSE r \in Here(x) : TRUE)
           mem == [x \in Cells |-> Cell(x)]
<1>1. m.mem \in Mem /\ DOMAIN m.mem = Cells
  BY DEF Machine, Mem
<1>2. StoreBlock(m, list, a) = [m EXCEPT !.mem = mem]
  <2>1. \A r \in list : s[r] = Slot(list, a, r)
    OBVIOUS
  <2>2. \A r \in list : Held(s[r]) <=> \E n \in {"ewram", "iwram"} : In(n, Slot(list, a, r))
    BY <2>1 DEF Held
  <2> DEFINE held == {r \in list : \E n \in {"ewram", "iwram"} : In(n, Slot(list, a, r))}
             Here2(x) == {r \in held : x \in {Slot(list, a, r), Slot(list, a, r) + 2}}
             Half2(x, r) == IF x = Slot(list, a, r) THEN m.regs[r] % HalfRange
                            ELSE m.regs[r] \div HalfRange
             Cell2(x) == IF Here2(x) = {} THEN m.mem[x]
                         ELSE Half2(x, CHOOSE r \in Here2(x) : TRUE)
  <2>3. ASSUME NEW x \in Cells PROVE Cell2(x) = Cell(x)
    <3>1. \A r : r \in Here2(x) <=> r \in Here(x)
      BY <2>1, <2>2
    <3>2. Here2(x) = Here(x)
      BY <3>1
    <3>3. ASSUME Here(x) # {}
          PROVE  Half2(x, CHOOSE r \in Here(x) : TRUE) = Half(x, CHOOSE r \in Here(x) : TRUE)
      <4>1. PICK r : r = CHOOSE q \in Here(x) : TRUE
        OBVIOUS
      <4>2. r \in Here(x)
        BY <3>3, <4>1
      <4>3. r \in list
        BY <4>2
      <4>4. Half2(x, r) = Half(x, r)
        BY <2>1, <4>3
      <4> HIDE DEF Here, Half, Half2
      <4> QED  BY <4>1, <4>4
    <3> HIDE DEF Here, Here2, Half, Half2
    <3> QED  BY <3>2, <3>3
  <2>4. StoreBlock(m, list, a) = [m EXCEPT !.mem = [x \in DOMAIN m.mem |-> Cell2(x)]]
    BY DEF StoreBlock
  <2> HIDE DEF Cell, Cell2
  <2>5. [x \in DOMAIN m.mem |-> Cell2(x)] = [x \in Cells |-> Cell(x)]
    BY <1>1, <2>3
  <2> QED  BY <2>4, <2>5
<1>3. ASSUME NEW x, NEW r \in Here(x), NEW q \in Here(x) PROVE r = q
  <2>1. PICK b \in Nat, c \in Nat : b = s[r] /\ c = s[q] /\ b % 4 = 0 /\ c % 4 = 0
    BY DEF SlotsOf
  <2>2. b # c + 2 /\ c # b + 2 /\ (b + 2 = c + 2 => b = c)
    BY <2>1, HalvesApart
  <2>3. s[r] = s[q]
    BY <2>1, <2>2
  <2> QED  BY <2>3 DEF SlotsOf
<1>4. ASSUME NEW r \in list PROVE m.regs[r] % HalfRange \in Halfwords
                               /\ m.regs[r] \div HalfRange \in Halfwords
  BY ReadRegType, WordHalves
<1>5. ASSUME NEW x, NEW r \in Here(x) PROVE (CHOOSE q \in Here(x) : TRUE) = r
  <2>1. (CHOOSE q \in Here(x) : TRUE) \in Here(x)
    BY <1>5
  <2> HIDE DEF Here
  <2> QED  BY <1>3, <1>5, <2>1
<1>6. ASSUME NEW x, NEW r \in Here(x) PROVE Cell(x) = Half(x, r)
  <2>1. Here(x) # {}
    BY <1>6
  <2>2. (CHOOSE q \in Here(x) : TRUE) = r
    BY <1>5, <1>6
  <2>3. PICK c : c = CHOOSE q \in Here(x) : TRUE
    OBVIOUS
  <2>4. Cell(x) = Half(x, c)
    <3> HIDE DEF Here, Half
    <3> QED  BY <2>1, <2>3, Zenon
  <2> QED  BY <2>2, <2>3, <2>4
<1>7. ASSUME NEW x \in Cells PROVE Cell(x) \in Halfwords
  <2>1. CASE Here(x) = {}
    BY <1>1, <2>1 DEF Mem
  <2>2. ASSUME NEW r \in Here(x) PROVE Cell(x) \in Halfwords
    <3>1. Cell(x) = Half(x, r)
      <4> HIDE DEF Cell, Here, Half
      <4> QED  BY <1>6, <2>2
    <3>2. r \in list
      OBVIOUS
    <3>3. Half(x, r) \in Halfwords
      BY <1>4, <3>2
    <3> HIDE DEF Cell, Half, Here
    <3> QED  BY <3>1, <3>3
  <2> HIDE DEF Cell, Half, Here
  <2> QED  BY <2>1, <2>2
<1>8. mem \in Mem
  <2> HIDE DEF Cell
  <2> QED  BY <1>7 DEF Mem
<1>9. \A x \in Cells : mem[x] = Cell(x)
  <2> HIDE DEF Cell
  <2> QED  OBVIOUS
<1> HIDE DEF mem
<1>10. Written(m, mem, list, s)
  <2> SUFFICES ASSUME NEW x \in Cells
               PROVE  /\ \A r \in list : Held(s[r]) =>
                           /\ x = s[r] => mem[x] = m.regs[r] % HalfRange
                           /\ x = s[r] + 2 => mem[x] = m.regs[r] \div HalfRange
                      /\ (\A r \in list : Held(s[r]) => x # s[r] /\ x # s[r] + 2) =>
                           mem[x] = m.mem[x]
    BY <1>8 DEF Written
  <2>1. ASSUME NEW r \in list, Held(s[r]), x = s[r] \/ x = s[r] + 2
        PROVE  /\ x = s[r] => mem[x] = m.regs[r] % HalfRange
               /\ x = s[r] + 2 => mem[x] = m.regs[r] \div HalfRange
    <3>1. r \in Here(x)
      BY <2>1
    <3>2. mem[x] = Half(x, r)
      <4> HIDE DEF Cell, Here, Half
      <4> QED  BY <1>6, <1>9, <3>1
    <3>3. s[r] + 2 # s[r]
      <4>1. s[r] \in Nat
        BY DEF SlotsOf
      <4> QED  BY <4>1
    <3> HIDE DEF Cell, Here
    <3> QED  BY <3>2, <3>3
  <2>2. ASSUME \A r \in list : Held(s[r]) => x # s[r] /\ x # s[r] + 2
        PROVE  mem[x] = m.mem[x]
    <3>1. Here(x) = {}
      BY <2>2
    <3> QED  BY <1>9, <3>1
  <2> QED  BY <2>1, <2>2
<1>11. PICK n : n = StoreBlock(m, list, a)
  OBVIOUS
<1>12. n = [m EXCEPT !.mem = mem] /\ n.mem = mem
  BY <1>2, <1>11 DEF Machine
<1>13. Beside(m, n)
  BY <1>12 DEF Beside
<1> QED  BY <1>10, <1>11, <1>12, <1>13 DEF Partly

LEMMA StoreBlockIs ==
  ASSUME NEW m \in Machine, NEW list \in SUBSET Regs, NEW a, NEW n,
         NEW s, s = [r \in list |-> Slot(list, a, r)], Partly(m, n, list, s, list)
  PROVE  n = StoreBlock(m, list, a)
<1>1. PICK t : t = StoreBlock(m, list, a)
  OBVIOUS
<1>2. Partly(m, t, list, s, list)
  BY <1>1, StoreBlockWritten DEF Partly
<1>3. t.mem = n.mem
  BY <1>2, WrittenOnce DEF Partly
<1>4. Beside(m, t) /\ Beside(m, n)
  BY <1>2 DEF Partly
<1> QED  BY <1>1, <1>3, <1>4 DEF Beside

LEMMA PartlyNone ==
  ASSUME NEW m \in Machine, NEW list, NEW s, SlotsOf(s, list)
  PROVE  Partly(m, m, list, s, {})
<1>1. Beside(m, m)
  BY DEF Beside, Machine
<1>2. Written(m, m.mem, {}, s)
  BY DEF Written, Machine
<1> QED  BY <1>1, <1>2 DEF Partly

\* m with the registers below k loaded.
Loaded(m, regs, a, k) ==
  [m EXCEPT !.regs = [r \in Regs |->
     IF r \in regs /\ r < k THEN LoadWord(m, Slot(regs, a, r)) ELSE m.regs[r]]]

LEMMA LoadLoop ==
  ASSUME NEW m \in Machine, NEW regs \in SUBSET Regs, NEW a \in Words
  PROVE  LET t == LoadEach(m, regs, a)
         IN  t.m = LoadBlock(m, regs, a) /\ t.a = Plus(a, 4 * Cardinality(regs))
<1>1. PICK kind \in {"store", "load"} : kind # "store"
  OBVIOUS
<1>2. PICK g : IsLoop(g, kind, m, regs, a)
  BY Loop
<1>3. /\ Rank(regs, 0) = 0 /\ Rank(regs, NoReg) = Cardinality(regs)
      /\ \A r \in 0..NoReg : Rank(regs, r) \in Nat
      /\ \A r \in 0..15 : Rank(regs, r + 1) = IF r \in regs THEN Rank(regs, r) + 1 ELSE Rank(regs, r)
  BY RankFacts
<1>4. a \in Int /\ Regs \subseteq 0..15
  BY Ranges, RegFacts DEF Words
<1> DEFINE So(k) == g[k].a = Plus(a, 4 * Rank(regs, k)) /\ g[k].m = Loaded(m, regs, a, k)
           S == {k \in Nat : k \in 0..NoReg => So(k)}
<1>5. 0 \in S
  <2>1. Loaded(m, regs, a, 0) = m
    <3>1. \A r \in Regs : ~(r < 0)
      BY <1>4
    <3>2. [r \in Regs |-> IF r \in regs /\ r < 0 THEN LoadWord(m, Slot(regs, a, r)) ELSE m.regs[r]]
            = m.regs
      BY <3>1 DEF Machine
    <3> QED  BY <3>2 DEF Loaded, Machine
  <2>2. Plus(a, 4 * Rank(regs, 0)) = a
    BY <1>3, PlusZero
  <2>3. g[0].m = m /\ g[0].a = a
    BY <1>2 DEF IsLoop
  <2> QED  BY <2>1, <2>2, <2>3
<1>6. ASSUME NEW k \in Nat, k \in S PROVE k + 1 \in S
  <2> SUFFICES ASSUME k + 1 \in 0..NoReg PROVE So(k + 1)
    <3> HIDE DEF So
    <3> QED  OBVIOUS
  <2>1. k \in 0..15 /\ k \in 0..NoReg
    BY RegFacts
  <2>2. So(k)
    BY <1>6, <2>1
  <2>3. PICK t \in Machine, b \in Words : t = g[k].m /\ b = g[k].a
    BY <1>2, <2>1 DEF Blocks, IsLoop
  <2>4. t = Loaded(m, regs, a, k) /\ b = Plus(a, 4 * Rank(regs, k))
    BY <2>2, <2>3
  <2>5. CASE k \in regs
    <3>1. g[k + 1] = LoadNext(g[k], k)
      BY <1>1, <1>2, <2>1, <2>5 DEF NextBlock, IsLoop
    <3>2. g[k + 1].m = SetReg(t, k, LoadWord(t, b)) /\ g[k + 1].a = Plus(b, 4)
      BY <2>3, <3>1 DEF LoadNext
    <3>3. b = Slot(regs, a, k)
      BY <2>4 DEF Slot
    <3>4. PICK w : w = LoadWord(m, b)
      OBVIOUS
    <3>5. LoadWord(t, b) = w
      <4>1. t.mem = m.mem
        BY <2>4 DEF Loaded, Machine
      <4> QED  BY <3>4, <4>1 DEF LoadWord
    <3>6. PICK f, h : /\ f = [r \in Regs |-> IF r \in regs /\ r < k THEN LoadWord(m, Slot(regs, a, r)) ELSE m.regs[r]]
                      /\ h = [r \in Regs |-> IF r \in regs /\ r < k + 1 THEN LoadWord(m, Slot(regs, a, r)) ELSE m.regs[r]]
      OBVIOUS
    <3>7. [f EXCEPT ![k] = w] = h
      <4>1. \A r \in Regs : (r < k + 1 <=> r < k \/ r = k)
        BY <1>4
      <4>2. ASSUME NEW r \in Regs PROVE [f EXCEPT ![k] = w][r] = h[r]
        <5>1. CASE r = k
          BY <2>5, <3>3, <3>4, <3>6, <4>1, <5>1
        <5>2. CASE r # k
          BY <3>6, <4>1, <5>2
        <5> QED  BY <5>1, <5>2
      <4>3. DOMAIN f = Regs /\ DOMAIN h = Regs
        BY <3>6
      <4>4. h = [r \in Regs |-> h[r]] /\ [f EXCEPT ![k] = w] = [r \in Regs |-> [f EXCEPT ![k] = w][r]]
        BY <3>6
      <4> QED  BY <4>2, <4>4
    <3>8. t = [m EXCEPT !.regs = f] /\ Loaded(m, regs, a, k + 1) = [m EXCEPT !.regs = h]
      BY <2>4, <3>6 DEF Loaded
    <3>9. SetReg(t, k, w) = Loaded(m, regs, a, k + 1)
      BY <3>7, <3>8 DEF SetReg, Machine
    <3>10. Plus(b, 4) = Plus(a, 4 * Rank(regs, k + 1))
      <4>1. PICK j \in Nat : j = Rank(regs, k) /\ j + 1 = Rank(regs, k + 1)
        BY <1>3, <2>1, <2>5
      <4>2. PICK c \in Int, d \in Int, e \in Int : c = 4 * j /\ d = 4 /\ c + d = 4 * (j + 1) /\ e = a
        BY <1>4
      <4>3. Plus(Plus(e, c), d) = Plus(e, c + d)
        BY PlusPlus
      <4> QED  BY <2>4, <4>1, <4>2, <4>3
    <3> QED  BY <3>2, <3>5, <3>9, <3>10
  <2>6. CASE k \notin regs
    <3>1. g[k + 1] = g[k] /\ Rank(regs, k + 1) = Rank(regs, k)
      BY <1>2, <1>3, <2>1, <2>6 DEF IsLoop
    <3>2. Loaded(m, regs, a, k + 1) = Loaded(m, regs, a, k)
      <4>1. \A r \in Regs : r \in regs /\ r < k + 1 <=> r \in regs /\ r < k
        BY <1>4, <2>6
      <4>2. [r \in Regs |-> IF r \in regs /\ r < k THEN LoadWord(m, Slot(regs, a, r)) ELSE m.regs[r]]
            = [r \in Regs |-> IF r \in regs /\ r < k + 1 THEN LoadWord(m, Slot(regs, a, r)) ELSE m.regs[r]]
        BY <4>1
      <4> QED  BY <4>2 DEF Loaded
    <3> QED  BY <2>2, <3>1, <3>2
  <2> QED  BY <2>5, <2>6
<1>7. So(NoReg)
  <2>1. NoReg \in Nat /\ NoReg \in 0..NoReg
    BY RegFacts
  <2>2. NoReg \in S
    <3> HIDE DEF S
    <3> QED  BY <1>5, <1>6, <2>1, Induction
  <2> QED  BY <2>1, <2>2
<1>8. Loaded(m, regs, a, NoReg) = LoadBlock(m, regs, a)
  <2>1. \A r \in Regs : r < NoReg
    BY <1>4, RegFacts
  <2>2. [r \in Regs |-> IF r \in regs /\ r < NoReg THEN LoadWord(m, Slot(regs, a, r)) ELSE m.regs[r]]
          = [r \in Regs |-> IF r \in regs THEN LoadWord(m, Slot(regs, a, r)) ELSE m.regs[r]]
    BY <2>1
  <2> QED  BY <2>2 DEF Loaded, LoadBlock
<1>9. LoadEach(m, regs, a) = g[NoReg]
  BY <1>1, <1>2 DEF IsLoop
<1> QED  BY <1>3, <1>7, <1>8, <1>9

-----------------------------------------------------------------------------
(* The instructions on blocks.                                             *)

\* What lies below the registers above the low ones.
Below(low, list, high) ==
  high \in {Lr, Pc} /\ list \subseteq LowRegs \cup {high} /\ low = list \ {high}

Ranked(low, list, high) ==
  /\ low \in SUBSET Regs /\ list \in SUBSET Regs /\ {high} \in SUBSET Regs
  /\ \A r \in low : Rank(low, r) = Rank(list, r)
  /\ Rank(list, high) = Cardinality(low) /\ Rank({high}, high) = 0
  /\ high \in list => Cardinality(list) = Cardinality(low) + 1

LEMMA RankBelow ==
  ASSUME NEW low, NEW list, NEW high, Below(low, list, high)
  PROVE  Ranked(low, list, high)
<1>0. list \subseteq LowRegs \cup {high} /\ low = list \ {high}
  BY DEF Below
<1>1. LowRegs \subseteq 0..7 /\ high \in 14..15 /\ high \notin LowRegs
  BY RunnerAssumption DEF Below, Lr, Pc
<1>2. low \in SUBSET Regs /\ list \in SUBSET Regs /\ {high} \in SUBSET Regs
  BY <1>0, RegFacts DEF Below
<1>3. ASSUME NEW r \in low PROVE Rank(low, r) = Rank(list, r)
  <2>1. \A q \in list : q < r => q # high
    BY <1>0, <1>1, <1>3
  <2>2. {q \in low : q < r} = {q \in list : q < r}
    BY <1>0, <2>1
  <2> QED  BY <2>2 DEF Rank
<1>4. Rank(list, high) = Cardinality(low)
  <2>1. \A q \in list : (q < high <=> q # high)
    BY <1>0, <1>1
  <2>2. {q \in list : q < high} = low
    BY <1>0, <2>1
  <2> QED  BY <2>2 DEF Rank
<1>5. Rank({high}, high) = 0
  <2>1. {q \in {high} : q < high} = {}
    BY <1>1
  <2> QED  BY <2>1, FS_EmptySet DEF Rank
<1>6. ASSUME high \in list PROVE Cardinality(list) = Cardinality(low) + 1
  <2>1. Rank(list, high + 1) = Rank(list, high) + 1
    BY <1>1, <1>2, <1>6, RankFacts
  <2>2. \A q \in list : q < high + 1
    BY <1>0, <1>1
  <2>3. {q \in list : q < high + 1} = list
    BY <2>2
  <2> QED  BY <1>4, <2>1, <2>3 DEF Rank
<1> QED  BY <1>2, <1>3, <1>4, <1>5, <1>6 DEF Ranked

LEMMA PushBlock ==
  ASSUME NEW m \in Machine, NEW i, i.list \subseteq LowRegs \cup {Lr}, m.regs[Sp] % 4 = 0,
         NEW sp, sp = Plus(m.regs[Sp], -4 * Cardinality(i.list)),
         \A r \in i.list : ~In("io", Slot(i.list, sp, r))
  PROVE  Push(m, i) = SetReg(StoreBlock(m, i.list, sp), Sp, sp)
<1>1. PICK high \in {Lr, Pc} : high = Lr
  OBVIOUS
<1>2. PICK list \in SUBSET (LowRegs \cup {high}) : list = i.list
  BY <1>1
<1>3. PICK low : low = list \ {high}
  OBVIOUS
<1>4. /\ low \in SUBSET Regs /\ list \in SUBSET Regs /\ {high} \in SUBSET Regs
      /\ \A r \in low : Rank(low, r) = Rank(list, r)
      /\ Rank(list, high) = Cardinality(low) /\ Rank({high}, high) = 0
  <2>1. Below(low, list, high)
    BY <1>3 DEF Below
  <2>2. Ranked(low, list, high)
    BY <2>1, RankBelow
  <2> QED  BY <2>2 DEF Ranked
<1>5. sp \in Words /\ sp % 4 = 0
  <2>1. PICK k \in Nat : k = Cardinality(list)
    BY <1>4, RankFacts, RegFacts
  <2>2. PICK b \in Int, n \in Int : b = m.regs[Sp] /\ n = -4 * k /\ n % 4 = 0
    BY ReadRegType, RegFacts
  <2>3. Plus(b, n) \in Words /\ Plus(b, n) % 4 = 0
    BY <2>2, PlusType, PlusAligned
  <2> QED  BY <1>2, <2>1, <2>2, <2>3
<1>6. PICK s : s = [r \in list |-> Slot(list, sp, r)]
  OBVIOUS
<1>7. SlotsOf(s, list)
  BY <1>2, <1>4, <1>5, <1>6, SlotFacts
<1>8. PICK none : none = {}
  OBVIOUS
<1>9. Partly(m, m, list, s, none)
  BY <1>7, <1>8, PartlyNone
<1>10. PICK t : t = StoreEach(m, low, sp)
  OBVIOUS
<1>11. t.m \in Machine /\ t.a = Plus(sp, 4 * Cardinality(low)) /\ Partly(m, t.m, list, s, low)
  <2>1. none \in SUBSET list /\ low \in SUBSET (list \ none) /\ none \cup low = low
    BY <1>3, <1>8
  <2>2. \A r \in low : s[r] = Plus(sp, 4 * Rank(low, r))
    BY <1>3, <1>4, <1>6 DEF Slot
  <2>3. Follow(low, list, s, none, sp)
    BY <2>1, <2>2 DEF Follow
  <2>4. t.m \in Machine /\ t.a = Plus(sp, 4 * Cardinality(low)) /\ Partly(m, t.m, list, s, none \cup low)
    <3>1. PICK n \in Machine : n = m
      OBVIOUS
    <3>2. Partly(m, n, list, s, none)
      BY <1>9, <3>1
    <3>3. Stored(m, StoreEach(n, low, sp), low, list, s, none, sp)
      BY <1>4, <1>5, <2>3, <3>2, StoreLoop
    <3> QED  BY <1>10, <3>1, <3>3 DEF Stored
  <2> QED  BY <2>1, <2>4
<1>12. PICK n \in Machine, a \in Words : n = t.m /\ a = t.a
  <2>1. t \in Blocks
    BY <1>4, <1>5, <1>10, LoopType
  <2> QED  BY <2>1 DEF Blocks
<1>13. PICK top : top = list \cap {high}
  OBVIOUS
<1>14. PICK u : u = StoreEach(n, top, a)
  OBVIOUS
<1>15. /\ low \in SUBSET list /\ top \in SUBSET (list \ low) /\ low \cup top = list
       /\ top \in SUBSET Regs
  BY <1>3, <1>4, <1>13
<1>16. \A r \in top : s[r] = Plus(a, 4 * Rank(top, r))
  <2> SUFFICES ASSUME NEW r \in top PROVE s[r] = Plus(a, 4 * Rank(top, r))
    OBVIOUS
  <2>1. top = {high} /\ r = high /\ high \in list
    BY <1>13
  <2>2. s[high] = Plus(sp, 4 * Cardinality(low))
    BY <1>4, <1>6, <2>1 DEF Slot
  <2>3. Plus(a, 0) = a
    BY PlusZero
  <2> QED  BY <1>4, <1>11, <1>12, <2>1, <2>2, <2>3
<1>17. Partly(m, n, list, s, low)
  BY <1>11, <1>12
<1>18. Partly(m, u.m, list, s, list)
  <2>1. Follow(top, list, s, low, a)
    BY <1>15, <1>16 DEF Follow
  <2>2. Stored(m, StoreEach(n, top, a), top, list, s, low, a)
    BY <1>4, <1>15, <1>17, <2>1, StoreLoop
  <2> QED  BY <1>14, <1>15, <2>2 DEF Stored
<1>19. u.m = StoreBlock(m, list, sp)
  BY <1>4, <1>6, <1>18, StoreBlockIs
<1> QED  BY <1>1, <1>2, <1>3, <1>10, <1>12, <1>13, <1>14, <1>19 DEF Push

LEMMA PopBlock ==
  ASSUME NEW m \in Machine, NEW i, i.list \subseteq LowRegs \cup {Pc},
         NEW loaded, loaded = LoadBlock(m, i.list, m.regs[Sp])
  PROVE  Pop(m, i) = SetReg(IF Pc \in i.list THEN BranchExchange(loaded, loaded.regs[Pc])
                            ELSE loaded,
                            Sp, Plus(m.regs[Sp], 4 * Cardinality(i.list)))
<1>1. PICK high \in {Lr, Pc} : high = Pc
  OBVIOUS
<1>2. PICK list \in SUBSET (LowRegs \cup {high}) : list = i.list
  BY <1>1
<1>3. PICK low : low = list \ {high}
  OBVIOUS
<1>4. /\ low \in SUBSET Regs /\ list \in SUBSET Regs
      /\ \A r \in low : Rank(low, r) = Rank(list, r)
      /\ Rank(list, high) = Cardinality(low)
      /\ high \in list => Cardinality(list) = Cardinality(low) + 1
  <2>1. Below(low, list, high)
    BY <1>3 DEF Below
  <2>2. Ranked(low, list, high)
    BY <2>1, RankBelow
  <2> QED  BY <2>2 DEF Ranked
<1>5. PICK sp \in Words : sp = m.regs[Sp]
  BY ReadRegType, RegFacts
<1>6. PICK t : t = LoadEach(m, low, sp)
  OBVIOUS
<1>7. t.m = LoadBlock(m, low, sp) /\ t.a = Plus(sp, 4 * Cardinality(low))
  BY <1>4, <1>6, LoadLoop
<1>8. CASE high \in list
  <2>1. PICK w : w = LoadWord(m, t.a)
    OBVIOUS
  <2>2. LoadWord(t.m, t.a) = w
    <3>1. t.m.mem = m.mem
      BY <1>7 DEF LoadBlock, Machine
    <3> QED  BY <2>1, <3>1 DEF LoadWord
  <2>3. loaded.regs[Pc] = w
    <3>1. Slot(list, sp, high) = t.a
      BY <1>4, <1>7 DEF Slot
    <3> QED  BY <1>1, <1>2, <1>5, <1>8, <2>1, <3>1, RegFacts DEF LoadBlock, Machine
  <2>4. BranchExchange(t.m, w) = BranchExchange(loaded, w)
    <3>1. PICK f, h, v :
            /\ f = [r \in Regs |-> IF r \in low THEN LoadWord(m, Slot(low, sp, r)) ELSE m.regs[r]]
            /\ h = [r \in Regs |-> IF r \in list THEN LoadWord(m, Slot(list, sp, r)) ELSE m.regs[r]]
            /\ v = w - (w % 2)
      OBVIOUS
    <3>2. [f EXCEPT ![Pc] = v] = [h EXCEPT ![Pc] = v]
      <4>1. ASSUME NEW r \in Regs, r # Pc PROVE f[r] = h[r]
        <5>1. r \in low <=> r \in list
          BY <1>1, <1>3, <4>1
        <5>2. r \in low => Slot(low, sp, r) = Slot(list, sp, r)
          BY <1>4 DEF Slot
        <5> QED  BY <3>1, <5>1, <5>2
      <4>2. \A r \in Regs : [f EXCEPT ![Pc] = v][r] = [h EXCEPT ![Pc] = v][r]
        BY <3>1, <4>1
      <4>3. /\ [f EXCEPT ![Pc] = v] = [r \in Regs |-> [f EXCEPT ![Pc] = v][r]]
            /\ [h EXCEPT ![Pc] = v] = [r \in Regs |-> [h EXCEPT ![Pc] = v][r]]
        BY <3>1
      <4> QED  BY <4>2, <4>3
    <3>3. t.m = [m EXCEPT !.regs = f] /\ loaded = [m EXCEPT !.regs = h]
      BY <1>2, <1>5, <1>7, <3>1 DEF LoadBlock
    <3>4. /\ BranchExchange(t.m, w) = [m EXCEPT !.thumb = w % 2 = 1, !.regs = [f EXCEPT ![Pc] = v]]
          /\ BranchExchange(loaded, w) = [m EXCEPT !.thumb = w % 2 = 1, !.regs = [h EXCEPT ![Pc] = v]]
      BY <3>1, <3>3 DEF BranchExchange, Machine
    <3> QED  BY <3>2, <3>4
  <2>5. Plus(t.a, 4) = Plus(sp, 4 * Cardinality(list))
    <3>1. PICK k \in Nat : k = Cardinality(low) /\ Cardinality(list) = k + 1
      BY <1>4, <1>8, RankFacts, RegFacts
    <3>2. PICK c \in Int, d \in Int, e \in Int : c = 4 * k /\ d = 4 /\ c + d = 4 * (k + 1) /\ e = sp
      BY Ranges DEF Words
    <3>3. Plus(Plus(e, c), d) = Plus(e, c + d)
      BY PlusPlus
    <3> QED  BY <1>7, <3>1, <3>2, <3>3
  <2>6. Pop(m, i) = SetReg(BranchExchange(t.m, w), Sp, Plus(t.a, 4))
    BY <1>1, <1>2, <1>3, <1>5, <1>6, <1>8, <2>2 DEF Pop
  <2> QED  BY <1>1, <1>2, <1>5, <1>8, <2>3, <2>4, <2>5, <2>6
<1>9. CASE high \notin list
  <2>1. low = list
    BY <1>3, <1>9
  <2> QED  BY <1>1, <1>2, <1>3, <1>5, <1>6, <1>7, <1>9, <2>1 DEF Pop
<1> QED  BY <1>8, <1>9

LEMMA StmiaBlock ==
  ASSUME NEW m \in Machine, NEW i, i.list \in SUBSET Regs, i.rn \in Regs, m.regs[i.rn] % 4 = 0,
         \A r \in i.list : ~In("io", Slot(i.list, m.regs[i.rn], r))
  PROVE  Stmia(m, i) = SetReg(StoreBlock(m, i.list, m.regs[i.rn]), i.rn,
                              Plus(m.regs[i.rn], 4 * Cardinality(i.list)))
<1>1. PICK list \in SUBSET Regs, a \in Words : list = i.list /\ a = m.regs[i.rn]
  BY ReadRegType
<1>2. PICK s : s = [r \in list |-> Slot(list, a, r)]
  OBVIOUS
<1>3. SlotsOf(s, list)
  BY <1>1, <1>2, SlotFacts
<1>4. PICK none : none = {}
  OBVIOUS
<1>5. Partly(m, m, list, s, none)
  BY <1>3, <1>4, PartlyNone
<1>6. PICK t : t = StoreEach(m, list, a)
  OBVIOUS
<1>7. none \in SUBSET list /\ list \in SUBSET (list \ none) /\ none \cup list = list
  BY <1>4
<1>8. \A r \in list : s[r] = Plus(a, 4 * Rank(list, r))
  BY <1>2 DEF Slot
<1>9. t.a = Plus(a, 4 * Cardinality(list)) /\ Partly(m, t.m, list, s, list)
  <2>1. Follow(list, list, s, none, a)
    BY <1>7, <1>8 DEF Follow
  <2>2. t.a = Plus(a, 4 * Cardinality(list)) /\ Partly(m, t.m, list, s, none \cup list)
    <3>1. PICK n \in Machine : n = m
      OBVIOUS
    <3>2. Partly(m, n, list, s, none)
      BY <1>5, <3>1
    <3>3. Stored(m, StoreEach(n, list, a), list, list, s, none, a)
      BY <2>1, <3>2, StoreLoop
    <3> QED  BY <1>6, <3>1, <3>3 DEF Stored
  <2> QED  BY <1>7, <2>2
<1>10. t.m = StoreBlock(m, list, a)
  BY <1>2, <1>9, StoreBlockIs
<1> QED  BY <1>1, <1>6, <1>9, <1>10 DEF Stmia

LEMMA LdmiaBlock ==
  ASSUME NEW m \in Machine, NEW i, i.list \in SUBSET Regs, i.rn \in Regs
  PROVE  Ldmia(m, i) = SetReg(LoadBlock(m, i.list, m.regs[i.rn]), i.rn,
                              Plus(m.regs[i.rn], 4 * Cardinality(i.list)))
<1>1. PICK list \in SUBSET Regs, a \in Words : list = i.list /\ a = m.regs[i.rn]
  BY ReadRegType
<1>2. PICK t : t = LoadEach(m, list, a)
  OBVIOUS
<1>3. t.m = LoadBlock(m, list, a) /\ t.a = Plus(a, 4 * Cardinality(list))
  BY <1>2, LoadLoop
<1> QED  BY <1>1, <1>2, <1>3 DEF Ldmia

\* A block without the link register is the same whatever that holds.
LEMMA BlockLr ==
  ASSUME NEW m \in Machine, NEW list, Lr \notin list, NEW a, NEW x \in Words
  PROVE  /\ StoreBlock(SetReg(m, Lr, x), list, a) = SetReg(StoreBlock(m, list, a), Lr, x)
         /\ StoreBlock(m, list, a).regs[Lr] = m.regs[Lr]
         /\ LoadBlock(SetReg(m, Lr, x), list, a) = SetReg(LoadBlock(m, list, a), Lr, x)
         /\ LoadBlock(m, list, a).regs[Lr] = m.regs[Lr]
<1>1. PICK n \in Machine :
        /\ n = SetReg(m, Lr, x) /\ n.mem = m.mem
        /\ \A r \in Regs \ {Lr} : n.regs[r] = m.regs[r]
  BY SetRegFields, RegFacts
<1>2. n.regs[Lr] = x
  BY <1>1, SetRegFields, RegFacts
<1>s. \A r \in list : n.regs[r] = m.regs[r]
  <2>1. ASSUME NEW r \in list PROVE n.regs[r] = m.regs[r]
    <3>1. r # Lr
      OBVIOUS
    <3> QED  BY <1>1, <3>1 DEF SetReg, Machine
  <2> QED  BY <2>1
<1>3. StoreBlock(n, list, a).mem = StoreBlock(m, list, a).mem
  <2> DEFINE held == {r \in list : \E k \in {"ewram", "iwram"} : In(k, Slot(list, a, r))}
             Here(y) == {r \in held : y \in {Slot(list, a, r), Slot(list, a, r) + 2}}
             Half(t, y, r) == IF y = Slot(list, a, r) THEN t.regs[r] % HalfRange
                              ELSE t.regs[r] \div HalfRange
             Cell(t, y) == IF Here(y) = {} THEN t.mem[y] ELSE Half(t, y, CHOOSE r \in Here(y) : TRUE)
  <2>1. ASSUME NEW y PROVE Cell(n, y) = Cell(m, y)
    <3>1. CASE Here(y) = {}
      <4> HIDE DEF Here, Half
      <4> QED  BY <1>1, <3>1
    <3>2. CASE Here(y) # {}
      <4>1. PICK r : r = CHOOSE q \in Here(y) : TRUE
        OBVIOUS
      <4>2. r \in Here(y)
        BY <3>2, <4>1
      <4>3. Half(n, y, r) = Half(m, y, r)
        BY <1>s, <4>2
      <4>4. Cell(n, y) = Half(n, y, r) /\ Cell(m, y) = Half(m, y, r)
        <5> HIDE DEF Here, Half
        <5> QED  BY <3>2, <4>1, Zenon
      <4> HIDE DEF Here, Half, Cell
      <4> QED  BY <4>3, <4>4
    <3> HIDE DEF Here, Half, Cell
    <3> QED  BY <3>1, <3>2
  <2>2. /\ StoreBlock(n, list, a).mem = [y \in DOMAIN n.mem |-> Cell(n, y)]
        /\ StoreBlock(m, list, a).mem = [y \in DOMAIN m.mem |-> Cell(m, y)]
    BY DEF StoreBlock, Machine
  <2> HIDE DEF Here, Half, Cell
  <2>3. [y \in DOMAIN n.mem |-> Cell(n, y)] = [y \in DOMAIN m.mem |-> Cell(m, y)]
    BY <1>1, <2>1
  <2> QED  BY <2>2, <2>3
<1>4. PICK mem : mem = StoreBlock(m, list, a).mem
  OBVIOUS
<1>5. StoreBlock(m, list, a) = [m EXCEPT !.mem = mem] /\ StoreBlock(n, list, a) = [n EXCEPT !.mem = mem]
  BY <1>3, <1>4 DEF StoreBlock, Machine
<1>6. PICK f, h :
        /\ f = [r \in Regs |-> IF r \in list THEN LoadWord(m, Slot(list, a, r)) ELSE m.regs[r]]
        /\ h = [r \in Regs |-> IF r \in list THEN LoadWord(n, Slot(list, a, r)) ELSE n.regs[r]]
  OBVIOUS
<1>7. h = [f EXCEPT ![Lr] = x] /\ f[Lr] = m.regs[Lr]
  <2>1. \A b : LoadWord(n, b) = LoadWord(m, b)
    BY <1>1 DEF LoadWord
  <2>2. ASSUME NEW r \in Regs PROVE h[r] = [f EXCEPT ![Lr] = x][r]
    BY <1>1, <1>2, <1>6, <2>1
  <2>3. h = [r \in Regs |-> h[r]] /\ [f EXCEPT ![Lr] = x] = [r \in Regs |-> [f EXCEPT ![Lr] = x][r]]
    BY <1>6
  <2>4. f[Lr] = m.regs[Lr]
    BY <1>6, RegFacts
  <2> QED  BY <2>2, <2>3, <2>4
<1>8. LoadBlock(m, list, a) = [m EXCEPT !.regs = f] /\ LoadBlock(n, list, a) = [n EXCEPT !.regs = h]
  BY <1>6 DEF LoadBlock
<1>9. [n EXCEPT !.regs = [f EXCEPT ![Lr] = x]] = SetReg([m EXCEPT !.regs = f], Lr, x)
  BY <1>1 DEF SetReg, Machine
<1>10. [n EXCEPT !.mem = mem] = SetReg([m EXCEPT !.mem = mem], Lr, x)
  BY <1>1 DEF SetReg, Machine
<1>11. [m EXCEPT !.mem = mem].regs[Lr] = m.regs[Lr] /\ [m EXCEPT !.regs = f].regs[Lr] = f[Lr]
  BY DEF Machine
<1> QED  BY <1>1, <1>5, <1>7, <1>8, <1>9, <1>10, <1>11

LEMMA BlockType ==
  ASSUME NEW m \in Machine, NEW list \in SUBSET Regs, NEW a
  PROVE  StoreBlock(m, list, a) \in Machine /\ LoadBlock(m, list, a) \in Machine
<1>1. LoadBlock(m, list, a) \in Machine
  <2>1. \A r \in Regs : LoadWord(m, Slot(list, a, r)) \in Words /\ m.regs[r] \in Words
    BY LoadWordType, ReadRegType
  <2>2. PICK f \in [Regs -> Words] :
          f = [r \in Regs |-> IF r \in list THEN LoadWord(m, Slot(list, a, r)) ELSE m.regs[r]]
    BY <2>1
  <2> QED  BY <2>2 DEF LoadBlock, Machine
<1>2. StoreBlock(m, list, a) \in Machine
  <2> DEFINE held == {r \in list : \E k \in {"ewram", "iwram"} : In(k, Slot(list, a, r))}
             Here(y) == {r \in held : y \in {Slot(list, a, r), Slot(list, a, r) + 2}}
             Half(y, r) == IF y = Slot(list, a, r) THEN m.regs[r] % HalfRange
                           ELSE m.regs[r] \div HalfRange
             Cell(y) == IF Here(y) = {} THEN m.mem[y] ELSE Half(y, CHOOSE r \in Here(y) : TRUE)
  <2>1. ASSUME NEW y \in Cells PROVE Cell(y) \in Halfwords
    <3>1. CASE Here(y) = {}
      <4>1. m.mem[y] \in Halfwords
        BY DEF Machine, Mem
      <4> HIDE DEF Here, Half
      <4> QED  BY <3>1, <4>1
    <3>2. CASE Here(y) # {}
      <4>1. PICK r : r = CHOOSE q \in Here(y) : TRUE
        OBVIOUS
      <4>2. r \in Here(y)
        BY <3>2, <4>1
      <4>3. r \in Regs
        BY <4>2
      <4>4. Half(y, r) \in Halfwords
        BY <4>3, ReadRegType, WordHalves
      <4>5. Cell(y) = Half(y, r)
        <5> HIDE DEF Here, Half
        <5> QED  BY <3>2, <4>1, Zenon
      <4> HIDE DEF Here, Half, Cell
      <4> QED  BY <4>4, <4>5
    <3> HIDE DEF Here, Half, Cell
    <3> QED  BY <3>1, <3>2
  <2>2. StoreBlock(m, list, a) = [m EXCEPT !.mem = [y \in DOMAIN m.mem |-> Cell(y)]]
    BY DEF StoreBlock
  <2> HIDE DEF Here, Half, Cell
  <2>3. [y \in DOMAIN m.mem |-> Cell(y)] \in Mem
    BY <2>1 DEF Machine, Mem
  <2> QED  BY <2>2, <2>3, WithMemType
<1> QED  BY <1>1, <1>2

-----------------------------------------------------------------------------
(* A step of the runner beside one of the reference.                       *)

\* What a comparison leaves in the link register is what Z and C are read from.
LEMMA SetCmpFlags ==
  ASSUME NEW m \in Machine, NEW lhs, NEW rhs
  PROVE  LET t == SetCmp(m, lhs, rhs)
         IN  /\ \E v \in Words : t = SetReg(m, Lr, v)
             /\ Z(t) = (lhs = rhs) /\ C(t) = (lhs >= rhs)
<1>1. PICK c \in Nat : c = 2 ^ CBit /\ 2 ^ ZBit = 2 * c /\ c > 0 /\ WordRange = 8 * c
  BY Ranges
<1>2. PICK v \in Words :
        v = (IF lhs = rhs THEN 2 ^ ZBit ELSE 0) + (IF lhs >= rhs THEN 2 ^ CBit ELSE 0)
  BY <1>1 DEF Words
<1>3. SetCmp(m, lhs, rhs) = SetReg(m, Lr, v)
  BY <1>2 DEF SetCmp
<1>4. SetReg(m, Lr, v).regs[Lr] = v
  BY SetRegFields, RegFacts
<1>5. PICK x \in 0..1, y \in 0..1 :
        x = (IF lhs = rhs THEN 1 ELSE 0) /\ y = (IF lhs >= rhs THEN 1 ELSE 0)
  OBVIOUS
<1>6. v = (2 * x + y) * c
  BY <1>1, <1>2, <1>5
<1>7. v \div (2 * c) = x
  <2>0. PICK d \in Nat : d = 2 * c
    OBVIOUS
  <2>1. PICK r \in 0..(d - 1) : d = 2 * c /\ r = y * c
    BY <1>1, <2>0
  <2>2. v \in Int /\ v = x * d + r
    BY <1>6, <2>1
  <2>3. v \div d = x
    BY <2>2, DivisionUnique
  <2> QED  BY <2>1, <2>3
<1>8. v \div c = 2 * x + y
  <2>1. PICK q \in Int, r \in 0..(c - 1) : q = 2 * x + y /\ r = 0
    BY <1>1
  <2>2. v \in Int /\ v = q * c + r
    BY <1>6, <2>1
  <2>3. v \div c = q
    BY <2>2, DivisionUnique
  <2> QED  BY <2>1, <2>3
<1>9. (2 * x + y) % 2 = y /\ x % 2 = x
  OBVIOUS
<1>10. Bit(v, ZBit) = (lhs = rhs) /\ Bit(v, CBit) = (lhs >= rhs)
  BY <1>1, <1>5, <1>7, <1>8, <1>9 DEF Bit
<1> QED  BY <1>3, <1>4, <1>10 DEF Z, C

Straight == (ThumbOps \cup ArmOps) \ {"cmp", "tst", "bcond"}

LEMMA OpsApart ==
  /\ ArmOps \cap ThumbOps = {} /\ "other" \notin ArmOps \cup ThumbOps
  /\ \A op \in Straight : \/ op \in ArmOps \/ op \in PlainOps
                          \/ op \in {"push", "pop", "stmia", "ldmia"}
  BY DEF Straight, PlainOps, ArmOps, ThumbOps, HighOps

\* No word of the instruction's block goes to the I/O page.
Clear(m, i) ==
  i.op \in {"push", "stmia"} =>
    LET a == IF i.op = "push" THEN Plus(m.regs[Sp], -4 * Cardinality(i.list)) ELSE m.regs[i.rn]
    IN  \A r \in i.list : ~In("io", Slot(i.list, a, r))

LEMMA ListFacts ==
  ASSUME NEW i, Decoded(i)
  PROVE  /\ i.list \in SUBSET Regs /\ Cardinality(i.list) \in Nat
         /\ i.op = "push" => i.list \subseteq LowRegs \cup {Lr}
         /\ i.op = "pop" => i.list \subseteq LowRegs \cup {Pc} /\ Lr \notin i.list
         /\ i.op \in {"stmia", "ldmia"} => i.rn \in Regs \ {Lr, Pc} /\ Lr \notin i.list
<1>1. i.list \in SUBSET Regs /\ Cardinality(i.list) \in Nat
  BY ListType
<1>2. i.op = "push" => i.list \subseteq LowRegs \cup {Lr}
  BY DEF Decoded
<1>3. i.op = "pop" => i.list \subseteq LowRegs \cup {Pc}
  BY DEF Decoded
<1>4. i.op \in {"stmia", "ldmia"} => i.list \subseteq LowRegs /\ i.rn \in LowRegs
  BY DEF Decoded
<1> QED  BY <1>1, <1>2, <1>3, <1>4, RegFacts

\* With the same link register both do the same.
LEMMA StepSame ==
  ASSUME NEW m \in Machine, NEW i, Decoded(i), i.op \in Straight, Aligned(m, i), Clear(m, i)
  PROVE  Step(m, i) = ThumbStep(m, i)
<1>1. PICK next \in Machine, pc \in Int :
        next = Fetch(m) /\ pc = m.regs[Pc] /\ \A r \in Regs \ {Pc} : next.regs[r] = m.regs[r]
  <2>1. Fetch(m) \in Machine /\ m.regs[Pc] \in Int
    BY FetchType, ReadRegType, RegFacts
  <2>2. \A r \in Regs \ {Pc} : Fetch(m).regs[r] = m.regs[r]
    <3>1. PICK x \in Words : x = 0
      BY Ranges DEF Words
    <3> QED  BY FetchLr
  <2> QED  BY <2>1, <2>2
<1>2. next.regs[Sp] = m.regs[Sp]
  BY <1>1, RegFacts
<1>3. CASE i.op \in ArmOps
  BY <1>1, <1>3 DEF Step, ThumbStep
<1>4. CASE i.op \in PlainOps
  <2>1. i.op \notin ArmOps \cup {"cmp", "tst", "bcond", "push", "pop", "stmia", "ldmia"}
    BY <1>4, OpsApart DEF PlainOps
  <2> QED  BY <1>1, <2>1 DEF Step, ThumbStep
<1>5. CASE i.op = "push"
  <2>1. PICK sp : sp = Plus(m.regs[Sp], -4 * Cardinality(i.list))
    OBVIOUS
  <2>2. /\ i.list \subseteq LowRegs \cup {Lr} /\ next.regs[Sp] % 4 = 0
        /\ sp = Plus(next.regs[Sp], -4 * Cardinality(i.list))
        /\ \A r \in i.list : ~In("io", Slot(i.list, sp, r))
    BY <1>2, <1>5, <2>1, ListFacts DEF Aligned, Clear
  <2>3. Push(next, i) = SetReg(StoreBlock(next, i.list, sp), Sp, sp)
    BY <2>2, PushBlock
  <2>4. sp = Plus(m.regs[Sp], -(4 * Cardinality(i.list)))
    BY <2>1, ListFacts
  <2>5. Step(m, i) = Push(next, i)
    BY <1>1, <1>5 DEF Step, ArmOps
  <2>6. ThumbStep(m, i) = SetReg(StoreBlock(next, i.list, sp), Sp, sp)
    BY <1>1, <1>5, <2>4 DEF ThumbStep, ArmOps
  <2> QED  BY <2>3, <2>5, <2>6
<1>6. CASE i.op = "pop"
  <2>1. PICK loaded : loaded = LoadBlock(next, i.list, next.regs[Sp])
    OBVIOUS
  <2>2. Pop(next, i) = SetReg(IF Pc \in i.list THEN BranchExchange(loaded, loaded.regs[Pc])
                              ELSE loaded,
                              Sp, Plus(next.regs[Sp], 4 * Cardinality(i.list)))
    BY <1>6, <2>1, ListFacts, PopBlock
  <2>3. Step(m, i) = Pop(next, i)
    BY <1>1, <1>6 DEF Step, ArmOps
  <2> QED  BY <1>1, <1>2, <1>6, <2>1, <2>2, <2>3 DEF ThumbStep, ArmOps
<1>7. CASE i.op = "stmia"
  <2>1. i.rn \in Regs \ {Lr, Pc} /\ i.list \in SUBSET Regs
    BY <1>7, ListFacts
  <2>2. next.regs[i.rn] = m.regs[i.rn]
    BY <1>1, <2>1
  <2>3. /\ next.regs[i.rn] % 4 = 0
        /\ \A r \in i.list : ~In("io", Slot(i.list, next.regs[i.rn], r))
    BY <1>7, <2>2 DEF Aligned, Clear
  <2>4. Stmia(next, i) = SetReg(StoreBlock(next, i.list, next.regs[i.rn]), i.rn,
                                Plus(next.regs[i.rn], 4 * Cardinality(i.list)))
    BY <2>1, <2>3, StmiaBlock
  <2>5. Step(m, i) = Stmia(next, i)
    BY <1>1, <1>7 DEF Step, ArmOps
  <2> QED  BY <1>1, <1>7, <2>2, <2>4, <2>5 DEF ThumbStep, ArmOps
<1>8. CASE i.op = "ldmia"
  <2>1. i.rn \in Regs \ {Lr, Pc} /\ i.list \in SUBSET Regs
    BY <1>8, ListFacts
  <2>2. next.regs[i.rn] = m.regs[i.rn]
    BY <1>1, <2>1
  <2>3. Ldmia(next, i) = SetReg(LoadBlock(next, i.list, next.regs[i.rn]), i.rn,
                                Plus(next.regs[i.rn], 4 * Cardinality(i.list)))
    BY <2>1, LdmiaBlock
  <2>4. Step(m, i) = Ldmia(next, i)
    BY <1>1, <1>8 DEF Step, ArmOps
  <2> QED  BY <1>1, <1>8, <2>2, <2>3, <2>4 DEF ThumbStep, ArmOps
<1> QED  BY <1>3, <1>4, <1>5, <1>6, <1>7, <1>8, OpsApart

\* What neither reads nor writes it lets the link register be.
LEMMA StepLr ==
  ASSUME NEW m \in Machine, NEW i, Decoded(i), i.op \in Straight, NEW x \in Words,
         ~ReadsLr(i), ~WritesLr(i)
  PROVE  /\ ThumbStep(SetReg(m, Lr, x), i) = SetReg(ThumbStep(m, i), Lr, x)
         /\ ThumbStep(m, i).regs[Lr] = m.regs[Lr]
<1>1. PICK n \in Machine : /\ n = SetReg(m, Lr, x)
                           /\ \A r \in Regs \ {Lr} : n.regs[r] = m.regs[r]
  BY SetRegFields, RegFacts
<1>2. PICK next \in Machine : next = Fetch(m)
  BY FetchType
<1>3. Fetch(n) = SetReg(next, Lr, x) /\ next.regs[Lr] = m.regs[Lr]
  BY <1>1, <1>2, FetchLr, RegFacts
<1>4. PICK pc \in Int : pc = m.regs[Pc] /\ pc = n.regs[Pc]
  BY <1>1, ReadRegType, RegFacts
<1>5. n.regs[Sp] = m.regs[Sp]
  BY <1>1, RegFacts
<1>6. CASE i.op \in ArmOps
  <2>1. ThumbStep(m, i) = Arm(next, i, pc) /\ ThumbStep(n, i) = Arm(SetReg(next, Lr, x), i, pc)
    BY <1>2, <1>3, <1>4, <1>6 DEF ThumbStep, ArmOps
  <2> QED  BY <1>1, <1>3, <1>6, <2>1, ArmLr
<1>7. CASE i.op \in PlainOps
  <2>1. i.op \notin ArmOps \cup {"cmp", "tst", "bcond", "push", "pop", "stmia", "ldmia"}
    BY <1>7, OpsApart DEF PlainOps
  <2>2. ThumbStep(m, i) = Plain(next, i, pc) /\ ThumbStep(n, i) = Plain(SetReg(next, Lr, x), i, pc)
    BY <1>2, <1>3, <1>4, <2>1 DEF ThumbStep
  <2> QED  BY <1>1, <1>3, <1>7, <2>2, PlainLr
<1>8. i.list \in SUBSET Regs
  BY ListFacts
<1>9. ASSUME NEW t \in Machine, NEW r, r # Lr, NEW w, t.regs[Lr] = next.regs[Lr],
             ThumbStep(m, i) = SetReg(t, r, w), ThumbStep(n, i) = SetReg(SetReg(t, Lr, x), r, w)
      PROVE  /\ ThumbStep(SetReg(m, Lr, x), i) = SetReg(ThumbStep(m, i), Lr, x)
             /\ ThumbStep(m, i).regs[Lr] = m.regs[Lr]
  BY <1>1, <1>3, <1>9, SetRegLr
<1>10. CASE i.op = "push"
  <2>1. PICK sp : sp = Plus(m.regs[Sp], -(4 * Cardinality(i.list)))
    OBVIOUS
  <2>2. PICK t \in Machine : t = StoreBlock(next, i.list, sp)
    BY <1>8, BlockType
  <2>3. Lr \notin i.list
    BY <1>10 DEF ReadsLr
  <2>4. StoreBlock(SetReg(next, Lr, x), i.list, sp) = SetReg(t, Lr, x) /\ t.regs[Lr] = next.regs[Lr]
    BY <2>2, <2>3, BlockLr
  <2>5. ThumbStep(m, i) = SetReg(t, Sp, sp) /\ ThumbStep(n, i) = SetReg(SetReg(t, Lr, x), Sp, sp)
    BY <1>2, <1>3, <1>5, <1>10, <2>1, <2>2, <2>4 DEF ThumbStep, ArmOps
  <2> QED  BY <1>9, <2>4, <2>5, RegFacts
<1>11. CASE i.op = "pop"
  <2>1. PICK sp, top : sp = m.regs[Sp] /\ top = Plus(sp, 4 * Cardinality(i.list))
    OBVIOUS
  <2>2. PICK t \in Machine : t = LoadBlock(next, i.list, sp)
    BY <1>8, BlockType
  <2>3. Lr \notin i.list
    BY <1>11, ListFacts
  <2>4. LoadBlock(SetReg(next, Lr, x), i.list, sp) = SetReg(t, Lr, x) /\ t.regs[Lr] = next.regs[Lr]
    BY <2>2, <2>3, BlockLr
  <2>5. CASE Pc \in i.list
    <3>1. PICK w \in Words : w = t.regs[Pc] /\ w = SetReg(t, Lr, x).regs[Pc]
      <4>1. SetReg(t, Lr, x).regs[Pc] = t.regs[Pc] /\ t.regs[Pc] \in Words
        BY ReadRegType, RegFacts DEF SetReg, Machine
      <4> QED  BY <4>1
    <3>2. PICK u \in Machine : u = BranchExchange(t, w)
      BY BranchExchangeType
    <3>3. BranchExchange(SetReg(t, Lr, x), w) = SetReg(u, Lr, x) /\ u.regs[Lr] = next.regs[Lr]
      BY <2>4, <3>2, BranchExchangeLr
    <3>4. ThumbStep(m, i) = SetReg(u, Sp, top) /\ ThumbStep(n, i) = SetReg(SetReg(u, Lr, x), Sp, top)
      BY <1>2, <1>3, <1>5, <1>11, <2>1, <2>2, <2>4, <2>5, <3>1, <3>2, <3>3 DEF ThumbStep, ArmOps
    <3> QED  BY <1>9, <3>3, <3>4, RegFacts
  <2>6. CASE Pc \notin i.list
    <3>1. ThumbStep(m, i) = SetReg(t, Sp, top) /\ ThumbStep(n, i) = SetReg(SetReg(t, Lr, x), Sp, top)
      BY <1>2, <1>3, <1>5, <1>11, <2>1, <2>2, <2>4, <2>6 DEF ThumbStep, ArmOps
    <3> QED  BY <1>9, <2>4, <3>1, RegFacts
  <2> QED  BY <2>5, <2>6
<1>12. CASE i.op \in {"stmia", "ldmia"}
  <2>1. i.rn \in Regs /\ i.rn # Lr /\ Lr \notin i.list
    BY <1>12, ListFacts
  <2>2. PICK rn, end : /\ rn = m.regs[i.rn] /\ rn = n.regs[i.rn]
                       /\ end = Plus(rn, 4 * Cardinality(i.list))
    BY <1>1, <2>1
  <2>3. PICK s \in Machine, t \in Machine :
          s = StoreBlock(next, i.list, rn) /\ t = LoadBlock(next, i.list, rn)
    BY <1>8, BlockType
  <2>4. /\ StoreBlock(SetReg(next, Lr, x), i.list, rn) = SetReg(s, Lr, x)
        /\ LoadBlock(SetReg(next, Lr, x), i.list, rn) = SetReg(t, Lr, x)
        /\ s.regs[Lr] = next.regs[Lr] /\ t.regs[Lr] = next.regs[Lr]
    BY <2>1, <2>3, BlockLr
  <2>5. CASE i.op = "stmia"
    <3>1. ThumbStep(m, i) = SetReg(s, i.rn, end) /\ ThumbStep(n, i) = SetReg(SetReg(s, Lr, x), i.rn, end)
      BY <1>2, <1>3, <2>2, <2>3, <2>4, <2>5 DEF ThumbStep, ArmOps
    <3> QED  BY <1>9, <2>1, <2>4, <3>1
  <2>6. CASE i.op = "ldmia"
    <3>1. ThumbStep(m, i) = SetReg(t, i.rn, end) /\ ThumbStep(n, i) = SetReg(SetReg(t, Lr, x), i.rn, end)
      BY <1>2, <1>3, <2>2, <2>3, <2>4, <2>6 DEF ThumbStep, ArmOps
    <3> QED  BY <1>9, <2>1, <2>4, <3>1
  <2> QED  BY <1>12, <2>5, <2>6
<1> QED  BY <1>6, <1>7, <1>10, <1>11, <1>12, OpsApart

LEMMA FetchKeeps ==
  ASSUME NEW m \in Machine
  PROVE  Fetch(m).thumb = m.thumb /\ Fetch(m).regs[Lr] = m.regs[Lr]
<1>1. PICK x \in Words : x = m.regs[Lr]
  BY ReadRegType, RegFacts
<1> QED  BY FetchLr, RegFacts

\* What writes the link register without reading it makes it the same again.
LEMMA StepWritesLr ==
  ASSUME NEW m \in Machine, NEW i, Decoded(i), i.op \in Straight, NEW x \in Words,
         ~ReadsLr(i), WritesLr(i)
  PROVE  ThumbStep(SetReg(m, Lr, x), i) = ThumbStep(m, i)
<1>1. PICK n \in Machine : /\ n = SetReg(m, Lr, x)
                           /\ \A r \in Regs \ {Lr} : n.regs[r] = m.regs[r]
  BY SetRegFields, RegFacts
<1>2. PICK next \in Machine : next = Fetch(m)
  BY FetchType
<1>3. Fetch(n) = SetReg(next, Lr, x)
  BY <1>1, <1>2, FetchLr
<1>4. PICK pc \in Int : pc = m.regs[Pc] /\ pc = n.regs[Pc]
  BY <1>1, ReadRegType, RegFacts
<1>5. i.op \in {"bl_high", "mov_hi"} /\ (i.op = "mov_hi" => i.rd = Lr /\ i.rs \in Regs \ {Lr})
  BY DEF ReadsLr, WritesLr, Decoded, HighOps
<1>6. ThumbStep(m, i) = Plain(next, i, pc) /\ ThumbStep(n, i) = Plain(SetReg(next, Lr, x), i, pc)
  BY <1>2, <1>3, <1>4, <1>5 DEF ThumbStep, ArmOps
<1>7. PICK w : w = IF i.op = "bl_high" THEN Plus(pc, 4 + i.imm) ELSE next.regs[i.rs]
  OBVIOUS
<1>8. i.op = "mov_hi" => SetReg(next, Lr, x).regs[i.rs] = next.regs[i.rs]
  BY <1>5 DEF SetReg, Machine
<1>9. Plain(next, i, pc) = SetReg(next, Lr, w)
  BY <1>5, <1>7 DEF Plain, StepHighRegister
<1>10. Plain(SetReg(next, Lr, x), i, pc) = SetReg(SetReg(next, Lr, x), Lr, w)
  BY <1>5, <1>7, <1>8 DEF Plain, StepHighRegister
<1> QED  BY <1>1, <1>6, <1>9, <1>10, SetRegTwice

-----------------------------------------------------------------------------
(* The invariant.  The machines differ in the link register at most, and   *)
(* not as long as none has been overwritten by a comparison, which is when *)
(* the runner's link register has the reference's flags.                   *)

Alike(m, t) == \E x \in Words : t = SetReg(m, Lr, x)

IInv ==
  /\ Typed
  /\ Alike(runner, reference)
  /\ seen.lr => reference = runner
  /\ ~(seen.lr /\ seen.flags)
  /\ seen.flags => Z(runner) = flags.z /\ C(runner) = flags.c

LEMMA SameAlike ==
  ASSUME NEW m \in Machine
  PROVE  Alike(m, m)
  BY SetRegSame, ReadRegType, RegFacts DEF Alike

LEMMA AlikeType ==
  ASSUME NEW m \in Machine, NEW t, Alike(m, t)
  PROVE  t \in Machine /\ \A r \in Regs \ {Lr} : t.regs[r] = m.regs[r]
<1>1. PICK x \in Words : t = SetReg(m, Lr, x)
  BY DEF Alike
<1>2. Lr \in Regs
  BY RegFacts
<1>3. /\ SetReg(m, Lr, x) \in Machine
      /\ \A q \in Regs \ {Lr} : SetReg(m, Lr, x).regs[q] = m.regs[q]
  BY <1>2, SetRegFields
<1> QED  BY <1>1, <1>3

LEMMA InitIInv == Init => IInv
<1> SUFFICES ASSUME Init PROVE IInv
  OBVIOUS
<1>1. runner \in Machine /\ reference = runner
  <2>1. PICK p \in Prologues : runner = Machines(p)[Len(p)]
    BY DEF Init
  <2>2. Machines(p)[Len(p)] \in Machine
    BY MachinesType
  <2>3. reference = runner
    BY DEF Init
  <2> QED  BY <2>1, <2>2, <2>3
<1>2. flags \in [z : BOOLEAN, c : BOOLEAN]
  BY FlagsType DEF Init
<1>3. Alike(runner, reference)
  BY <1>1, SameAlike
<1>4. seen \in [lr : BOOLEAN, flags : BOOLEAN] /\ ~seen.flags
  BY DEF Init
<1> QED  BY <1>1, <1>2, <1>3, <1>4 DEF IInv, Typed

LEMMA FlagsKept ==
  ASSUME NEW m, NEW t, t.regs[Lr] = m.regs[Lr]
  PROVE  Z(t) = Z(m) /\ C(t) = C(m)
  BY DEF Z, C

\* An instruction of which Departs says nothing, other than the three with flags.
LEMMA StraightStep ==
  ASSUME IInv, NEW i, Decoded(i), i.op \in Straight, Aligned(runner, i), ~Departs(i)
  PROVE  LET t == ThumbStep(reference, i)
         IN  /\ Alike(Step(runner, i), t)
             /\ seen.lr \/ WritesLr(i) => t = Step(runner, i)
             /\ seen.flags /\ ~WritesLr(i) => Step(runner, i).regs[Lr] = runner.regs[Lr]
<1>1. runner \in Machine /\ Alike(runner, reference)
  BY DEF IInv, Typed
<1>2. PICK x \in Words : reference = SetReg(runner, Lr, x)
  BY <1>1 DEF Alike
<1>3. \A r \in Regs \ {Lr} : reference.regs[r] = runner.regs[r]
  BY <1>1, AlikeType
<1>4. Clear(runner, i)
  <2>1. i.op = "stmia" => reference.regs[i.rn] = runner.regs[i.rn]
    BY <1>3, ListFacts
  <2>2. reference.regs[Sp] = runner.regs[Sp]
    BY <1>3, RegFacts
  <2>3. -(4 * Cardinality(i.list)) = -4 * Cardinality(i.list)
    BY ListFacts
  <2> QED  BY <2>1, <2>2, <2>3 DEF Clear, Departs
<1>5. PICK m \in Machine : m = runner /\ Clear(m, i) /\ Aligned(m, i)
  BY <1>1, <1>4
<1>6. PICK s : s = Step(m, i)
  OBVIOUS
<1>7. ThumbStep(m, i) = s
  BY <1>5, <1>6, StepSame
<1>8. s \in Machine
  BY <1>6, OpsApart, StepType DEF Straight
<1>9. CASE seen.lr
  BY <1>5, <1>6, <1>7, <1>8, <1>9, SameAlike DEF IInv
<1>10. CASE ~seen.lr
  <2>1. ~ReadsLr(i)
    BY <1>10 DEF Departs
  <2>2. CASE WritesLr(i)
    BY <1>2, <1>5, <1>6, <1>7, <1>8, <1>10, <2>1, <2>2, StepWritesLr, SameAlike
  <2>3. CASE ~WritesLr(i)
    <3>1. ThumbStep(SetReg(m, Lr, x), i) = SetReg(s, Lr, x) /\ s.regs[Lr] = m.regs[Lr]
      BY <1>7, <2>1, <2>3, StepLr
    <3> QED  BY <1>2, <1>5, <1>6, <1>10, <2>3, <3>1 DEF Alike
  <2> QED  BY <2>2, <2>3
<1> QED  BY <1>9, <1>10

\* A comparison or a test: the reference's link register stays, its flags are what the
\* runner's link register now tells.
LEMMA CompareStep ==
  ASSUME IInv, NEW i, Decoded(i), i.op \in {"cmp", "tst"}, ~Departs(i)
  PROVE  LET m == Step(runner, i)
             f == ThumbFlags(reference, i)
         IN  /\ Alike(m, ThumbStep(reference, i))
             /\ f \in [z : BOOLEAN, c : BOOLEAN]
             /\ i.op = "cmp" => Z(m) = f.z /\ C(m) = f.c
<1>1. runner \in Machine /\ Alike(runner, reference) /\ flags \in [z : BOOLEAN, c : BOOLEAN]
  BY DEF IInv, Typed
<1>2. PICK x \in Words : reference = SetReg(runner, Lr, x)
  BY <1>1 DEF Alike
<1>3. \A r \in Regs \ {Lr} : reference.regs[r] = runner.regs[r]
  BY <1>1, AlikeType
<1>4. PICK next \in Machine : next = Fetch(runner)
  BY <1>1, FetchType
<1>5. Fetch(reference) = SetReg(next, Lr, x)
  BY <1>1, <1>2, <1>4, FetchLr
<1>6. i.rn \in Regs \ {Lr} /\ i.rs \in (Regs \ {Lr}) \cup {NoReg}
  BY RegFacts DEF Decoded, HighOps
<1>7. PICK l, r : l = runner.regs[i.rn] /\ r = Operand(runner, i)
  OBVIOUS
<1>8. l = reference.regs[i.rn] /\ r = Operand(reference, i)
  BY <1>3, <1>6, <1>7 DEF Operand
<1>9. PICK m : m = SetCmp(next, l, r)
  OBVIOUS
<1>10. Step(runner, i) = m /\ ThumbStep(reference, i) = SetReg(next, Lr, x)
  BY <1>4, <1>5, <1>7, <1>9 DEF Step, ThumbStep, ArmOps
<1>11. PICK v \in Words : m = SetReg(next, Lr, v)
  BY <1>9, SetCmpFlags
<1>12. Z(m) = (l = r) /\ C(m) = (l >= r)
  BY <1>9, SetCmpFlags
<1>13. SetReg(next, Lr, x) = SetReg(m, Lr, x)
  BY <1>11, SetRegTwice
<1>14. ThumbFlags(reference, i) = IF i.op = "cmp" THEN [z |-> l = r, c |-> l >= r] ELSE flags
  BY <1>8 DEF ThumbFlags
<1>15. [z |-> l = r, c |-> l >= r] \in [z : BOOLEAN, c : BOOLEAN]
  <2>1. (l >= r) \in BOOLEAN /\ (l = r) \in BOOLEAN
    BY <1>12 DEF C, Bit
  <2> QED  BY <2>1
<1> QED  BY <1>1, <1>10, <1>12, <1>13, <1>14, <1>15 DEF Alike

\* A branch on flags that the runner's link register has.
LEMMA BranchStep ==
  ASSUME IInv, NEW i, Decoded(i), i.op = "bcond", ~Departs(i)
  PROVE  /\ Alike(Step(runner, i), ThumbStep(reference, i))
         /\ Step(runner, i).regs[Lr] = runner.regs[Lr]
<1>1. /\ runner \in Machine /\ Alike(runner, reference)
      /\ seen.flags /\ Z(runner) = flags.z /\ C(runner) = flags.c
  BY DEF IInv, Typed, Departs
<1>2. PICK x \in Words : reference = SetReg(runner, Lr, x)
  BY <1>1 DEF Alike
<1>3. PICK next \in Machine : next = Fetch(runner) /\ next.regs[Lr] = runner.regs[Lr]
  BY <1>1, FetchType, FetchKeeps
<1>4. Fetch(reference) = SetReg(next, Lr, x)
  BY <1>1, <1>2, <1>3, FetchLr
<1>5. PICK z, c : z = Z(runner) /\ c = C(runner) /\ z = flags.z /\ c = flags.c
  BY <1>1
<1>6. /\ Step(runner, i) = ConditionalBranch(next, i, z, c)
      /\ ThumbStep(reference, i) = ConditionalBranch(SetReg(next, Lr, x), i, z, c)
  BY <1>3, <1>4, <1>5 DEF Step, ThumbStep, ArmOps
<1>7. PICK w : w = Plus(next.regs[Pc], i.imm)
  OBVIOUS
<1>8. SetReg(next, Lr, x).regs[Pc] = next.regs[Pc]
  BY RegFacts DEF SetReg, Machine
<1>9. CASE Holds(i.cond, z, c)
  <2>1. /\ Step(runner, i) = SetReg(next, Pc, w)
        /\ ThumbStep(reference, i) = SetReg(SetReg(next, Lr, x), Pc, w)
    BY <1>6, <1>7, <1>8, <1>9 DEF ConditionalBranch
  <2> QED  BY <1>3, <2>1, SetRegLr, RegFacts DEF Alike
<1>10. CASE ~Holds(i.cond, z, c)
  <2>1. Step(runner, i) = next /\ ThumbStep(reference, i) = SetReg(next, Lr, x)
    BY <1>6, <1>10 DEF ConditionalBranch
  <2> QED  BY <1>3, <2>1 DEF Alike
<1> QED  BY <1>9, <1>10

LEMMA ExecuteIInv == IInv /\ Execute => IInv'
<1> SUFFICES ASSUME IInv, Execute PROVE IInv'
  OBVIOUS
<1>1. PICK i \in Instructions :
        /\ Aligned(runner, i) /\ i.op # "other"
        /\ runner' = Step(runner, i)
        /\ reference' = IF Departs(i) THEN runner' ELSE ThumbStep(reference, i)
        /\ flags' = IF Departs(i) THEN FlagsOf(runner') ELSE ThumbFlags(reference, i)
        /\ seen' = IF Departs(i) THEN [lr |-> TRUE, flags |-> FALSE]
                   ELSE IF i.op = "cmp" THEN [lr |-> FALSE, flags |-> TRUE]
                   ELSE IF i.op = "tst" THEN [lr |-> FALSE, flags |-> FALSE]
                   ELSE [lr |-> seen.lr \/ WritesLr(i),
                         flags |-> seen.flags /\ ~WritesLr(i) /\ ~SetsFlags(i)]
  BY DEF Execute
<1>2. /\ Typed /\ runner \in Machine /\ seen \in [lr : BOOLEAN, flags : BOOLEAN]
      /\ flags \in [z : BOOLEAN, c : BOOLEAN] /\ ~(seen.lr /\ seen.flags)
      /\ seen.flags => Z(runner) = flags.z /\ C(runner) = flags.c
  BY DEF IInv, Typed
<1>3. Decoded(i) /\ i.op \in Straight \cup {"cmp", "tst", "bcond"}
  BY <1>1, RunnerAssumption DEF Decoded, Straight
<1>4. runner' \in Machine
  BY <1>1, <1>2, <1>3, StepType
<1>5. ASSUME /\ Alike(runner', reference') /\ flags' \in [z : BOOLEAN, c : BOOLEAN]
             /\ seen' \in [lr : BOOLEAN, flags : BOOLEAN]
             /\ seen'.lr => reference' = runner'
             /\ ~(seen'.lr /\ seen'.flags)
             /\ seen'.flags => Z(runner') = flags'.z /\ C(runner') = flags'.c
      PROVE  IInv'
  <2>1. reference' \in Machine
    BY <1>4, <1>5, AlikeType
  <2>2. Alike(runner, reference)'
    BY <1>5 DEF Alike
  <2>3. seen'.flags => Z(runner)' = flags'.z /\ C(runner)' = flags'.c
    BY <1>5 DEF Z, C
  <2> QED  BY <1>4, <1>5, <2>1, <2>2, <2>3 DEF IInv, Typed
<1>6. CASE Departs(i)
  <2>1. reference' = runner' /\ flags' = FlagsOf(runner') /\ seen' = [lr |-> TRUE, flags |-> FALSE]
    BY <1>1, <1>6
  <2>2. flags' \in [z : BOOLEAN, c : BOOLEAN]
    BY <2>1, FlagsType
  <2>3. Alike(runner', reference')
    BY <1>4, <2>1, SameAlike
  <2> QED  BY <1>5, <2>1, <2>2, <2>3
<1>7. CASE ~Departs(i) /\ i.op \in {"cmp", "tst"}
  <2>1. /\ reference' = ThumbStep(reference, i) /\ flags' = ThumbFlags(reference, i)
        /\ seen' = [lr |-> FALSE, flags |-> i.op = "cmp"]
    BY <1>1, <1>7
  <2>2. /\ Alike(runner', reference') /\ flags' \in [z : BOOLEAN, c : BOOLEAN]
        /\ i.op = "cmp" => Z(runner') = flags'.z /\ C(runner') = flags'.c
    BY <1>1, <1>3, <1>7, <2>1, CompareStep
  <2> QED  BY <1>5, <2>1, <2>2
<1>8. CASE ~Departs(i) /\ i.op \notin {"cmp", "tst"}
  <2>1. /\ reference' = ThumbStep(reference, i)
        /\ seen' = [lr |-> seen.lr \/ WritesLr(i),
                    flags |-> seen.flags /\ ~WritesLr(i) /\ ~SetsFlags(i)]
    BY <1>1, <1>8
  <2>2. flags' = flags
    BY <1>1, <1>8 DEF ThumbFlags
  <2>3. /\ seen' \in [lr : BOOLEAN, flags : BOOLEAN] /\ ~(seen'.lr /\ seen'.flags)
        /\ seen'.lr = (seen.lr \/ WritesLr(i))
        /\ seen'.flags => seen.flags /\ ~WritesLr(i)
    BY <1>2, <2>1 DEF WritesLr, SetsFlags
  <2>4. /\ Alike(runner', reference')
        /\ seen'.lr => reference' = runner'
        /\ seen'.flags => runner'.regs[Lr] = runner.regs[Lr]
    <3>1. CASE i.op \in Straight
      BY <1>1, <1>3, <1>8, <2>1, <2>3, <3>1, StraightStep
    <3>2. CASE i.op = "bcond"
      <4>1. Alike(runner', reference') /\ runner'.regs[Lr] = runner.regs[Lr]
        BY <1>1, <1>3, <1>8, <2>1, <3>2, BranchStep
      <4>2. seen.flags /\ ~WritesLr(i)
        BY <1>8, <3>2 DEF Departs, WritesLr
      <4>3. ~seen'.lr
        BY <1>2, <2>3, <4>2
      <4> QED  BY <4>1, <4>3
    <3> QED  BY <1>3, <1>8, <3>1, <3>2
  <2>5. seen'.flags => Z(runner') = flags'.z /\ C(runner') = flags'.c
    BY <1>2, <2>2, <2>3, <2>4, FlagsKept
  <2> QED  BY <1>2, <1>5, <2>2, <2>3, <2>4, <2>5
<1> QED  BY <1>6, <1>7, <1>8

LEMMA UnsupportedIInv == IInv /\ Unsupported => IInv'
<1> SUFFICES ASSUME IInv, Unsupported PROVE IInv'
  OBVIOUS
<1>1. /\ runner' = Fetch(runner) /\ reference' = Fetch(reference)
      /\ flags' = flags /\ seen' = seen
  BY DEF Unsupported
<1>2. runner \in Machine /\ Alike(runner, reference)
  BY DEF IInv, Typed
<1>3. PICK x \in Words : reference = SetReg(runner, Lr, x)
  BY <1>2 DEF Alike
<1>4. runner' \in Machine /\ reference' = SetReg(runner', Lr, x)
  BY <1>1, <1>2, <1>3, FetchType, FetchLr
<1>5. runner'.regs[Lr] = runner.regs[Lr]
  BY <1>1, <1>2, FetchKeeps
<1>6. Z(runner') = Z(runner) /\ C(runner') = C(runner)
  BY <1>5, FlagsKept
<1>7. reference' \in Machine
  BY <1>4, SetRegType
<1>8. Alike(runner, reference)'
  BY <1>4 DEF Alike
<1>9. seen'.flags => Z(runner)' = flags'.z /\ C(runner)' = flags'.c
  BY <1>1, <1>6 DEF IInv, Z, C
<1>10. Typed'
  BY <1>1, <1>4, <1>7 DEF IInv, Typed
<1>11. (seen'.lr => reference' = runner') /\ ~(seen'.lr /\ seen'.flags)
  BY <1>1 DEF IInv
<1> QED  BY <1>8, <1>9, <1>10, <1>11 DEF IInv

\* Software runner: both machines are machines at all times, the transfers of a step
\* did what they are to do, and the reference differs from the runner in the link
\* register at most (the invariant of the two theorems below).
THEOREM Invariance == Spec => []IInv
<1>1. IInv /\ UNCHANGED vars => IInv'
  BY DEF IInv, Typed, Alike, vars, Z, C
<1>2. IInv /\ [Next]_vars => IInv'
  BY <1>1, ExecuteIInv, UnsupportedIInv DEF Next
<1> QED  BY InitIInv, <1>2, PTL DEF Spec

\* Push, pop, the block transfers, comparisons and branches of the software runner do
\* to memory, registers and state what a machine with flags of its own does, for any
\* program of instructions as decoded, whatever the memory, the widths, the channels
\* and the registers in use (software.rs, step_thumb, step_arm, set_cmp, push, pop).
THEOREM RunsAsThumb == Spec => []SameAsThumb
<1>1. IInv => SameAsThumb
  <2> SUFFICES ASSUME IInv PROVE SameAsThumb
    OBVIOUS
  <2>1. runner \in Machine /\ Alike(runner, reference)
    BY DEF IInv, Typed
  <2>2. PICK x \in Words : reference = SetReg(runner, Lr, x)
    BY <2>1 DEF Alike
  <2>3. /\ reference.thumb = runner.thumb /\ reference.mem = runner.mem
        /\ reference.reads = runner.reads
        /\ \A r \in Regs \ {Lr} : reference.regs[r] = runner.regs[r]
    BY <2>1, <2>2, SetRegFields, RegFacts
  <2>4. /\ seen.lr => runner.regs[Lr] = reference.regs[Lr]
        /\ seen.flags => Z(runner) = flags.z /\ C(runner) = flags.c
    BY DEF IInv
  <2> QED  BY <2>3, <2>4 DEF SameAsThumb
<1> QED  BY Invariance, <1>1, PTL

\* A store that starts an immediate transfer leaves it done: each halfword of the
\* destination has what the last unit for it came with, all others are as before, and
\* the channel is off unless it repeats; for every count, step and unit (run_dma,
\* run_immediate_dma_if_enabled).
THEOREM TransfersMoveBlocks == Spec => []DmaMovesBlock
<1>1. IInv => DmaMovesBlock
  <2> SUFFICES ASSUME IInv, NEW x \in runner.moved
               PROVE  BlockMoved(x.before, x.after, x.channel)
    BY DEF DmaMovesBlock
  <2>1. runner.moved \subseteq Transfers
    BY DEF IInv, Typed, Machine
  <2> QED  BY <2>1 DEF Transfers
<1> QED  BY Invariance, <1>1, PTL
=============================================================================
