------------------------- MODULE BacnetValueProofs -------------------------
(***************************************************************************)
(* What is true of the driver's values for any device, any callers and any *)
(* inputs of the types the interface has.                                  *)
(***************************************************************************)
EXTENDS BacnetValue, SequenceTheorems, FunctionTheorems, FiniteSetTheorems,
        WellFoundedInduction, TLAPS

(* A set of numbers has a least one: of the intervals up to its members    *)
(* one has no other inside.                                                *)
LEMMA LeastExists ==
  ASSUME NEW T, T \subseteq Nat, T # {}
  PROVE  \E n \in T : \A m \in T : n <= m
<1> DEFINE Initial == {1..n : n \in T}
<1>1. Initial \subseteq FiniteSubsetsOf(Nat) /\ Initial # {}
  <2>1. \A n \in Nat : IsFiniteSet(1..n)
    BY FS_Interval
  <2>2. \A n \in Nat : 1..n \in SUBSET Nat
    OBVIOUS
  <2> QED
    BY <2>1, <2>2 DEF FiniteSubsetsOf
<1>2. PICK i \in Initial : \A j \in Initial : ~(<<j, i>> \in StrictSubsetOrdering(Nat))
  <2> HIDE DEF Initial
  <2> QED
    BY <1>1, FS_StrictSubsetOrderingWellFounded, WFMin
<1>3. PICK n \in T : i = 1..n
  OBVIOUS
<1>4. ASSUME NEW m \in T, m < n
      PROVE  FALSE
  <2>1. 1..m \subseteq 1..n /\ 1..m # 1..n
    <3>1. n \in 1..n /\ n \notin 1..m
      BY <1>4
    <3>2. \A k \in 1..m : k \in 1..n
      BY <1>4
    <3> QED
      BY <3>1, <3>2
  <2>2. <<1..m, i>> \in StrictSubsetOrdering(Nat)
    <3>1. 1..m \in SUBSET Nat /\ i \in SUBSET Nat
      BY <1>3
    <3> QED
      BY <1>3, <2>1, <3>1 DEF StrictSubsetOrdering
  <2>3. 1..m \in Initial
    OBVIOUS
  <2> QED
    BY <1>2, <2>2, <2>3
<1> QED
  BY <1>4

(* What characterstring_init_ansi keeps of a text that was given its       *)
(* terminator: what stands before the first NUL.                           *)
LEMMA CStringOfTerminated ==
  ASSUME NEW text \in Seq(Characters), Len(text) > 0
  PROVE  LET t == CString(Terminated(text)) IN
         /\ t \in Seq(Characters)
         /\ 1..Len(t) = Before(text, NUL)
         /\ \A n \in 1..Len(t) : t[n] = text[n]
<1> DEFINE u == Terminated(text)
           IsFirst(n) == u[n] = NUL /\ \A m \in 1..n - 1 : u[m] # NUL
           n == CHOOSE k \in 1..Len(u) : IsFirst(k)
<1>1. /\ u \in Seq(Characters) /\ u[Len(u)] = NUL /\ Len(u) \in 1..Len(text) + 1
      /\ Len(text) <= Len(u) /\ \A k \in 1..Len(text) : u[k] = text[k]
  <2>1. CASE text[Len(text)] = NUL
    BY <2>1 DEF Terminated
  <2>2. CASE text[Len(text)] # NUL
    BY <2>2, AppendProperties, ValueAssumption DEF Terminated
  <2> QED
    BY <2>1, <2>2
<1> HIDE DEF u
<1>2. \E k \in 1..Len(u) : IsFirst(k)
  <2> DEFINE T == {k \in 1..Len(u) : u[k] = NUL}
  <2>1. T \subseteq Nat /\ Len(u) \in T
    BY <1>1
  <2>2. PICK k \in T : \A m \in T : k <= m
    <3> HIDE DEF T
    <3> QED
      BY <2>1, LeastExists
  <2>3. \A m \in 1..k - 1 : u[m] # NUL
    BY <1>1, <2>2
  <2> QED
    BY <2>2, <2>3
<1>3. n \in 1..Len(u) /\ IsFirst(n)
  <2> HIDE DEF IsFirst
  <2> QED
    BY <1>2
<1> HIDE DEF n
<1>4. CString(u) = SubSeq(u, 1, n - 1)
  BY DEF CString, n
<1> DEFINE t == SubSeq(u, 1, n - 1)
<1>5. t \in Seq(Characters) /\ Len(t) = n - 1 /\ \A k \in 1..n - 1 : t[k] = u[k]
  <2>1. n - 1 \in Int /\ \A k \in 1..n - 1 : k \in 1..Len(u) /\ u[k] \in Characters
    BY <1>1, <1>3
  <2> QED
    BY <1>1, <1>3, <2>1, SubSeqProperties
<1>6. 1..n - 1 = Before(text, NUL)
  <2>1. ASSUME NEW k \in 1..n - 1
        PROVE  k \in Before(text, NUL)
    BY <1>1, <1>3 DEF Before
  <2>2. ASSUME NEW k \in Before(text, NUL)
        PROVE  k \in 1..n - 1
    <3>1. k \in 1..Len(text) /\ \A m \in 1..k : text[m] # NUL
      BY DEF Before
    <3>2. CASE n <= k
      BY <1>1, <1>3, <3>1, <3>2
    <3> QED
      BY <1>1, <1>3, <3>1, <3>2
  <2> QED
    BY <2>1, <2>2
<1>7. \A k \in 1..n - 1 : k \in 1..Len(text)
  BY <1>1, <1>3
<1> QED
  <2> HIDE DEF t
  <2>1. CString(Terminated(text)) = t
    BY <1>4 DEF u, t
  <2> QED
    BY <1>1, <1>5, <1>6, <1>7, <2>1

-----------------------------------------------------------------------------
(***************************************************************************)
(* The bits of a bit string, added up one by one, are the bits of the sum. *)
(***************************************************************************)
(* A power of two counts the sets of numbers up to its exponent: those with *)
(* the greatest of them are as many as those without.                       *)
LEMMA Powers ==
  ASSUME NEW n \in Nat
  PROVE  2^n \in Nat \ {0} /\ 2^(n + 1) = 2 * 2^n
<1> DEFINE Without == SUBSET (1..n)
           With == {s \union {n + 1} : s \in Without}
<1>1. /\ IsFiniteSet(Without) /\ Cardinality(Without) = 2^n
      /\ Cardinality(SUBSET (1..n + 1)) = 2^(n + 1)
  <2>1. /\ IsFiniteSet(1..n) /\ Cardinality(1..n) = n
        /\ IsFiniteSet(1..n + 1) /\ Cardinality(1..n + 1) = n + 1
    <3>1. IsFiniteSet(1..n) /\ Cardinality(1..n) = IF 1 > n THEN 0 ELSE n - 1 + 1
      BY FS_Interval
    <3>2. IsFiniteSet(1..n + 1) /\ Cardinality(1..n + 1) = IF 1 > n + 1 THEN 0 ELSE (n + 1) - 1 + 1
      BY FS_Interval
    <3> QED
      BY <3>1, <3>2
  <2> QED
    BY <2>1, FS_SUBSET
<1>2. 2^n \in Nat \ {0}
  <2>1. Without # {}
    OBVIOUS
  <2> HIDE DEF Without
  <2> QED
    BY <1>1, <2>1, FS_CardinalityType, FS_EmptySet
<1>3. IsFiniteSet(With) /\ Cardinality(With) = 2^n
  <2> DEFINE f == [s \in Without |-> s \union {n + 1}]
  <2>1. ASSUME NEW s \in Without, NEW t \in Without, f[s] = f[t]
        PROVE  s = t
    <3>1. n + 1 \notin s /\ n + 1 \notin t
      OBVIOUS
    <3>2. s \union {n + 1} = t \union {n + 1}
      BY <2>1
    <3> QED
      BY <3>1, <3>2
  <2>2. f \in [Without -> With] /\ \A t \in With : \E s \in Without : f[s] = t
    OBVIOUS
  <2>3. f \in Bijection(Without, With)
    <3> HIDE DEF f, With, Without
    <3> QED
      BY <2>1, <2>2, Fun_IsBij
  <2>4. ExistsBijection(Without, With)
    BY <2>3 DEF ExistsBijection
  <2> HIDE DEF With, Without
  <2> QED
    BY <1>1, <2>4, FS_Bijection
<1>4. SUBSET (1..n + 1) = Without \union With
  <2>1. ASSUME NEW s \in SUBSET (1..n + 1)
        PROVE  s \in Without \union With
    <3>1. CASE n + 1 \in s
      <4>1. s \ {n + 1} \in Without /\ s = (s \ {n + 1}) \union {n + 1}
        BY <3>1
      <4> QED
        BY <4>1
    <3>2. CASE n + 1 \notin s
      BY <3>2
    <3> QED
      BY <3>1, <3>2
  <2>2. ASSUME NEW s \in Without
        PROVE  s \in SUBSET (1..n + 1) /\ s \union {n + 1} \in SUBSET (1..n + 1)
    <3>1. n + 1 \in 1..n + 1 /\ \A k \in 1..n : k \in 1..n + 1
      OBVIOUS
    <3> QED
      BY <3>1
  <2>3. With \subseteq SUBSET (1..n + 1)
    <3>1. \A t \in With : \E s \in Without : t = s \union {n + 1}
      OBVIOUS
    <3> HIDE DEF With, Without
    <3> QED
      BY <2>2, <3>1
  <2> HIDE DEF With, Without
  <2>4. Without \subseteq SUBSET (1..n + 1)
    BY <2>2
  <2> QED
    BY <2>1, <2>3, <2>4
<1>5. Without \intersect With = {}
  OBVIOUS
<1> HIDE DEF With, Without
<1>6. Cardinality(Without \union With) = 2^n + 2^n - Cardinality({})
  BY <1>1, <1>3, <1>5, FS_Union
<1> DEFINE p == 2^n
<1>7. p \in Nat /\ 2^(n + 1) = p + p - 0
  BY <1>1, <1>2, <1>4, <1>6, FS_EmptySet
<1>8. 2^(n + 1) = 2 * p
  <2> HIDE DEF p
  <2> QED
    BY <1>7
<1> QED
  BY <1>2, <1>8
(* What the bit before the n-th place adds to the flags.                   *)
Place(bits, n) == IF n <= Len(bits) /\ bits[n] THEN 2^(n - 1) ELSE 0

LEMMA PlaceType ==
  ASSUME NEW bits \in Seq(BOOLEAN), NEW n \in Nat \ {0}
  PROVE  Place(bits, n) \in Nat /\ n - 1 \in Nat /\ 2^n = 2 * 2^(n - 1)
<1>1. n - 1 \in Nat /\ (n - 1) + 1 = n
  OBVIOUS
<1>2. 2^(n - 1) \in Nat /\ 2^((n - 1) + 1) = 2 * 2^(n - 1)
  BY <1>1, Powers
<1> QED
  BY <1>1, <1>2 DEF Place

(* The sums of the bits of a text up to the m-th place.                    *)
AreSums(flags, bits, m) ==
  /\ flags \in [0..m -> Nat]
  /\ flags[0] = 0
  /\ \A n \in 1..m : flags[n] = flags[n - 1] + Place(bits, n)

LEMMA SumsExist ==
  ASSUME NEW bits \in Seq(BOOLEAN), NEW m \in Nat
  PROVE  \E flags : AreSums(flags, bits, m)
<1> DEFINE T == {n \in Nat : \A flags : ~AreSums(flags, bits, n)}
<1>1. SUFFICES ASSUME T # {} PROVE FALSE
  OBVIOUS
<1>2. PICK n \in T : \A k \in T : n <= k
  <2> HIDE DEF T
  <2>1. T \subseteq Nat
    BY DEF T
  <2> QED
    BY <1>1, <2>1, LeastExists
<1>3. CASE n = 0
  <2> DEFINE none == [k \in 0..0 |-> 0]
  <2>1. AreSums(none, bits, 0)
    BY DEF AreSums
  <2> QED
    BY <1>2, <1>3, <2>1
<1>4. CASE n # 0
  <2>1. n - 1 \in Nat /\ ~(n <= n - 1)
    BY <1>2, <1>4
  <2>2. PICK shorter : AreSums(shorter, bits, n - 1)
    BY <1>2, <2>1
  <2> DEFINE flags == [k \in 0..n |-> IF k = n THEN shorter[n - 1] + Place(bits, n) ELSE shorter[k]]
  <2>3. shorter \in [0..n - 1 -> Nat] /\ shorter[0] = 0
        /\ \A k \in 1..n - 1 : shorter[k] = shorter[k - 1] + Place(bits, k)
    BY <2>2 DEF AreSums
  <2>4. Place(bits, n) \in Nat /\ shorter[n - 1] \in Nat
    BY <1>2, <1>4, <2>1, <2>3, PlaceType
  <2>5. \A k \in 0..n : k # n => k \in 0..n - 1
    BY <2>1
  <2>6. flags \in [0..n -> Nat]
    BY <2>3, <2>4, <2>5
  <2>7. 0 \in 0..n /\ n \in 0..n /\ n - 1 \in 0..n /\ n - 1 # n
    BY <2>1
  <2>8. flags[0] = 0 /\ flags[n] = flags[n - 1] + Place(bits, n)
    BY <1>4, <2>3, <2>7
  <2>9. ASSUME NEW k \in 1..n, k # n
        PROVE  flags[k] = flags[k - 1] + Place(bits, k)
    <3>1. k \in 1..n - 1 /\ k \in 0..n /\ k - 1 \in 0..n /\ k - 1 # n
      BY <2>1, <2>9
    <3>2. flags[k] = shorter[k] /\ flags[k - 1] = shorter[k - 1]
      BY <2>9, <3>1
    <3> QED
      BY <2>3, <3>1, <3>2
  <2> HIDE DEF flags
  <2>10. AreSums(flags, bits, n)
    BY <2>6, <2>8, <2>9 DEF AreSums
  <2> QED
    BY <1>2, <2>10
<1> QED
  BY <1>3, <1>4

(* What Flags returns is the last of such sums.                            *)
LEMMA FlagsAreSums ==
  ASSUME NEW bits \in Seq(BOOLEAN), Len(bits) <= WordBits
  PROVE  \E flags : AreSums(flags, bits, ByteBits) /\ Flags(bits) = flags[ByteBits]
<1> DEFINE Sums(flags) == flags = [n \in 0..ByteBits |->
             IF n = 0 THEN 0
             ELSE flags[n - 1] + (IF n <= Len(bits) /\ bits[n] THEN 2^(n - 1) ELSE 0)]
           flags == CHOOSE f : Sums(f)
<1>1. ByteBits \in Nat
  BY ValueAssumption
<1>2. Flags(bits) = flags[ByteBits]
  BY DEF Flags
<1>3. PICK sums : AreSums(sums, bits, ByteBits)
  BY <1>1, SumsExist
<1>4. sums = [n \in 0..ByteBits |-> IF n = 0 THEN 0 ELSE sums[n - 1] + Place(bits, n)]
  <2> DEFINE f == [n \in 0..ByteBits |-> IF n = 0 THEN 0 ELSE sums[n - 1] + Place(bits, n)]
  <2>1. \A n \in 0..ByteBits : n # 0 => n \in 1..ByteBits
    BY <1>1
  <2>2. \A n \in 0..ByteBits : sums[n] = f[n]
    BY <1>3, <2>1 DEF AreSums
  <2>3. DOMAIN sums = 0..ByteBits /\ sums = [n \in 0..ByteBits |-> sums[n]]
    BY <1>3 DEF AreSums
  <2> QED
    BY <2>2, <2>3
<1>5. Sums(sums)
  BY <1>4 DEF Place
<1>6. Sums(flags)
  <2> HIDE DEF Sums
  <2> QED
    BY <1>5
<1>7. flags = [n \in 0..ByteBits |-> IF n = 0 THEN 0 ELSE flags[n - 1] + Place(bits, n)]
  BY <1>6 DEF Place
<1> HIDE DEF flags, Sums
<1>8. DOMAIN flags = 0..ByteBits /\ 0 \in 0..ByteBits /\ flags[0] = 0
  BY <1>1, <1>7
<1>9. ASSUME NEW n \in 1..ByteBits
      PROVE  flags[n] = flags[n - 1] + Place(bits, n)
  <2>1. n \in 0..ByteBits /\ n # 0
    BY <1>1
  <2> QED
    BY <1>7, <2>1
<1> DEFINE T == {n \in 0..ByteBits : flags[n] \notin Nat}
<1>10. T = {}
  <2>1. SUFFICES ASSUME T # {} PROVE FALSE
    OBVIOUS
  <2>2. PICK n \in T : \A k \in T : n <= k
    <3>1. T \subseteq Nat
      BY <1>1
    <3> HIDE DEF T
    <3> QED
      BY <2>1, <3>1, LeastExists
  <2>3. n \in 1..ByteBits /\ n - 1 \in 0..ByteBits /\ ~(n <= n - 1)
    BY <1>1, <1>8, <2>2
  <2>4. flags[n - 1] \in Nat
    BY <2>2, <2>3
  <2>5. Place(bits, n) \in Nat
    BY <2>3, PlaceType
  <2> QED
    BY <1>9, <2>2, <2>3, <2>4, <2>5
<1>11. flags \in [0..ByteBits -> Nat]
  <2>1. flags = [n \in 0..ByteBits |-> flags[n]]
    BY <1>7
  <2> QED
    BY <1>10, <2>1
<1> QED
  BY <1>2, <1>8, <1>9, <1>11 DEF AreSums
(* The sum up to a place is less than the next power of two.               *)
LEMMA SumsBelow ==
  ASSUME NEW bits \in Seq(BOOLEAN), NEW m \in Nat, NEW flags, AreSums(flags, bits, m),
         NEW i \in 0..m
  PROVE  flags[i] \in 0..2^i - 1
<1> DEFINE T == {n \in 0..m : flags[n] \notin 0..2^n - 1}
<1>1. SUFFICES ASSUME T # {} PROVE FALSE
  OBVIOUS
<1>2. PICK n \in T : \A k \in T : n <= k
  <2>1. T \subseteq Nat
    OBVIOUS
  <2> HIDE DEF T
  <2> QED
    BY <1>1, <2>1, LeastExists
<1>3. n # 0
  <2>1. 2^0 = 1
    OBVIOUS
  <2>2. n = 0 => 2^n = 1
    BY <2>1, Zenon
  <2> QED
    BY <1>2, <2>2 DEF AreSums
<1>4. n \in 1..m /\ n \in Nat \ {0} /\ n - 1 \in 0..m /\ n - 1 \in Nat /\ ~(n <= n - 1)
  BY <1>2, <1>3
<1>5. flags[n - 1] \in 0..2^(n - 1) - 1 /\ flags[n] = flags[n - 1] + Place(bits, n)
  BY <1>2, <1>4 DEF AreSums
<1> DEFINE p == 2^(n - 1)
<1>6. p \in Nat /\ 2^n = 2 * p /\ Place(bits, n) \in {0, p}
  BY <1>4, Powers, PlaceType DEF Place
<1>7. flags[n - 1] \in 0..p - 1
  BY <1>5
<1> HIDE DEF p
<1>8. flags[n] \in 0..2 * p - 1
  BY <1>5, <1>6, <1>7
<1> QED
  BY <1>2, <1>6, <1>8

(* What comes after a place is a multiple of its power of two.             *)
Extends(flags, i, w) == \E k \in Nat : flags[w] = flags[i] + k * 2^i

LEMMA SumsGrow ==
  ASSUME NEW bits \in Seq(BOOLEAN), NEW m \in Nat, NEW flags, AreSums(flags, bits, m),
         NEW i \in 0..m, NEW w \in i..m
  PROVE  Extends(flags, i, w)
<1> DEFINE Grows(n) == /\ \E k \in Nat : flags[n] = flags[i] + k * 2^i
                       /\ \E k \in Nat : 2^n = k * 2^i
           T == {n \in i..m : ~Grows(n)}
<1>1. SUFFICES ASSUME T # {} PROVE FALSE
  BY DEF Extends
<1>2. PICK n \in T : \A k \in T : n <= k
  <2>1. T \subseteq Nat
    OBVIOUS
  <2> HIDE DEF T
  <2> QED
    BY <1>1, <2>1, LeastExists
<1> DEFINE p == 2^i
<1>3. p \in Nat /\ flags[i] \in Nat
  BY Powers DEF AreSums
<1>4. CASE n = i
  <2>1. flags[n] = flags[i] + 0 * p /\ 2^n = 1 * p
    <3> HIDE DEF p
    <3>1. 0 * p = 0 /\ 1 * p = p
      BY <1>3
    <3> QED
      BY <1>3, <1>4, <3>1 DEF p
  <2> QED
    BY <1>2, <2>1
<1>5. CASE n # i
  <2>1. n - 1 \in i..m /\ n \in 1..m /\ n \in Nat \ {0} /\ n - 1 \in Nat /\ ~(n <= n - 1)
    BY <1>2, <1>5
  <2>2. Grows(n - 1)
    BY <1>2, <2>1
  <2>3. PICK k \in Nat, j \in Nat : flags[n - 1] = flags[i] + k * p /\ 2^(n - 1) = j * p
    BY <2>2
  <2>4. 2^n = 2 * 2^(n - 1) /\ Place(bits, n) \in {0, 2^(n - 1)}
    BY <2>1, PlaceType DEF Place
  <2>5. flags[n] = flags[n - 1] + Place(bits, n)
    BY <2>1 DEF AreSums
  <2> HIDE DEF p
  <2>6. 2^n = (2 * j) * p
    BY <1>3, <2>3, <2>4
  <2>7. \E l \in Nat : flags[n] = flags[i] + l * p
    <3>1. CASE Place(bits, n) = 0
      <4>1. flags[n] = flags[i] + k * p
        BY <1>3, <2>3, <2>5, <3>1
      <4> QED
        BY <4>1
    <3>2. CASE Place(bits, n) = 2^(n - 1)
      <4>1. flags[n] = flags[i] + (k + j) * p
        BY <1>3, <2>3, <2>5, <3>2
      <4> QED
        BY <4>1
    <3> QED
      BY <2>4, <3>1, <3>2
  <2>8. 2 * j \in Nat
    OBVIOUS
  <2> QED
    BY <1>2, <2>6, <2>7, <2>8 DEF p
<1> QED
  BY <1>4, <1>5

(* So of a number h * 2^i + l with l below 2^i, bit i is the last of h.    *)
LEMMA BitOf ==
  ASSUME NEW p \in Nat \ {0}, NEW k \in Nat, NEW l \in 0..p - 1
  PROVE  /\ (k * p + l) \div p = k
         /\ (k * p + l) % p = l
OBVIOUS

(* The sum up to a width has the bits up to that width and no others.      *)
LEMMA SumsShowBits ==
  ASSUME NEW bits \in Seq(BOOLEAN), NEW m \in Nat, NEW flags, AreSums(flags, bits, m),
         NEW width \in 0..m
  PROVE  HasBits(flags[width], bits, width)
<1>1. width \in Nat /\ flags[width] \in 0..2^width - 1 /\ AreSums(flags, bits, m)
  BY SumsBelow
<1>2. ASSUME NEW i \in 0..width - 1
      PROVE  Bit(flags[width], i) <=> (i < Len(bits) /\ bits[i + 1])
  <2> DEFINE p == 2^i
             b == IF i < Len(bits) /\ bits[i + 1] THEN 1 ELSE 0
  <2>1. i \in Nat /\ i \in 0..m /\ i + 1 \in 1..m /\ i + 1 \in 0..width /\ (i + 1) - 1 = i
        /\ p \in Nat \ {0} /\ 2^(i + 1) = 2 * p
    BY Powers
  <2>2. PICK k \in Nat : flags[width] = flags[i + 1] + k * (2 * p)
    <3> DEFINE j == i + 1
    <3>1. j \in 0..m /\ width \in j..m
      BY <2>1
    <3> HIDE DEF j
    <3>2. Extends(flags, j, width)
      BY <3>1, SumsGrow
    <3> USE DEF j, Extends
    <3> QED
      BY <2>1, <3>2
  <2>3. flags[i + 1] = flags[i] + b * p
    <3>1. flags[i + 1] = flags[i] + Place(bits, i + 1)
      BY <2>1 DEF AreSums
    <3>2. i + 1 <= Len(bits) <=> i < Len(bits)
      BY <2>1
    <3>3. Place(bits, i + 1) = IF b = 1 THEN p ELSE 0
      BY <2>1, <3>2 DEF Place
    <3>4. b \in {0, 1}
      OBVIOUS
    <3> HIDE DEF b, p
    <3>5. Place(bits, i + 1) = b * p
      BY <2>1, <3>3, <3>4
    <3> QED
      BY <3>1, <3>5
  <2>4. flags[i] \in 0..p - 1
    BY <2>1, SumsBelow
  <2>5. b \in {0, 1}
    OBVIOUS
  <2>6. b = 1 <=> (i < Len(bits) /\ bits[i + 1])
    <3>1. bits[i + 1] \in BOOLEAN \/ ~(i < Len(bits))
      BY <2>1
    <3> QED
      BY <3>1
  <2> HIDE DEF p, b
  <2> DEFINE high == 2 * k + b
  <2>7. flags[width] = high * p + flags[i] /\ high \in Nat
    BY <2>1, <2>2, <2>3, <2>4, <2>5
  <2>8. high % 2 = b
    BY <2>5
  <2> HIDE DEF high
  <2>9. flags[width] \div p = high
    <3>1. (high * p + flags[i]) \div p = high
      BY <2>1, <2>4, <2>7, BitOf
    <3> QED
      BY <2>7, <3>1
  <2> QED
    BY <2>6, <2>8, <2>9 DEF Bit, p
<1> QED
  BY <1>1, <1>2 DEF HasBits

(* What is kept of a bit string, and what the batch keeps of that.         *)
LEMMA FlagsShowBits ==
  ASSUME NEW bits \in Seq(BOOLEAN), Len(bits) <= WordBits
  PROVE  /\ HasBits(Flags(bits), bits, ByteBits)
         /\ HasBits(Flags(bits) % 2^FlagBits, bits, FlagBits)
<1>1. ByteBits \in Nat /\ FlagBits \in 0..ByteBits /\ ByteBits \in 0..ByteBits /\ FlagBits \in Nat
  BY ValueAssumption
<1>2. PICK flags : AreSums(flags, bits, ByteBits) /\ Flags(bits) = flags[ByteBits]
  BY FlagsAreSums
<1>3. HasBits(flags[ByteBits], bits, ByteBits) /\ HasBits(flags[FlagBits], bits, FlagBits)
  BY <1>1, <1>2, SumsShowBits
<1>4. flags[ByteBits] % 2^FlagBits = flags[FlagBits]
  <2> DEFINE p == 2^FlagBits
  <2>1. PICK k \in Nat : flags[ByteBits] = flags[FlagBits] + k * p
    <3>1. ByteBits \in FlagBits..ByteBits
      BY <1>1
    <3>2. AreSums(flags, bits, ByteBits) /\ ByteBits \in Nat /\ FlagBits \in 0..ByteBits
      BY <1>1, <1>2
    <3>3. Extends(flags, FlagBits, ByteBits)
      BY <3>1, <3>2, SumsGrow
    <3> QED
      BY <3>3 DEF Extends
  <2>2. flags[FlagBits] \in 0..p - 1 /\ p \in Nat \ {0}
    BY <1>1, <1>2, SumsBelow, Powers
  <2> HIDE DEF p
  <2>3. flags[ByteBits] = k * p + flags[FlagBits]
    BY <2>1, <2>2
  <2>4. flags[ByteBits] % p = flags[FlagBits]
    BY <2>2, <2>3, BitOf
  <2> QED
    BY <2>4 DEF p
<1> QED
  BY <1>2, <1>3, <1>4
-----------------------------------------------------------------------------
(* An application value that came from a write is the input converted.     *)
Origin(app, input) == input \in Inputs /\ Accepts(input) /\ app = Converted(input)

(* What a copy of the cached value keeps of the input it came from.        *)
Kept(copy) ==
  /\ Intact(copy)
  /\ copy.author # Nothing =>
       /\ Origin(copy.sent, copy.author)
       /\ copy.value.type = copy.author.type
       /\ copy.value.type \in StringTypes => Attached(copy)
       /\ copy.value.type \notin StringTypes \union {"NULL"} =>
            copy.value.number = copy.author.number

DeviceKept ==
  /\ device.author # Nothing => Origin(device.value, device.author)
  /\ ack # Nothing /\ ack.author # Nothing => Origin(ack.value, ack.author)

IInv == TypeOK /\ DeviceKept /\ Kept(Cached) /\ \A c \in Callers : Kept(held[c])

(* An application value of a type the stack has, and of one the property   *)
(* has.                                                                    *)
Given(app) ==
  /\ TextOK(app)
  /\ app.tag = "BIT_STRING" => app.text \in Seq(BOOLEAN)
  /\ app.tag = "UNSIGNED" => app.number \in Nat
  /\ app.tag = "ENUM" => app.number \in 0..Word - 1
  /\ app.tag \in Datatypes[field]

(* A copy is the value that was stored, or a string that could not be.     *)
Faithful(copy) ==
  \/ /\ copy.value.type \in StringTypes \intersect Datatypes[field]
     /\ copy.value.data = NULL
  \/ /\ Given(copy.sent) /\ copy.sent.tag # "OTHER"
     /\ copy.value.type = StoredType(copy.sent.tag)
     /\ copy.value.type \in StringTypes => Attached(copy)
     /\ copy.value.type \notin StringTypes \union {"NULL"} =>
          copy.value.number = StoredNumber(copy.sent)

FieldInv ==
  /\ field \in DOMAIN Datatypes /\ Given(device.value)
  /\ ack # Nothing => Given(ack.value)
  /\ state.has_valid_cache => Faithful(Cached)
  /\ batch = "read" => Faithful(held[Batcher])
  /\ FieldIsProperty

-----------------------------------------------------------------------------
(* A converted input is a text where it has to be one.                     *)
LEMMA ConvertedText ==
  ASSUME NEW input \in Inputs, Accepts(input)
  PROVE  /\ TextOK(Converted(input))
         /\ Converted(input).tag \in InputTypes
         /\ input.type \in StringTypes => input.text \in Seq(Characters) /\ Len(input.text) > 0
<1>1. input.type \in InputTypes
  BY ValueAssumption
<1>2. ASSUME input.type \in StringTypes
      PROVE  input.text \in Seq(Characters) /\ Len(input.text) > 0
  <2>1. input.text # NULL /\ Len(input.text) > 0
    BY <1>2 DEF Accepts, FitsString, StringTypes
  <2> QED
    BY <1>2, <2>1, ValueAssumption
<1>3. CASE input.type = "CHARACTER_STRING"
  <2>1. CString(Terminated(input.text)) \in Seq(Characters)
    BY <1>2, <1>3, CStringOfTerminated DEF StringTypes
  <2> QED
    BY <1>1, <1>2, <1>3, <2>1 DEF Converted, TextOK
<1>4. CASE input.type # "CHARACTER_STRING"
  BY <1>1, <1>2, <1>4 DEF Converted, TextOK
<1> QED
  BY <1>3, <1>4

(* What is allocated later changes no buffer.                              *)
LEMMA AppendKeeps ==
  ASSUME NEW S, NEW s \in Seq(S), NEW e \in S
  PROVE  /\ Append(s, e) \in Seq(S)
         /\ \A i \in DOMAIN s : i \in DOMAIN Append(s, e) /\ Append(s, e)[i] = s[i]
         /\ Len(s) + 1 \in DOMAIN Append(s, e) /\ Append(s, e)[Len(s) + 1] = e
BY AppendProperties

LEMMA InitIInv == Init => IInv
<1> SUFFICES ASSUME Init PROVE IInv
  OBVIOUS
<1>1. TypeOK
  BY ValueAssumption DEF Init, TypeOK, TextOK
<1>2. DeviceKept
  BY DEF Init, DeviceKept
<1>3. Kept(Cached) /\ \A c \in Callers : Kept(held[c])
  BY DEF Init, Kept, Intact, Cached, Nobodys, NoValue, Value, StringTypes
<1> QED
  BY <1>1, <1>2, <1>3 DEF IInv

(* A step that leaves the heap and the copies alone.                       *)
LEMMA CopiesUnchanged ==
  ASSUME IInv, UNCHANGED <<heap, state, held>>
  PROVE  Kept(Cached)' /\ \A c \in Callers : Kept(held[c])'
BY DEF IInv, Kept, Intact, Attached, Cached

(* The copies the callers hold, while buffers are only added.              *)
LEMMA HeldStays ==
  ASSUME IInv, UNCHANGED held, heap \in Seq(Seq(Characters)),
         UNCHANGED heap \/ \E text \in Seq(Characters) : heap' = Append(heap, text)
  PROVE  \A c \in Callers : Kept(held[c])'
<1>1. \A i \in DOMAIN heap : i \in DOMAIN heap' /\ heap'[i] = heap[i]
  BY AppendKeeps
<1> QED
  BY <1>1 DEF IInv, Kept, Intact, Attached

LEMMA ChangesStep ==
  ASSUME IInv, NEW value, NEW author, Changes(value, author), TextOK(value),
         author # Nothing => Origin(value, author)
  PROVE  IInv'
<1>1. TypeOK' /\ DeviceKept'
  BY DEF IInv, TypeOK, DeviceKept, Changes, TextOK
<1>2. UNCHANGED <<heap, state, held>>
  BY DEF Changes
<1> QED
  BY <1>1, <1>2, CopiesUnchanged DEF IInv

LEMMA AnswerStep ==
  ASSUME IInv, Answer
  PROVE  IInv'
<1>1. TypeOK' /\ DeviceKept'
  BY DEF IInv, TypeOK, DeviceKept, Answer, TextOK
<1>2. UNCHANGED <<heap, state, held>>
  BY DEF Answer
<1> QED
  BY <1>1, <1>2, CopiesUnchanged DEF IInv

LEMMA StoreNumberStep ==
  ASSUME IInv, StoreNumber
  PROVE  IInv'
<1> DEFINE type == StoredType(ack.value.tag)
<1>1. TypeOK' /\ DeviceKept'
  BY DEF IInv, TypeOK, DeviceKept, StoreNumber, Caches, TextOK
<1> DEFINE number == IF ack.value.tag = "NULL" THEN state.cached_value.number
                     ELSE StoredNumber(ack.value)
           value == Value(type, number, state.cached_value.data, state.cached_value.length)
<1>2. Cached' = [value |-> value, sent |-> ack.value, author |-> ack.author]
  BY DEF StoreNumber, Caches, Cached
<1>3. type \notin StringTypes
  BY DEF StoreNumber, StoredType, StringTypes
<1>4. Intact(Cached)'
  BY <1>2, <1>3 DEF Intact, Value
<1>5. ASSUME ack.author # Nothing
      PROVE  /\ Origin(ack.value, ack.author) /\ type = ack.author.type
             /\ type # "NULL" => number = ack.author.number
  <2>1. Origin(ack.value, ack.author) /\ ack.value.tag = ack.author.type
        /\ ack.value.number = ack.author.number
    BY <1>5 DEF IInv, DeviceKept, StoreNumber, Origin, Converted
  <2>2. ack.value.tag \in InputTypes
    BY <2>1, ValueAssumption DEF Origin
  <2>3. type = ack.author.type
    BY <2>1, <2>2 DEF StoredType, InputTypes, Numeric, StringTypes
  <2>4. ack.author.type = "UNSIGNED" => ack.author.number % Word = ack.author.number
    <3>1. Word \in Nat \ {0}
      BY Powers, ValueAssumption DEF Word
    <3>2. ack.author.type = "UNSIGNED" => ack.author.number \in 0..Word - 1
      BY <2>1, ValueAssumption DEF Origin
    <3> QED
      BY <3>1, <3>2
  <2>5. type # "NULL" => number = ack.author.number
    BY <2>1, <2>2, <2>4 DEF StoredNumber, StoredType, InputTypes, Numeric, StringTypes
  <2> QED
    BY <2>1, <2>3, <2>5
<1>6. Kept(Cached)'
  BY <1>2, <1>3, <1>4, <1>5 DEF Kept, Value, Origin
<1>7. \A c \in Callers : Kept(held[c])'
  <2>1. UNCHANGED <<held, heap>> /\ heap \in Seq(Seq(Characters))
    BY DEF StoreNumber, Caches, IInv, TypeOK
  <2> QED
    BY <2>1, HeldStays
<1> QED
  BY <1>1, <1>6, <1>7 DEF IInv

LEMMA StoreStringStep ==
  ASSUME IInv, StoreString
  PROVE  IInv'
<1> DEFINE text == Buffer(ack.value)
<1>1. text \in Seq(Characters)
  BY AppendProperties, ValueAssumption DEF IInv, TypeOK, TextOK, StoreString, Buffer
<1>2. heap \in Seq(Seq(Characters)) /\ heap' = Append(heap, text)
  BY DEF IInv, TypeOK, StoreString
<1>3. /\ heap' \in Seq(Seq(Characters))
      /\ Len(heap) + 1 \in DOMAIN heap' /\ heap'[Len(heap) + 1] = text
  <2> HIDE DEF text
  <2> QED
    BY <1>1, <1>2, AppendKeeps
<1>4. TypeOK' /\ DeviceKept'
  BY <1>3 DEF IInv, TypeOK, DeviceKept, StoreString, Caches, TextOK
<1>5. \A c \in Callers : Kept(held[c])'
  <2>1. UNCHANGED held
    BY DEF StoreString, Caches
  <2> QED
    BY <1>1, <1>2, <2>1, HeldStays
<1> DEFINE value == Value(ack.value.tag, state.cached_value.number, Len(heap) + 1,
                          Len(ack.value.text))
<1>6. Cached' = [value |-> value, sent |-> ack.value, author |-> ack.author]
  BY DEF StoreString, Caches, Points, Cached
<1>7. Attached(Cached)'
  BY <1>3, <1>6 DEF Attached, Value
<1>8. Kept(Cached)'
  <2>1. Intact(Cached)'
    BY <1>7 DEF Intact
  <2>2. ASSUME ack.author # Nothing
        PROVE  /\ Origin(ack.value, ack.author) /\ value.type = ack.author.type
               /\ value.type \in StringTypes
    BY <2>2 DEF IInv, DeviceKept, StoreString, Origin, Converted, Value
  <2> QED
    BY <1>6, <1>7, <2>1, <2>2 DEF Kept, Origin
<1> QED
  BY <1>4, <1>5, <1>8 DEF IInv

LEMMA StoreFailsStep ==
  ASSUME IInv, StoreFails
  PROVE  IInv'
<1>1. TypeOK' /\ DeviceKept'
  BY DEF IInv, TypeOK, DeviceKept, StoreFails, TextOK
<1>2. Cached'.value.data = NULL /\ Cached'.sent = Nothing /\ Cached'.author = Nothing
  BY DEF StoreFails, Cached, Value
<1>3. Kept(Cached)'
  BY <1>2 DEF Kept, Intact
<1>4. \A c \in Callers : Kept(held[c])'
  <2>1. UNCHANGED <<held, heap>> /\ heap \in Seq(Seq(Characters))
    BY DEF StoreFails, IInv, TypeOK
  <2> QED
    BY <2>1, HeldStays
<1> QED
  BY <1>1, <1>3, <1>4 DEF IInv

LEMMA StoreUnsupportedStep ==
  ASSUME IInv, StoreUnsupported
  PROVE  IInv'
<1>1. TypeOK' /\ DeviceKept'
  BY DEF IInv, TypeOK, DeviceKept, StoreUnsupported, TextOK
<1>2. UNCHANGED <<heap, state, held>>
  BY DEF StoreUnsupported
<1> QED
  BY <1>1, <1>2, CopiesUnchanged DEF IInv

(* A reader's copy is the cached one.                                      *)
LEMMA CopiesStep ==
  ASSUME IInv, NEW c \in Callers, Copies(c), UNCHANGED <<device, ack, state, heap>>
  PROVE  IInv'
<1>1. DOMAIN held = Callers
  BY DEF IInv, TypeOK
<1>2. TypeOK' /\ DeviceKept'
  BY <1>1 DEF IInv, TypeOK, DeviceKept, TextOK, Copies
<1>3. Kept(Cached)'
  BY DEF IInv, Kept, Intact, Attached, Cached
<1>4. ASSUME NEW d \in Callers
      PROVE  Kept(held[d])'
  <2>1. held'[d] = IF d = c THEN Cached ELSE held[d]
    BY <1>1 DEF Copies, Cached
  <2>2. CASE d = c
    BY <2>1, <2>2 DEF IInv, Kept, Intact, Attached
  <2>3. CASE d # c
    BY <2>1, <2>3 DEF IInv, Kept, Intact, Attached
  <2> QED
    BY <2>2, <2>3
<1> QED
  BY <1>2, <1>3, <1>4 DEF IInv

LEMMA Unmoved ==
  ASSUME IInv, UNCHANGED <<device, ack, state, heap, held>>
  PROVE  IInv'
<1>1. TypeOK' /\ DeviceKept'
  BY DEF IInv, TypeOK, DeviceKept, TextOK
<1> QED
  BY <1>1, CopiesUnchanged DEF IInv

LEMMA NextIInv == IInv /\ [Next]_vars => IInv'
<1> SUFFICES ASSUME IInv, [Next]_vars PROVE IInv'
  OBVIOUS
<1>1. CASE DeviceChanges
  <2>1. PICK a \in AppValues : Changes(a, Nothing)
    BY <1>1 DEF DeviceChanges
  <2>2. TextOK(a)
    BY ValueAssumption DEF TextOK
  <2> QED
    BY <2>1, <2>2, ChangesStep
<1>2. CASE Write
  <2>1. PICK i \in Inputs : Accepts(i) /\ Changes(Converted(i), i)
    BY <1>2 DEF Write
  <2>2. TextOK(Converted(i)) /\ Origin(Converted(i), i)
    BY <2>1, ConvertedText DEF Origin
  <2> QED
    BY <2>1, <2>2, ChangesStep
<1>3. CASE Answer
  BY <1>3, AnswerStep
<1>4. CASE StoreNumber
  BY <1>4, StoreNumberStep
<1>5. CASE StoreString
  BY <1>5, StoreStringStep
<1>6. CASE StoreFails
  BY <1>6, StoreFailsStep
<1>7. CASE StoreUnsupported
  BY <1>7, StoreUnsupportedStep
<1>8. ASSUME NEW c \in Callers, Read(c)
      PROVE  IInv'
  BY <1>8, CopiesStep DEF Read
<1>9. CASE BatchRead
  BY <1>9, CopiesStep, ValueAssumption DEF BatchRead
<1>10. CASE BatchStore \/ BatchRelease
  BY <1>10, Unmoved DEF BatchStore, BatchRelease
<1>11. CASE UNCHANGED vars
  BY <1>11, Unmoved DEF vars
<1> QED
  BY <1>1, <1>2, <1>3, <1>4, <1>5, <1>6, <1>7, <1>8, <1>9, <1>10, <1>11 DEF Next

THEOREM IInvHolds == Spec => []IInv
<1> QED
  BY InitIInv, NextIInv, PTL DEF Spec
-----------------------------------------------------------------------------
(* What SubSeq leaves of a text that got a terminator is the text.         *)
LEMMA SubSeqOfTerminated ==
  ASSUME NEW text \in Seq(Characters)
  PROVE  SubSeq(Append(text, NUL), 1, Len(text)) = text
<1> DEFINE u == Append(text, NUL)
           t == SubSeq(u, 1, Len(text))
<1>1. /\ u \in Seq(Characters) /\ Len(u) = Len(text) + 1
      /\ \A k \in 1..Len(text) : u[k] = text[k]
  BY AppendProperties, ValueAssumption
<1> HIDE DEF u
<1>2. t \in Seq(Characters) /\ Len(t) = Len(text) /\ \A k \in 1..Len(text) : t[k] = u[k]
  <2>1. Len(text) \in Nat /\ \A k \in 1..Len(text) : k \in 1..Len(u) /\ u[k] \in Characters
    BY <1>1
  <2> QED
    BY <1>1, <2>1, SubSeqProperties
<1> HIDE DEF t
<1>3. t = text
  BY <1>1, <1>2, SeqEqual
<1> QED
  BY <1>3 DEF t, u

(* A field that is filled from a faithful copy shows what the device sent. *)
LEMMA FieldShows ==
  ASSUME field \in DOMAIN Datatypes, NEW copy, Faithful(copy),
         NEW n \in FieldValues(copy.value), n # Unset,
         ~(field = "cov_increment" /\ copy.sent.tag # "REAL")
  PROVE  Shows(n, copy.sent)
<1> DEFINE value == copy.value
           app == copy.sent
<1>1. CASE value.type \in StringTypes \intersect Datatypes[field] /\ value.data = NULL
  BY <1>1 DEF FieldValues, Datatypes, StringTypes, strdup_safe
<1>2. CASE /\ Given(app) /\ app.tag # "OTHER"
           /\ value.type = StoredType(app.tag)
           /\ value.type \in StringTypes => Attached(copy)
           /\ value.type \notin StringTypes \union {"NULL"} => value.number = StoredNumber(app)
  <2> HIDE DEF value, app
  <2> SUFFICES Shows(n, app)
    BY DEF app
  <2>w. Word \in Nat \ {0}
    BY Powers, ValueAssumption DEF Word
  <2>u. ASSUME app.tag = "UNSIGNED", n = value.number
        PROVE  Shows(n, app)
    <3>1. value.number = app.number % Word /\ app.number \in Nat
      BY <1>2, <2>u DEF Given, StoredType, StoredNumber, StringTypes
    <3>2. n \in 0..Word - 1 /\ (app.number - n) % Word = 0
      BY <2>w, <2>u, <3>1
    <3> QED
      BY <2>u, <3>2 DEF Shows, StringTypes
  <2>n. ASSUME app.tag \in {"REAL", "DOUBLE", "BOOLEAN"}, n = value.number
        PROVE  Shows(n, app)
    BY <1>2, <2>n DEF Shows, StoredType, StoredNumber, StringTypes
  <2>b. ASSUME app.tag = "BIT_STRING", field # "status_flags", n = value.number
        PROVE  Shows(n, app)
    <3>1. app.text \in Seq(BOOLEAN) /\ value.number = Flags(app.text)
      BY <1>2, <2>b DEF Given, StoredType, StoredNumber, StringTypes
    <3>2. Len(app.text) <= WordBits => HasBits(n, app.text, ByteBits)
      BY <2>b, <3>1, FlagsShowBits
    <3> QED
      BY <2>b, <3>2 DEF Shows, StringTypes
  <2>1. CASE field \in {"object_name", "description"}
    <3>1. app.tag = "CHARACTER_STRING" /\ app.text \in Seq(Characters)
      BY <1>2, <2>1 DEF Given, TextOK, Datatypes, StringTypes
    <3>2. value.type = "CHARACTER_STRING" /\ Attached(copy)
      BY <1>2, <3>1 DEF StoredType, StringTypes
    <3>3. heap[value.data] = Append(app.text, NUL) /\ value.length = Len(app.text)
      BY <3>1, <3>2 DEF Attached, Buffer, value, app
    <3>4. n = SubSeq(heap[value.data], 1, value.length)
      BY <2>1, <3>2 DEF FieldValues, strdup_safe, value
    <3>5. n = app.text
      BY <3>1, <3>3, <3>4, SubSeqOfTerminated
    <3> QED
      BY <3>1, <3>5 DEF Shows, StringTypes
  <2>2. CASE field = "present_value"
    <3>1. value.type \in {"REAL", "DOUBLE", "UNSIGNED"} /\ n = value.number
      BY <2>2 DEF FieldValues, value
    <3>2. app.tag \in {"REAL", "DOUBLE", "UNSIGNED", "BIT_STRING"}
      BY <1>2, <3>1 DEF StoredType
    <3> QED
      BY <2>2, <2>u, <2>n, <2>b, <3>1, <3>2
  <2>3. CASE field = "relinquish_default"
    <3>1. value.type \in {"REAL", "DOUBLE"} /\ n = value.number
      BY <2>3 DEF FieldValues, value
    <3>2. app.tag \in {"REAL", "DOUBLE"}
      BY <1>2, <3>1 DEF StoredType
    <3> QED
      BY <2>n, <3>1, <3>2
  <2>4. CASE field = "status_flags"
    <3>1. app.tag = "BIT_STRING" /\ app.text \in Seq(BOOLEAN)
      BY <1>2, <2>4 DEF Given, Datatypes
    <3>2. value.type = "UNSIGNED" /\ value.number = Flags(app.text)
      BY <1>2, <3>1 DEF StoredType, StoredNumber, StringTypes
    <3>3. n = Flags(app.text) % 2^FlagBits
      BY <2>4, <3>2 DEF FieldValues, value
    <3>4. Len(app.text) <= WordBits => HasBits(n, app.text, FlagBits)
      BY <3>1, <3>3, FlagsShowBits
    <3> QED
      BY <2>4, <3>1, <3>4 DEF Shows, StringTypes
  <2>5. CASE field = "out_of_service"
    <3>1. app.tag = "BOOLEAN"
      BY <1>2, <2>5 DEF Given, Datatypes
    <3>2. n = value.number
      BY <1>2, <2>5, <3>1 DEF StoredType, FieldValues, Member, value
    <3> QED
      BY <2>n, <3>1, <3>2
  <2>6. CASE field \in {"event_state", "units"}
    <3>1. app.tag = "ENUM" /\ app.number \in 0..Word - 1
      BY <1>2, <2>6 DEF Given, Datatypes
    <3>2. value.type = "ENUM" /\ value.number = app.number
      BY <1>2, <3>1 DEF StoredType, StoredNumber, StringTypes
    <3>3. CASE field = "event_state"
      BY <3>1, <3>2, <3>3 DEF FieldValues, Member, Shows, StringTypes, value
    <3>4. CASE field = "units"
      <4>1. n = AsSigned(app.number)
        BY <3>2, <3>4 DEF FieldValues, value
      <4>2. n = app.number \/ n = app.number - Word
        BY <4>1 DEF AsSigned
      <4>3. n % Word = app.number
        BY <2>w, <3>1, <4>2
      <4> QED
        BY <3>1, <3>4, <4>3 DEF Shows, StringTypes
    <3> QED
      BY <2>6, <3>3, <3>4
  <2>7. CASE field = "cov_increment"
    <3>1. app.tag = "REAL"
      BY <2>7 DEF app
    <3>2. n = value.number
      BY <1>2, <2>7, <3>1 DEF StoredType, FieldValues, Member, value
    <3> QED
      BY <2>n, <3>1, <3>2
  <2> QED
    BY <2>1, <2>2, <2>3, <2>4, <2>5, <2>6, <2>7 DEF Datatypes
<1> QED
  BY <1>1, <1>2 DEF Faithful

LEMMA InitFieldInv == Init => FieldInv
BY ValueAssumption DEF Init, FieldInv, Given, TextOK, FieldIsProperty

(* An input that is converted is of a type the stack has.                  *)
LEMMA ConvertedGiven ==
  ASSUME NEW input \in Inputs, Accepts(input), Converted(input).tag \in Datatypes[field]
  PROVE  Given(Converted(input))
<1>1. TextOK(Converted(input)) /\ Converted(input).tag \in InputTypes
  BY ConvertedText
<1>2. Converted(input).tag = input.type /\ Converted(input).number = input.number
  BY DEF Converted
<1>3. Word \in Nat
  BY Powers, ValueAssumption DEF Word
<1>4. input.type \in {"UNSIGNED", "ENUM"} => input.number \in 0..Word - 1 /\ input.number \in Nat
  BY <1>3, ValueAssumption
<1>5. input.type # "BIT_STRING"
  BY <1>1, <1>2 DEF InputTypes, Numeric, StringTypes
<1> QED
  BY <1>1, <1>2, <1>4, <1>5 DEF Given

(* The copies that are not written, while buffers are only added.          *)
LEMMA FaithfulStays ==
  ASSUME FieldInv, heap \in Seq(Seq(Characters)), UNCHANGED field,
         UNCHANGED heap \/ \E text \in Seq(Characters) : heap' = Append(heap, text)
  PROVE  /\ state.has_valid_cache /\ UNCHANGED state => Faithful(Cached)'
         /\ batch = "read" /\ UNCHANGED held => Faithful(held[Batcher])'
         /\ UNCHANGED <<batch, slot, held>> => FieldIsProperty'
<1>1. \A i \in DOMAIN heap : i \in DOMAIN heap' /\ heap'[i] = heap[i]
  BY AppendKeeps
<1>2. ASSUME state.has_valid_cache, UNCHANGED state PROVE Faithful(Cached)'
  BY <1>1, <1>2 DEF FieldInv, Faithful, Attached, Given, TextOK, Cached
<1>3. ASSUME batch = "read", UNCHANGED held PROVE Faithful(held[Batcher])'
  BY <1>1, <1>3 DEF FieldInv, Faithful, Attached, Given, TextOK
<1>4. ASSUME UNCHANGED <<batch, slot, held>> PROVE FieldIsProperty'
  BY <1>4 DEF FieldInv, FieldIsProperty, Shows
<1> QED
  BY <1>2, <1>3, <1>4

(* A step that touches neither the cache nor the copies.                   *)
LEMMA SourceStep ==
  ASSUME IInv, FieldInv, UNCHANGED <<field, state, heap, held, batch, slot>>,
         Given(device.value)', ack' # Nothing => Given(ack.value)'
  PROVE  FieldInv'
<1>1. heap \in Seq(Seq(Characters))
  BY DEF IInv, TypeOK
<1>2. /\ state.has_valid_cache => Faithful(Cached)'
      /\ batch = "read" => Faithful(held[Batcher])'
      /\ FieldIsProperty'
  BY <1>1, FaithfulStays
<1> QED
  BY <1>2 DEF FieldInv

(* A step of the handler: what it leaves in the cache is faithful.         *)
LEMMA StoreStep ==
  ASSUME IInv, FieldInv, UNCHANGED <<field, device, held, batch, slot>>, ack' = Nothing,
         UNCHANGED heap \/ \E text \in Seq(Characters) : heap' = Append(heap, text),
         state'.has_valid_cache => Faithful(Cached)'
  PROVE  FieldInv'
<1>1. heap \in Seq(Seq(Characters))
  BY DEF IInv, TypeOK
<1>2. /\ batch = "read" => Faithful(held[Batcher])'
      /\ FieldIsProperty'
  BY <1>1, FaithfulStays
<1>3. Given(device.value)'
  BY DEF FieldInv, Given, TextOK
<1> QED
  BY <1>2, <1>3 DEF FieldInv

LEMMA StoreNumberFaithful ==
  ASSUME FieldInv, StoreNumber
  PROVE  Faithful(Cached)'
<1> DEFINE type == StoredType(ack.value.tag)
           number == IF ack.value.tag = "NULL" THEN state.cached_value.number
                     ELSE StoredNumber(ack.value)
           value == Value(type, number, state.cached_value.data, state.cached_value.length)
<1>1. Cached' = [value |-> value, sent |-> ack.value, author |-> ack.author] /\ field' = field
  BY DEF StoreNumber, Caches, Cached
<1>2. /\ Given(ack.value) /\ ack.value.tag # "OTHER" /\ type \notin StringTypes
      /\ type # "NULL" => number = StoredNumber(ack.value)
  BY DEF FieldInv, StoreNumber, StoredType, StringTypes
<1> HIDE DEF type, number
<1>3. Cached'.value.type = type /\ Cached'.value.number = number /\ Cached'.sent = ack.value
  BY <1>1 DEF Value
<1>4. type = StoredType(ack.value.tag)
  BY DEF type
<1> QED
  BY <1>1, <1>2, <1>3, <1>4 DEF Faithful, Given, TextOK

LEMMA StoreStringFaithful ==
  ASSUME IInv, FieldInv, StoreString
  PROVE  Faithful(Cached)' /\ \E text \in Seq(Characters) : heap' = Append(heap, text)
<1> DEFINE text == Buffer(ack.value)
           value == Value(ack.value.tag, state.cached_value.number, Len(heap) + 1,
                          Len(ack.value.text))
<1>1. text \in Seq(Characters)
  BY AppendProperties, ValueAssumption DEF IInv, TypeOK, TextOK, StoreString, Buffer
<1>2. heap \in Seq(Seq(Characters)) /\ heap' = Append(heap, text)
  BY DEF IInv, TypeOK, StoreString
<1>3. Len(heap) + 1 \in DOMAIN heap' /\ heap'[Len(heap) + 1] = text
  <2> HIDE DEF text
  <2> QED
    BY <1>1, <1>2, AppendKeeps
<1>4. Cached' = [value |-> value, sent |-> ack.value, author |-> ack.author] /\ field' = field
  BY DEF StoreString, Caches, Points, Cached
<1>5. Attached(Cached)'
  BY <1>3, <1>4 DEF Attached, Value
<1>6. /\ Given(ack.value) /\ ack.value.tag \in StringTypes
      /\ StoredType(ack.value.tag) = ack.value.tag /\ ack.value.tag # "OTHER"
  BY DEF FieldInv, StoreString, StoredType, StringTypes
<1>7. Cached'.value.type = ack.value.tag /\ Cached'.sent = ack.value
  BY <1>4 DEF Value
<1>8. Faithful(Cached)'
  BY <1>4, <1>5, <1>6, <1>7 DEF Faithful, Given, TextOK
<1> QED
  BY <1>1, <1>2, <1>8

(* The failed allocation leaves no string in a cache that may be read.     *)
LEMMA StoreFailsFaithful ==
  ASSUME FieldInv, StoreFails
  PROVE  Faithful(Cached)'
<1>1. Cached'.value.type = ack.value.tag /\ Cached'.value.data = NULL /\ field' = field
  BY DEF StoreFails, Cached, Value
<1>2. ack.value.tag \in StringTypes \intersect Datatypes[field]
  BY DEF FieldInv, StoreFails, Given
<1> QED
  BY <1>1, <1>2 DEF Faithful

LEMMA NextFieldInv == IInv /\ FieldInv /\ [Next]_vars => FieldInv'
<1> SUFFICES ASSUME IInv, FieldInv, [Next]_vars PROVE FieldInv'
  OBVIOUS
<1>h. heap \in Seq(Seq(Characters)) /\ DOMAIN held = Callers /\ Batcher \in Callers
  BY ValueAssumption DEF IInv, TypeOK
<1>1. ASSUME NEW value, NEW author, Changes(value, author), Given(value)
      PROVE  FieldInv'
  <2>1. device'.value = value /\ UNCHANGED <<field, ack, state, heap, held, batch, slot>>
    BY <1>1 DEF Changes
  <2>2. Given(device.value)' /\ (ack' # Nothing => Given(ack.value)')
    BY <1>1, <2>1 DEF FieldInv, Given, TextOK
  <2> QED
    BY <2>1, <2>2, SourceStep
<1>2. CASE DeviceChanges
  <2>1. PICK a \in AppValues : Changes(a, Nothing)
    BY <1>2 DEF DeviceChanges
  <2>2. Given(a)
    BY <2>1, ValueAssumption DEF Given, TextOK, Changes
  <2> QED
    BY <1>1, <2>1, <2>2
<1>3. CASE Write
  <2>1. PICK i \in Inputs : Accepts(i) /\ Changes(Converted(i), i)
    BY <1>3 DEF Write
  <2>2. Given(Converted(i))
    BY <2>1, ConvertedGiven DEF Changes
  <2> QED
    BY <1>1, <2>1, <2>2
<1>4. CASE Answer
  <2>1. Given(device.value)' /\ (ack' # Nothing => Given(ack.value)')
    BY <1>4 DEF FieldInv, Given, TextOK, Answer
  <2> QED
    BY <1>4, <2>1, SourceStep DEF Answer
<1>5. CASE StoreNumber
  BY <1>5, StoreNumberFaithful, StoreStep DEF StoreNumber, Caches
<1>6. CASE StoreString
  BY <1>6, StoreStringFaithful, StoreStep DEF StoreString, Caches
<1>7. CASE StoreFails
  BY <1>7, StoreFailsFaithful, StoreStep DEF StoreFails
<1>8. CASE StoreUnsupported
  <2>1. state'.has_valid_cache => Faithful(Cached)'
    BY <1>8, <1>h, FaithfulStays DEF StoreUnsupported
  <2> QED
    BY <1>8, <2>1, StoreStep DEF StoreUnsupported
<1>9. CASE UNCHANGED <<field, device, ack, state, heap>> /\ (UNCHANGED <<held, batch, slot>>
           \/ (\E c \in Callers : Read(c)) \/ BatchRead \/ BatchStore \/ BatchRelease)
  <2>1. Given(device.value)' /\ (ack' # Nothing => Given(ack.value)')
    BY <1>9 DEF FieldInv, Given, TextOK
  <2>2. state'.has_valid_cache => Faithful(Cached)'
    BY <1>9, <1>h, FaithfulStays
  <2>3. CASE UNCHANGED <<held, batch, slot>>
    <3>1. (batch = "read" => Faithful(held[Batcher])') /\ FieldIsProperty'
      BY <1>9, <1>h, <2>3, FaithfulStays
    <3> QED
      BY <1>9, <2>1, <2>2, <2>3, <3>1 DEF FieldInv
  <2>4. ASSUME NEW c \in Callers, Read(c)
        PROVE  FieldInv'
    <3>1. held'[Batcher] = held[Batcher] /\ UNCHANGED <<batch, slot>>
      BY <1>h, <2>4 DEF Read, Copies
    <3>2. batch = "read" => Faithful(held[Batcher])'
      BY <1>9, <3>1 DEF FieldInv, Faithful, Attached, Given, TextOK
    <3>3. FieldIsProperty'
      BY <1>9, <3>1 DEF FieldInv, FieldIsProperty, Shows
    <3> QED
      BY <1>9, <2>1, <2>2, <3>1, <3>2, <3>3 DEF FieldInv
  <2>5. CASE BatchRead
    <3>1. held'[Batcher] = Cached /\ state.has_valid_cache /\ batch' = "read"
      BY <1>h, <2>5 DEF BatchRead, Copies, Cached
    <3>2. Faithful(held[Batcher])'
      BY <1>9, <3>1 DEF FieldInv, Faithful, Attached, Given, TextOK
    <3> QED
      BY <1>9, <2>1, <2>2, <3>1, <3>2 DEF FieldInv, FieldIsProperty
  <2>6. CASE BatchStore
    <3>1. /\ Faithful(held[Batcher]) /\ slot' \in FieldValues(held[Batcher].value)
          /\ batch' = "stored" /\ held' = held /\ field \in DOMAIN Datatypes
      BY <2>6 DEF BatchStore, FieldInv
    <3>2. slot' # Unset /\ ~(field = "cov_increment" /\ held[Batcher].sent.tag # "REAL")
            => Shows(slot', held[Batcher].sent)
      BY <3>1, FieldShows
    <3>3. FieldIsProperty'
      BY <1>9, <3>1, <3>2 DEF FieldIsProperty, Shows
    <3> QED
      BY <1>9, <2>1, <2>2, <3>1, <3>3 DEF FieldInv
  <2>7. CASE BatchRelease
    BY <1>9, <2>1, <2>2, <2>7 DEF BatchRelease, FieldInv, FieldIsProperty
  <2> QED
    BY <1>9, <2>3, <2>4, <2>5, <2>6, <2>7
<1>10. CASE UNCHANGED vars \/ (\E c \in Callers : Read(c)) \/ BatchRead \/ BatchStore \/ BatchRelease
  BY <1>9, <1>10 DEF vars, Read, BatchRead, BatchStore, BatchRelease
<1> QED
  BY <1>2, <1>3, <1>4, <1>5, <1>6, <1>7, <1>8, <1>10 DEF Next

-----------------------------------------------------------------------------
(* Texts stay texts, whatever the devices and the callers say.             *)
THEOREM TypeCorrect == Spec => []TypeOK
<1>1. IInv => TypeOK
  BY DEF IInv
<1> QED
  BY <1>1, IInvHolds, PTL

(* What a reader holds of a string stays what the device sent, because the *)
(* store neither frees nor reuses the buffer of the value before.          *)
THEOREM StringsStay == Spec => []HeldStringIsSent
<1>1. IInv => HeldStringIsSent
  BY DEF IInv, Kept, HeldStringIsSent
<1> QED
  BY <1>1, IInvHolds, PTL

(* The store undoes the conversion: what was written is what is read, a    *)
(* text up to its first NUL.                                               *)
THEOREM ReadBack == Spec => []ReadBackIsWritten
<1>1. ASSUME IInv
      PROVE  ReadBackIsWritten
  <2> SUFFICES ASSUME NEW c \in Callers, held[c].author # Nothing
               PROVE  ReadsAs(held[c].value, held[c].author)
    BY DEF ReadBackIsWritten
  <2> DEFINE input == held[c].author
             value == held[c].value
  <2>1. /\ input \in Inputs /\ Accepts(input) /\ held[c].sent = Converted(input)
        /\ value.type = input.type
        /\ value.type \in StringTypes => Attached(held[c])
        /\ value.type \notin StringTypes \union {"NULL"} => value.number = input.number
    BY <1>1 DEF IInv, Kept, Origin
  <2>2. CASE input.type = "CHARACTER_STRING"
    <3> DEFINE text == CString(Terminated(input.text))
    <3>1. input.text \in Seq(Characters) /\ Len(input.text) > 0
      BY <2>1, <2>2, ConvertedText DEF StringTypes
    <3>2. /\ text \in Seq(Characters) /\ 1..Len(text) = Before(input.text, NUL)
          /\ \A n \in 1..Len(text) : text[n] = input.text[n]
      BY <3>1, CStringOfTerminated
    <3>3. heap[value.data] = Append(text, NUL) /\ value.length = Len(text)
      BY <2>1, <2>2 DEF Attached, Buffer, Converted, StringTypes
    <3> HIDE DEF text, value, input
    <3>4. /\ \A n \in 1..Len(text) : Append(text, NUL)[n] = text[n]
          /\ Append(text, NUL)[Len(text) + 1] = NUL
      BY <3>2, AppendProperties, ValueAssumption
    <3>5. ReadsAs(value, input)
      BY <2>1, <2>2, <3>2, <3>3, <3>4 DEF ReadsAs
    <3> QED
      BY <3>5 DEF value, input
  <2>3. CASE input.type = "OCTET_STRING"
    BY <2>1, <2>3 DEF Attached, Buffer, Converted, StringTypes, ReadsAs
  <2>4. CASE input.type \notin StringTypes
    BY <2>1, <2>4 DEF StringTypes, ReadsAs
  <2> QED
    BY <2>2, <2>3, <2>4 DEF StringTypes
<1> QED
  BY <1>1, IInvHolds, PTL

(* A field of the batch shows the property as the device sent it, bit by   *)
(* bit, whatever came in between the device and the field, and whatever    *)
(* the widths are; of cov_increment only if it is a REAL.                  *)
THEOREM FieldHolds == Spec => []FieldIsProperty
<1>1. FieldInv => FieldIsProperty
  BY DEF FieldInv
<1> QED
  BY <1>1, InitFieldInv, NextFieldInv, IInvHolds, PTL DEF Spec
=============================================================================
