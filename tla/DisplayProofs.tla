------------------------------ MODULE DisplayProofs ------------------------------
(***************************************************************************)
(* Proofs about Display: for every number of ranges and beams and every    *)
(* fan, what a wrapper deduces is what the sonar sent, the views agree,    *)
(* and a pixel shows the beam it should.                                   *)
(*                                                                         *)
(* The argument is arithmetic: divisions that leave no remainder, the two  *)
(* digits of an index in base nBeams, quotients that stay in range; and an *)
(* induction over the turns of the loop that looks for the nearest beam.   *)
(***************************************************************************)
EXTENDS Display, WellFoundedInduction, TLAPS

(* Multiples, remainders and quotients. *)

LEMMA MultiplePositive ==
  ASSUME NEW a \in Nat \ {0}, NEW d \in Int, 0 <= a * d, a * d < a
  PROVE  d = 0
<1>1. CASE d >= 1
  <2>1. a * d >= a
    BY <1>1
  <2> QED  BY <2>1
<1>2. CASE d <= 0 - 1
  <2>1. a * d < 0
    BY <1>2
  <2> QED  BY <2>1
<1> QED  BY <1>1, <1>2

LEMMA Division ==
  ASSUME NEW x \in Int, NEW a \in Nat \ {0}
  PROVE  /\ x \div a \in Int /\ x % a \in 0 .. a - 1
         /\ x = a * (x \div a) + (x % a)
OBVIOUS

LEMMA ExactDivision ==
  ASSUME NEW a \in Nat \ {0}, NEW b \in Int
  PROVE  (a * b) \div a = b /\ (a * b) % a = 0
<1> DEFINE q == (a * b) \div a
           r == (a * b) % a
<1>1. a * b \in Int
  OBVIOUS
<1>2. q \in Int /\ r \in 0 .. a - 1 /\ a * b = a * q + r
  BY <1>1, Division
<1> HIDE DEF q, r
<1>3. a * (b - q) = r
  BY <1>2
<1>4. b - q = 0
  BY <1>2, <1>3, MultiplePositive
<1>5. q = b /\ r = 0
  BY <1>2, <1>3, <1>4
<1> QED  BY <1>5 DEF q, r

(* The quotient of a scaled interval. *)
LEMMA QuotientInRange ==
  ASSUME NEW n \in Nat, NEW d \in Nat \ {0}, NEW x \in 0 .. d
  PROVE  (n * x) \div d \in 0 .. n
<1> DEFINE q == (n * x) \div d
           r == (n * x) % d
<1>1. n * x \in Int /\ 0 <= n * x /\ n * x <= n * d
  OBVIOUS
<1>2. q \in Int /\ r \in 0 .. d - 1 /\ n * x = d * q + r
  BY <1>1, Division
<1> HIDE DEF q, r
<1>3. q >= 0
  <2>1. SUFFICES ASSUME q <= 0 - 1  PROVE FALSE
    BY <1>2
  <2>2. d * q <= 0 - d
    BY <1>2, <2>1
  <2> QED  BY <1>1, <1>2, <2>2
<1>4. q <= n
  <2>1. SUFFICES ASSUME q >= n + 1  PROVE FALSE
    BY <1>2
  <2>2. d * q >= d * n + d
    BY <1>2, <2>1
  <2> QED  BY <1>1, <1>2, <2>2
<1>5. q \in 0 .. n
  BY <1>2, <1>3, <1>4
<1> QED  BY <1>5 DEF q

(* Two numbers with the same digits in base n are the same cell. *)
LEMMA DigitsAreUnique ==
  ASSUME NEW n \in Nat \ {0}, NEW r \in Int, NEW s \in Int,
         NEW b \in 0 .. n - 1, NEW c \in 0 .. n - 1, n * r + b = n * s + c
  PROVE  r = s /\ b = c
<1>1. n * (r - s) = c - b /\ n * (s - r) = b - c
  OBVIOUS
<1>2. CASE c >= b
  <2>1. r - s = 0
    BY <1>1, <1>2, MultiplePositive
  <2> QED  BY <1>1, <2>1
<1>3. CASE b >= c
  <2>1. s - r = 0
    BY <1>1, <1>3, MultiplePositive
  <2> QED  BY <1>1, <2>1
<1> QED  BY <1>2, <1>3

LEMMA DigitsInRange ==
  ASSUME NEW n \in Nat \ {0}, NEW m \in Nat \ {0}, NEW r \in 0 .. m - 1, NEW b \in 0 .. n - 1
  PROVE  n * r + b \in 0 .. n * m - 1
<1>1. n * r >= 0 /\ n * r <= n * (m - 1)
  OBVIOUS
<1>2. n * (m - 1) = n * m - n /\ n * r \in Int /\ n * m \in Int
  OBVIOUS
<1> QED  BY <1>1, <1>2
-------------------------------------------------------------------------------
(* The loop over the bearings. *)

(* Induction over the naturals for a set: what holds at 0 and is passed    *)
(* on from each number to the next holds everywhere.                       *)
LEMMA Induction ==
  ASSUME NEW S, 0 \in S, \A n \in Nat : n \in S => n + 1 \in S
  PROVE  Nat \subseteq S
<1> SUFFICES ASSUME Nat \ S # {}  PROVE FALSE
  OBVIOUS
<1> DEFINE R == {p \in Nat \X Nat : p[1] < p[2]}
<1>1. IsWellFoundedOn(R, Nat)
  BY NatLessThanWellFounded DEF OpToRel
<1> HIDE DEF R
<1>2. PICK x \in Nat \ S : \A y \in Nat \ S : ~ (<<y, x>> \in R)
  <2>1. Nat \ S \subseteq Nat
    OBVIOUS
  <2> QED  BY <1>1, <2>1, WFMin
<1>3. x # 0 /\ x - 1 \in Nat /\ (x - 1) + 1 = x
  BY <1>2
<1>4. x - 1 \in Nat \ S
  BY <1>2, <1>3
<1>5. <<x - 1, x>> \in R
  BY <1>3 DEF R
<1> QED  BY <1>2, <1>4, <1>5

Turn(p, b, i, before) ==
  IF i = 0 THEN 0 ELSE IF Closer(p, b, i, before) THEN i ELSE before

Loop(p, b, n, f) == f = [i \in 0 .. n |-> Turn(p, b, i, f[i - 1])]

LEMMA LoopExists ==
  ASSUME NEW p, NEW b, NEW n \in Nat
  PROVE  \E f : Loop(p, b, n, f)
<1> DEFINE S == {k \in Nat : \E f : Loop(p, b, k, f)}
<1>1. 0 \in S
  <2> DEFINE f == [i \in 0 .. 0 |-> 0]
  <2>1. f = [i \in 0 .. 0 |-> Turn(p, b, i, f[i - 1])]
    BY DEF Turn
  <2>2. Loop(p, b, 0, f)
    BY <2>1 DEF Loop
  <2> QED  BY <2>2
<1>2. ASSUME NEW k \in Nat, k \in S  PROVE k + 1 \in S
  <2>1. PICK f : Loop(p, b, k, f)
    BY <1>2
  <2> DEFINE g == [i \in 0 .. k + 1 |-> IF i = k + 1 THEN Turn(p, b, k + 1, f[k]) ELSE f[i]]
  <2>2. \A i \in 0 .. k : g[i] = f[i] /\ f[i] = Turn(p, b, i, f[i - 1])
    BY <2>1 DEF Loop
  <2>3. ASSUME NEW i \in 0 .. k + 1  PROVE g[i] = Turn(p, b, i, g[i - 1])
    <3>1. CASE i = k + 1
      <4>1. i - 1 = k /\ k \in 0 .. k /\ g[k] = f[k]
        BY <3>1, <2>2
      <4> QED  BY <3>1, <4>1
    <3>2. CASE i # k + 1 /\ i # 0
      <4>1. i \in 0 .. k /\ i - 1 \in 0 .. k
        BY <3>2
      <4> QED  BY <4>1, <2>2
    <3>3. CASE i = 0
      <4>1. i \in 0 .. k
        BY <3>3
      <4> QED  BY <3>3, <4>1, <2>2 DEF Turn
    <3> QED  BY <3>1, <3>2, <3>3
  <2>4. DOMAIN g = 0 .. k + 1 /\ g = [i \in 0 .. k + 1 |-> g[i]]
    OBVIOUS
  <2> HIDE DEF g
  <2>5. Loop(p, b, k + 1, g)
    BY <2>3, <2>4 DEF Loop
  <2> QED  BY <2>5
<1> HIDE DEF S
<1>3. n \in S
  BY <1>1, <1>2, Induction
<1> QED  BY <1>3 DEF S

(* After every turn, idx is a beam none of those seen is nearer than.      *)
LEMMA LoopKeepsTheNearest ==
  ASSUME NEW p, NEW b, NEW n \in Nat, NEW f, Loop(p, b, n, f),
         \A i \in 0 .. n : Distance(p, b, i) \in Int
  PROVE  \A i \in 0 .. n :
           f[i] \in 0 .. i /\ \A j \in 0 .. i : Distance(p, b, f[i]) <= Distance(p, b, j)
<1> DEFINE D(i) == Distance(p, b, i)
           S == {k \in Nat : k <= n =>
                   f[k] \in 0 .. k /\ \A j \in 0 .. k : D(f[k]) <= D(j)}
<1>1. \A i \in 0 .. n : f[i] = Turn(p, b, i, f[i - 1])
  BY DEF Loop
<1>2. 0 \in S
  <2>1. f[0] = 0 /\ D(0) \in Int
    BY <1>1 DEF Turn
  <2>2. \A j \in 0 .. 0 : j = 0
    OBVIOUS
  <2>3. D(0) <= D(0)
    BY <2>1
  <2> HIDE DEF D
  <2> QED  BY <2>1, <2>2, <2>3
<1>3. ASSUME NEW k \in Nat, k \in S  PROVE k + 1 \in S
  <2>1. SUFFICES ASSUME k + 1 <= n
                 PROVE  /\ f[k + 1] \in 0 .. k + 1
                        /\ \A j \in 0 .. k + 1 : D(f[k + 1]) <= D(j)
    OBVIOUS
  <2>2. f[k] \in 0 .. k /\ \A j \in 0 .. k : D(f[k]) <= D(j)
    BY <1>3, <2>1
  <2>3. f[k + 1] = IF D(k + 1) < D(f[k]) THEN k + 1 ELSE f[k]
    <3>1. k + 1 \in 0 .. n /\ k + 1 # 0 /\ (k + 1) - 1 = k
      BY <2>1
    <3> QED  BY <3>1, <1>1 DEF Turn, Closer
  <2>4. \A j \in 0 .. k + 1 : D(j) \in Int
    BY <2>1
  <2> HIDE DEF D
  <2>5. D(f[k]) \in Int
    BY <2>2, <2>4
  <2>6. f[k + 1] \in 0 .. k + 1
    BY <2>2, <2>3
  <2>7. ASSUME NEW j \in 0 .. k + 1  PROVE D(f[k + 1]) <= D(j)
    <3>1. CASE j \in 0 .. k
      <4>1. D(f[k]) <= D(j) /\ D(j) \in Int /\ D(k + 1) \in Int
        BY <3>1, <2>2, <2>4
      <4> QED  BY <4>1, <2>3, <2>5
    <3>2. CASE j = k + 1
      <4>1. D(k + 1) \in Int
        BY <2>4
      <4> QED  BY <3>2, <4>1, <2>3, <2>5
    <3> QED  BY <3>1, <3>2
  <2> QED  BY <2>6, <2>7
<1>4. ASSUME NEW i \in 0 .. n
      PROVE  f[i] \in 0 .. i /\ \A j \in 0 .. i : D(f[i]) <= D(j)
  <2> HIDE DEF D, S
  <2>1. i \in S
    BY <1>2, <1>3, Induction
  <2> QED  BY <2>1 DEF S
<1> QED  BY <1>4

(* The table gives every angle a nearest beam.                             *)
LEMMA TableIsNearest ==
  ASSUME NEW p, p.nBeams \in Nat \ {0}, NEW b \in Beams(p),
         \A i \in Beams(p) : Distance(p, b, i) \in Int
  PROVE  /\ BearingLut(p)[b] \in Beams(p)
         /\ \A i \in Beams(p) : Distance(p, b, BearingLut(p)[b]) <= Distance(p, b, i)
<1> DEFINE n == p.nBeams - 1
<1>1. n \in Nat /\ Beams(p) = 0 .. n /\ n \in 0 .. n
  BY DEF Beams
<1>2. Loop(p, b, n, Nearest(p, b))
  <2>1. \E f : Loop(p, b, n, f)
    BY <1>1, LoopExists
  <2>2. Nearest(p, b) = CHOOSE f : Loop(p, b, n, f)
    BY <1>1 DEF Nearest, Loop, Turn
  <2> QED  BY <2>1, <2>2
<1>3. BearingLut(p)[b] = Nearest(p, b)[n]
  BY DEF BearingLut
<1> HIDE DEF n
<1>4. Nearest(p, b)[n] \in 0 .. n
      /\ \A i \in 0 .. n : Distance(p, b, Nearest(p, b)[n]) <= Distance(p, b, i)
  BY <1>1, <1>2, LoopKeepsTheNearest
<1> QED  BY <1>1, <1>3, <1>4
-------------------------------------------------------------------------------
(* What a ping is. *)

LEMMA PingsAreTyped ==
  ASSUME NEW p \in Pings
  PROVE  /\ p.version \in {1, 2} /\ p.nRanges \in RangeCounts /\ p.bearings \in Fans
         /\ p.nBeams = Len(p.bearings) /\ p.size \in SampleSizes /\ p.gains \in BOOLEAN
         /\ p.dataSize \in {p.size - 1, InvalidSize}
         /\ p.imageSize = p.nRanges * (GainBytes(p.gains) + p.nBeams * p.size)
         /\ p.gainFlag = p.gains /\ p.wideFlag = (p.size = 2)
         /\ p.mode \in Modes /\ p.range \in FullRanges
<1>1. PICK v \in {1, 2}, nr \in RangeCounts, bs \in Fans, s \in SampleSizes, g \in BOOLEAN,
           d \in {n - 1 : n \in SampleSizes} \union {InvalidSize}, m \in Modes,
           r \in FullRanges : p = Ping(v, nr, bs, s, g, d, m, r)
  BY DEF Pings
<1>2. p.dataSize \in {p.size - 1, InvalidSize}
  BY DEF Pings
<1> QED  BY <1>1, <1>2 DEF Ping

LEMMA PingsAreSized ==
  ASSUME NEW p \in Pings
  PROVE  /\ p.nRanges \in Nat \ {0} /\ p.range \in Nat \ {0} /\ p.size \in 1 .. 4
         /\ p.bearings \in Seq(Int) /\ p.nBeams = Len(p.bearings)
         /\ p.nBeams \in Nat /\ p.nBeams > 1
         /\ GainBytes(p.gains) \in {0, 4}
         /\ Known(p) <=> p.dataSize = p.size - 1
         /\ ~ Known(p) => p.dataSize = InvalidSize
<1>1. /\ p.nRanges \in Nat \ {0} /\ p.range \in Nat \ {0} /\ p.size \in 1 .. 4
      /\ p.bearings \in Seq(Int) /\ p.nBeams = Len(p.bearings) /\ Len(p.bearings) > 1
  BY PingsAreTyped, SizesAssumption, FansAssumption
<1>2. GainBytes(p.gains) \in {0, 4}
  BY DEF GainBytes
<1>3. p.dataSize \in {p.size - 1, InvalidSize} /\ p.size - 1 \in 0 .. 3
      /\ InvalidSize \notin 0 .. 3
  BY <1>1, PingsAreTyped, InvalidAssumption
<1> QED  BY <1>1, <1>2, <1>3 DEF Known, DataSizes

(* The image is nRanges lines, each of a gain and nBeams samples.          *)
LEMMA ImageIsLines ==
  ASSUME NEW p \in Pings
  PROVE  LET line == GainBytes(p.gains) + p.nBeams * p.size
         IN  /\ line \in Nat
             /\ p.imageSize \div p.nRanges = line /\ p.imageSize % p.nRanges = 0
<1> DEFINE line == GainBytes(p.gains) + p.nBeams * p.size
<1>1. line \in Nat
  <2>1. p.nBeams \in Nat /\ p.size \in Nat /\ GainBytes(p.gains) \in Nat
    BY PingsAreSized
  <2>2. p.nBeams * p.size \in Nat
    BY <2>1
  <2> QED  BY <2>1, <2>2
<1>2. p.imageSize = p.nRanges * line /\ p.nRanges \in Nat \ {0}
  BY PingsAreTyped, PingsAreSized
<1> HIDE DEF line
<1>3. line \in Int
  BY <1>1
<1>4. p.imageSize \div p.nRanges = line /\ p.imageSize % p.nRanges = 0
  BY <1>2, <1>3, ExactDivision
<1> QED  BY <1>1, <1>4 DEF line

(* The wrapper of version 2 compares the image with its samples alone.     *)
LEMMA GainsShowInTheSize ==
  ASSUME NEW n \in Nat \ {0}, NEW b \in Nat, NEW s \in Nat, NEW g \in BOOLEAN
  PROVE  n * (GainBytes(g) + b * s) > s * b * n <=> g
<1>1. b * s \in Nat /\ s * b * n = n * (b * s)
  OBVIOUS
<1>2. CASE g
  <2>1. GainBytes(g) = 4
    BY <1>2 DEF GainBytes
  <2>2. n * (4 + b * s) = n * 4 + n * (b * s) /\ n * 4 > 0 /\ n * (b * s) \in Int
    BY <1>1
  <2>3. n * (4 + b * s) > n * (b * s)
    BY <2>2
  <2> QED  BY <1>1, <1>2, <2>1, <2>3
<1>3. CASE ~ g
  <2>1. GainBytes(g) = 0
    BY <1>3 DEF GainBytes
  <2>2. n * (0 + b * s) = n * (b * s) /\ n * (b * s) \in Int
    BY <1>1
  <2>3. ~ (n * (0 + b * s) > n * (b * s))
    BY <2>2
  <2> QED  BY <1>1, <1>3, <2>1, <2>3
<1> QED  BY <1>2, <1>3

(* What the wrappers deduce is what the sonar sent.                        *)
LEMMA Deductions ==
  ASSUME NEW p \in Pings, Terminates(p)
  PROVE  SampleSize(p) = p.size /\ HasGains(p) = p.gains
<1> DEFINE line == GainBytes(p.gains) + p.nBeams * p.size
<1>1. /\ p.nRanges \in Nat \ {0} /\ p.size \in 1 .. 4 /\ p.nBeams \in Nat /\ p.nBeams > 1
      /\ p.gains \in BOOLEAN /\ p.gainFlag = p.gains /\ p.imageSize = p.nRanges * line
      /\ p.version \in {1, 2} /\ GainBytes(p.gains) \in {0, 4}
  BY PingsAreTyped, PingsAreSized
<1>2. line \in Nat /\ p.imageSize \div p.nRanges = line /\ p.imageSize % p.nRanges = 0
  BY ImageIsLines
<1>3. IsPing2(p) => Known(p)
  BY <1>2 DEF Terminates
<1>4. HasGains(p) = p.gains
  <2>1. CASE IsPing2(p)
    <3>1. Known(p) /\ p.dataSize + 1 = p.size
      BY <1>1, <1>3, <2>1, PingsAreSized
    <3>2. HasGains(p) = (p.imageSize > p.size * p.nBeams * p.nRanges)
      BY <2>1, <3>1 DEF HasGains
    <3>3. p.nRanges * (GainBytes(p.gains) + p.nBeams * p.size) > p.size * p.nBeams * p.nRanges
            <=> p.gains
      <4>1. p.nRanges \in Nat \ {0} /\ p.nBeams \in Nat /\ p.size \in Nat /\ p.gains \in BOOLEAN
        BY <1>1
      <4> QED  BY <4>1, GainsShowInTheSize
    <3> QED  BY <1>1, <3>2, <3>3
  <2>2. CASE ~ IsPing2(p)
    BY <1>1, <2>2 DEF HasGains
  <2> QED  BY <2>1, <2>2
<1>5. SampleSize(p) = p.size
  <2>1. CASE Known(p)
    <3>1. p.dataSize + 1 = p.size
      BY <1>1, <2>1, PingsAreSized
    <3> QED  BY <2>1, <3>1 DEF SampleSize
  <2>2. CASE ~ Known(p)
    <3>1. SampleSize(p) = Deduced(p, p.gains)
      BY <1>4, <2>2 DEF SampleSize
    <3>2. SampleBytes(p, p.gains) = p.nBeams * p.size
      <4>1. p.nBeams * p.size \in Int
        BY <1>1
      <4> QED  BY <1>1, <1>2, <4>1 DEF SampleBytes
    <3>3. (p.nBeams * p.size) \div p.nBeams = p.size
      <4>1. p.nBeams \in Nat \ {0} /\ p.size \in Int
        BY <1>1
      <4> QED  BY <4>1, ExactDivision
    <3>4. p.size * p.nBeams = p.nBeams * p.size
      BY <1>1
    <3> QED  BY <1>2, <3>1, <3>2, <3>3, <3>4 DEF Deduced
  <2> QED  BY <2>1, <2>2
<1> QED  BY <1>4, <1>5
-------------------------------------------------------------------------------
(* Where samples are. *)

(* Three ways to the address of sample b of line r agree: lines of a gain  *)
(* of k columns and n samples, or of k * s bytes more than their samples.  *)
LEMMA AddressesAgree ==
  ASSUME NEW n \in Nat, NEW s \in Nat, NEW k \in Nat, NEW r \in Nat, NEW b \in Nat
  PROVE  (r * (n + k) + (k + b)) * s = r * (k * s + n * s) + k * s + b * s
<1>1. (r * (n + k) + (k + b)) * s = (r * (n + k)) * s + (k + b) * s
  OBVIOUS
<1>2. (k + b) * s = k * s + b * s /\ (r * (n + k)) * s = r * ((n + k) * s)
  OBVIOUS
<1>3. (n + k) * s = k * s + n * s
  OBVIOUS
<1>4. r * (k * s + n * s) \in Int /\ k * s \in Int /\ b * s \in Int
  OBVIOUS
<1> QED  BY <1>1, <1>2, <1>3, <1>4

LEMMA ViewsAgreeOn ==
  ASSUME NEW p \in Pings, Terminates(p), Viewable(p), NEW r \in Ranges(p), NEW b \in Beams(p)
  PROVE  LET line == r * (GainBytes(p.gains) + p.nBeams * p.size)
             sample == line + GainBytes(p.gains) + b * p.size
         IN  /\ DataAddress(p, r, b) = sample
             /\ RawAddress(p, r, GainColumns(p) + b) = sample
             /\ p.size \in {1, 2} => SourceAddress(p, r, b) = sample
             /\ p.gains => GainAddress(p, r) = line
<1> DEFINE G == GainBytes(p.gains)
           line == r * (G + p.nBeams * p.size)
           sample == line + G + b * p.size
<1>1. SampleSize(p) = p.size /\ HasGains(p) = p.gains
  BY Deductions
<1>2. /\ p.size \in {1, 2, 4} /\ p.nBeams \in Nat /\ p.nRanges \in Nat /\ p.gains \in BOOLEAN
      /\ G \in {0, 4} /\ r \in Nat /\ b \in Nat
  BY <1>1, PingsAreTyped, PingsAreSized DEF Viewable, Ranges, Beams
<1>3. line \in Int /\ b * p.size \in Int
  <2>1. p.nBeams * p.size \in Nat
    BY <1>2
  <2>2. G + p.nBeams * p.size \in Nat
    BY <1>2, <2>1
  <2> QED  BY <1>2, <2>2
<1>4. DataAddress(p, r, b) = sample
  <2>1. DataAddress(p, r, b) = G + line + b * p.size
    BY <1>1 DEF DataAddress, Step
  <2> HIDE DEF line, G
  <2> QED  BY <1>2, <1>3, <2>1
<1>5. RawAddress(p, r, GainColumns(p) + b) = sample
  <2> DEFINE k == GainColumns(p)
  <2>1. k \in Nat /\ k * p.size = G
    <3>1. CASE p.gains
      <4>1. k = 4 \div p.size /\ G = 4
        BY <1>1, <3>1 DEF GainColumns, GainBytes
      <4>2. 4 \div p.size \in Nat /\ (4 \div p.size) * p.size = 4
        BY <1>2
      <4> QED  BY <4>1, <4>2
    <3>2. CASE ~ p.gains
      BY <1>1, <1>2, <3>2 DEF GainColumns, GainBytes
    <3> QED  BY <3>1, <3>2
  <2>2. RawAddress(p, r, k + b) = (r * (p.nBeams + k) + (k + b)) * p.size
    BY <1>1 DEF RawAddress
  <2> HIDE DEF k, G
  <2>3. p.size \in Nat
    BY <1>2
  <2>4. (r * (p.nBeams + k) + (k + b)) * p.size
          = r * (k * p.size + p.nBeams * p.size) + k * p.size + b * p.size
    BY <1>2, <2>1, <2>3, AddressesAgree
  <2> QED  BY <2>1, <2>2, <2>4 DEF k
<1>6. p.size \in {1, 2} => SourceAddress(p, r, b) = sample
  <2>1. SUFFICES ASSUME p.size \in {1, 2}  PROVE SourceAddress(p, r, b) = sample
    OBVIOUS
  <2>2. FlagGain(p) = G /\ FlagSize(p) = p.size
    BY <2>1, PingsAreTyped DEF FlagGain, FlagSize
  <2>3. SourceAddress(p, r, b) = G + line + b * p.size
    BY <2>2 DEF SourceAddress
  <2> HIDE DEF line, G
  <2> QED  BY <1>2, <1>3, <2>3
<1>7. p.gains => GainAddress(p, r) = line
  <2>1. SUFFICES ASSUME p.gains  PROVE GainAddress(p, r) = line
    OBVIOUS
  <2>2. G = 4 /\ p.nBeams * p.size \in Int
    BY <1>2, <2>1 DEF GainBytes
  <2>3. p.nBeams * p.size + 4 = G + p.nBeams * p.size
    BY <2>2
  <2> QED  BY <1>1, <2>3 DEF GainAddress
<1> QED  BY <1>4, <1>5, <1>6, <1>7

(* Without gains get_ping_acoustic_data is row major: every element is the *)
(* sample of its cell.                                                     *)
LEMMA WithoutGains ==
  ASSUME NEW p \in Pings, ~ p.gains, NEW r \in Ranges(p), NEW b \in Beams(p)
  PROVE  AcousticData(p)[p.nBeams * r + b] = SourceAddress(p, r, b)
<1> DEFINE i == p.nBeams * r + b
           to == {c \in Cells(p) : Destination(p, c[1], c[2]) = i}
<1>1. p.nBeams \in Nat \ {0} /\ p.nRanges \in Nat \ {0} /\ p.gainFlag = p.gains
  BY PingsAreTyped, PingsAreSized
<1>2. r \in 0 .. p.nRanges - 1 /\ b \in 0 .. p.nBeams - 1
  BY DEF Ranges, Beams
<1>3. i \in 0 .. p.nBeams * p.nRanges - 1
  BY <1>1, <1>2, DigitsInRange
<1>4. to = {<<r, b>>}
  <2>1. <<r, b>> \in to
    BY <1>1 DEF Cells, Destination
  <2>2. ASSUME NEW c \in to  PROVE c = <<r, b>>
    <3>1. PICK s \in Ranges(p), d \in Beams(p) : c = <<s, d>>
      BY DEF Cells
    <3>2. p.nBeams * s + d = p.nBeams * r + b
      BY <1>1, <3>1 DEF Destination
    <3>3. s \in Int /\ d \in 0 .. p.nBeams - 1 /\ r \in Int
      BY <1>2 DEF Ranges, Beams
    <3>4. s = r /\ d = b
      <4> DEFINE n == p.nBeams
      <4>1. n \in Nat \ {0} /\ d \in 0 .. n - 1 /\ b \in 0 .. n - 1 /\ n * s + d = n * r + b
        BY <1>1, <1>2, <3>2, <3>3
      <4> HIDE DEF n
      <4> QED  BY <3>3, <4>1, DigitsAreUnique
    <3> QED  BY <3>1, <3>4
  <2> HIDE DEF to
  <2> QED  BY <2>1, <2>2
<1>5. (CHOOSE c \in to : \A d \in to : d[1] <= c[1]) = <<r, b>>
  <2>1. r <= r
    BY <1>2
  <2> HIDE DEF to
  <2> QED  BY <1>4, <2>1
<1>6. AcousticData(p)[i]
        = LET last == CHOOSE c \in to : \A d \in to : d[1] <= c[1]
          IN  IF to = {} THEN Untouched ELSE SourceAddress(p, last[1], last[2])
  <2> HIDE DEF i
  <2> QED  BY <1>3 DEF AcousticData
<1> HIDE DEF to, i
<1>7. to # {} /\ <<r, b>>[1] = r /\ <<r, b>>[2] = b
  BY <1>4
<1>8. AcousticData(p)[i] = SourceAddress(p, r, b)
  BY <1>5, <1>6, <1>7
<1> QED  BY <1>8 DEF i

(* The conversion to an image looks for the beam of an angle, which there  *)
(* is, and for the range, which there is.                                  *)
LEMMA PixelsAreBeams ==
  ASSUME NEW p \in Pings, ~ p.gains,
         NEW a \in p.bearings[1] .. p.bearings[p.nBeams], NEW r \in 0 .. p.range
  PROVE  \E e, b \in Beams(p) :
           /\ (p.nBeams - 1) * (a - p.bearings[1]) - Aperture(p) * e \in 0 .. Aperture(p) - 1
           /\ \A i \in Beams(p) : Distance(p, e, b) <= Distance(p, e, i)
           /\ Pixel(p, r, p.range, a) = SourceAddress(p, PixelRange(p, r, p.range), b)
<1> DEFINE n == p.nBeams - 1
           x == a - p.bearings[1]
           e == (n * x) \div Aperture(p)
<1>1. /\ p.nBeams \in Nat \ {0} /\ n \in Nat /\ Beams(p) = 0 .. n
      /\ \A i \in 1 .. p.nBeams : p.bearings[i] \in Int
      /\ p.bearings[1] < p.bearings[p.nBeams]
      /\ p.nRanges \in Nat \ {0} /\ p.range \in Nat \ {0}
  BY PingsAreTyped, PingsAreSized, FansAssumption DEF Beams
<1>2. p.bearings[1] \in Int /\ p.bearings[p.nBeams] \in Int
  BY <1>1
<1>3. Aperture(p) \in Nat \ {0} /\ x \in 0 .. Aperture(p)
  <2> DEFINE lo == p.bearings[1]
             hi == p.bearings[p.nBeams]
  <2>1. lo \in Int /\ hi \in Int /\ lo < hi /\ a \in lo .. hi
    BY <1>1, <1>2
  <2>2. Aperture(p) = hi - lo /\ x = a - lo
    BY DEF Aperture
  <2> HIDE DEF lo, hi, x
  <2> QED  BY <2>1, <2>2
<1>4. e \in Beams(p)
  <2>1. e \in 0 .. n
    <3> HIDE DEF n, x
    <3> QED  BY <1>1, <1>3, QuotientInRange
  <2> QED  BY <1>1, <2>1
<1>5. n * x - Aperture(p) * e \in 0 .. Aperture(p) - 1
  <2>1. n * x \in Int
    BY <1>1, <1>3
  <2> DEFINE y == n * x
  <2> HIDE DEF y
  <2>2. y \in Int
    BY <2>1 DEF y
  <2>3. /\ y \div Aperture(p) \in Int /\ y % Aperture(p) \in 0 .. Aperture(p) - 1
        /\ y = Aperture(p) * (y \div Aperture(p)) + (y % Aperture(p))
    BY <1>3, <2>2, Division
  <2>4. Aperture(p) * (y \div Aperture(p)) \in Int
    BY <1>3, <2>3
  <2>5. y - Aperture(p) * (y \div Aperture(p)) = y % Aperture(p)
    BY <2>2, <2>3, <2>4
  <2> QED  BY <2>3, <2>5 DEF y
<1>6. ASSUME NEW i \in Beams(p)  PROVE Distance(p, e, i) \in Int
  <2>1. i + 1 \in 1 .. p.nBeams /\ e \in Int
    BY <1>1, <1>4
  <2>2. p.bearings[i + 1] \in Int
    BY <1>1, <2>1
  <2>3. p.bearings[i + 1] * n \in Int /\ p.bearings[1] * n \in Int
    <3> HIDE DEF n
    <3> QED  BY <1>1, <1>2, <2>2
  <2>4. Aperture(p) * e \in Int
    <3> HIDE DEF e
    <3> QED  BY <1>3, <2>1
  <2> DEFINE d == p.bearings[i + 1] * n - (Aperture(p) * e + p.bearings[1] * n)
  <2>5. d \in Int
    <3> HIDE DEF e, n
    <3> QED  BY <2>3, <2>4
  <2>6. Distance(p, e, i) = IF d < 0 THEN -d ELSE d
    <3> HIDE DEF e
    <3> QED  BY DEF Distance
  <2> HIDE DEF d, e
  <2> QED  BY <2>5, <2>6
<1> DEFINE b == BearingLut(p)[e]
<1>7. b \in Beams(p) /\ \A i \in Beams(p) : Distance(p, e, b) <= Distance(p, e, i)
  <2> HIDE DEF e
  <2> QED  BY <1>1, <1>4, <1>6, TableIsNearest
<1>8. PixelRange(p, r, p.range) \in Ranges(p)
  <2>1. p.nRanges - 1 \in Nat /\ p.range \in Nat \ {0}
    BY <1>1
  <2>2. ((p.nRanges - 1) * r) \div p.range \in 0 .. p.nRanges - 1
    BY <2>1, QuotientInRange
  <2> QED  BY <2>2 DEF PixelRange, Ranges
<1>9. Pixel(p, r, p.range, a) = SourceAddress(p, PixelRange(p, r, p.range), b)
  <2>1. PixelBeam(p, a) = b
    BY DEF PixelBeam
  <2> HIDE DEF b
  <2> QED  BY <1>7, <1>8, <2>1, WithoutGains DEF Pixel
<1> HIDE DEF e, b
<1> QED  BY <1>4, <1>5, <1>7, <1>9 DEF n, x
-------------------------------------------------------------------------------
(* The ping, the geometry kept and the outcome are what they should be,    *)
(* for any sizes, fans, modes and ranges.                                  *)
THEOREM TypeCorrect == Spec => []TypeOK
<1>1. Init => TypeOK
  BY DEF Init, TypeOK
<1>2. TypeOK /\ [Next]_vars => TypeOK'
  <2> SUFFICES ASSUME TypeOK, [Next]_vars  PROVE TypeOK'
    OBVIOUS
  <2>1. CASE Next
    <3>1. PICK p \in Pings : Render(p)
      BY <2>1 DEF Next
    <3>2. ping' = p /\ outcome' \in {"none", "image", "exception", "overflow"}
      BY <3>1 DEF Render
    <3>3. geometry' = IF NeedsGeometryUpdate(p) THEN Geometry(p) ELSE geometry
      BY <3>1 DEF Render, UpdateGeometry
    <3>4. Geometry(p) \in [mode : Modes, range : FullRanges, nRanges : RangeCounts,
                           bearings : Fans]
      BY PingsAreTyped DEF Geometry
    <3> QED  BY <3>2, <3>3, <3>4 DEF TypeOK
  <2>2. CASE UNCHANGED vars
    BY <2>2 DEF vars, TypeOK
  <2> QED  BY <2>1, <2>2
<1> QED  BY <1>1, <1>2, PTL DEF Spec

(* The size of the samples and the presence of gains are found out for     *)
(* pings of any numbers of ranges and beams.                               *)
THEOREM SizesCorrect == Spec => []SizeIsFound
<1>1. TypeOK => SizeIsFound
  BY Deductions DEF TypeOK, SizeIsFound, Readable
<1> QED  BY <1>1, TypeCorrect, PTL

(* All views read every sample where the sonar put it, for pings of any    *)
(* numbers of ranges and beams.                                            *)
THEOREM ViewsCorrect == Spec => []ViewsAgree
<1>1. TypeOK => ViewsAgree
  <2> SUFFICES ASSUME TypeOK, Readable, Viewable(ping), NEW c \in Cells(ping)
               PROVE  LET line == c[1] * (GainBytes(ping.gains) + ping.nBeams * ping.size)
                          sample == line + GainBytes(ping.gains) + c[2] * ping.size
                      IN  /\ DataAddress(ping, c[1], c[2]) = sample
                          /\ RawAddress(ping, c[1], GainColumns(ping) + c[2]) = sample
                          /\ ping.size \in {1, 2} => SourceAddress(ping, c[1], c[2]) = sample
                          /\ ping.gains => GainAddress(ping, c[1]) = line
    BY DEF ViewsAgree
  <2>1. ping \in Pings /\ Terminates(ping)
    BY DEF TypeOK, Readable
  <2>2. c[1] \in Ranges(ping) /\ c[2] \in Beams(ping)
    BY DEF Cells
  <2> QED  BY <2>1, <2>2, ViewsAgreeOn
<1> QED  BY <1>1, TypeCorrect, PTL

(* Without gains a pixel shows the sample of a nearest beam, for any fan.  *)
THEOREM PixelsCorrect == Spec => []PixelsShowTheirBeam
<1>1. TypeOK => PixelsShowTheirBeam
  BY PixelsAreBeams DEF TypeOK, PixelsShowTheirBeam, Readable
<1> QED  BY <1>1, TypeCorrect, PTL

(* Without gains the conversion of helpers.h is row major, as its comment  *)
(* (114-115) says; with gains TLC shows that it is not (RowMajor).         *)
THEOREM RowMajorWithoutGains == Spec => [](ping # NoPing /\ ~ ping.gains => RowMajor)
<1>1. TypeOK => (ping # NoPing /\ ~ ping.gains => RowMajor)
  <2> SUFFICES ASSUME TypeOK, ping # NoPing, ~ ping.gains, NEW c \in Cells(ping)
               PROVE  AcousticData(ping)[ping.nBeams * c[1] + c[2]]
                        = SourceAddress(ping, c[1], c[2])
    BY DEF RowMajor
  <2>1. ping \in Pings /\ c[1] \in Ranges(ping) /\ c[2] \in Beams(ping)
    BY DEF TypeOK, Cells
  <2> QED  BY <2>1, WithoutGains
<1> QED  BY <1>1, TypeCorrect, PTL

(* The geometry of a ping fits its own data.                               *)
LEMMA OwnGeometryFits ==
  ASSUME NEW p \in Pings
  PROVE  Fits(Geometry(p), p)
<1>1. p.nRanges \in Nat \ {0} /\ p.nBeams \in Nat
  BY PingsAreSized
<1>2. Geometry(p).nRanges = p.nRanges /\ Len(Geometry(p).bearings) = p.nBeams
  BY DEF Geometry, Pings, Ping
<1>3. 0 .. (IF p.nRanges > 1 THEN p.nRanges - 2 ELSE 0) \subseteq 0 .. p.nRanges - 1
  BY <1>1
<1> QED  BY <1>2, <1>3 DEF Fits, MayReach, Cells, Ranges, Beams

(* The geometry kept has the mode and the range of the last ping.          *)
KeptInv ==
  geometry # NoGeometry => geometry.mode = ping.mode /\ geometry.range = ping.range

LEMMA RenderKeeps ==
  ASSUME KeptInv, NEW p \in Pings, Render(p)
  PROVE  /\ ping' = p /\ geometry'.mode = p.mode /\ geometry'.range = p.range
         /\ \/ geometry' = Geometry(p)
            \/ geometry # NoGeometry /\ ping.mode = p.mode /\ ping.range = p.range
<1>1. ping' = p /\ geometry' = IF NeedsGeometryUpdate(p) THEN Geometry(p) ELSE geometry
  BY DEF Render, UpdateGeometry
<1>2. CASE NeedsGeometryUpdate(p)
  BY <1>1, <1>2 DEF Geometry
<1>3. CASE ~ NeedsGeometryUpdate(p)
  BY <1>1, <1>3 DEF NeedsGeometryUpdate, KeptInv
<1> QED  BY <1>2, <1>3

(* Whatever was rendered before, a ping is rendered with its own geometry, *)
(* which fails on samples of three bytes only, or with an earlier one of   *)
(* the mode and the range that it shares with the ping before it.          *)
THEOREM RenderingCorrect == Spec => RenderingIsCurrent
<1>1. Init => KeptInv
  BY DEF Init, KeptInv
<1>2. KeptInv /\ [Next]_vars => KeptInv' /\ [RenderedOwn \/ RenderedAsBefore]_vars
  <2> SUFFICES ASSUME KeptInv, [Next]_vars
               PROVE  KeptInv' /\ [RenderedOwn \/ RenderedAsBefore]_vars
    OBVIOUS
  <2>1. CASE UNCHANGED vars
    BY <2>1 DEF vars, KeptInv
  <2>2. CASE Next
    <3>1. PICK p \in Pings : Render(p)
      BY <2>2 DEF Next
    <3>2. KeptInv'
      BY <3>1, RenderKeeps DEF KeptInv
    <3>3. ASSUME outcome' = "exception", geometry' = Geometry(p)  PROVE p.size = 3
      <4>1. Terminates(p) /\ (~ Viewable(p) \/ ~ Fits(geometry', p))
        BY <3>1, <3>3 DEF Render
      <4>2. ~ Viewable(p)
        BY <3>3, <4>1, OwnGeometryFits
      <4>3. p.size \in 1 .. 4 /\ p.size \notin {1, 2, 4}
        BY <4>1, <4>2, PingsAreSized, Deductions DEF Viewable
      <4> QED  BY <4>3
    <3> QED  BY <3>1, <3>2, <3>3, RenderKeeps DEF RenderedOwn, RenderedAsBefore
  <2> QED  BY <2>1, <2>2
<1> QED  BY <1>1, <1>2, PTL DEF Spec, RenderingIsCurrent
===============================================================================
