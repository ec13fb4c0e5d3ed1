--------------------------- MODULE Readers_proofs ---------------------------
(***************************************************************************)
(* Proofs about who a post may be sent to and who may send requests: the   *)
(* score of a reviewer and the probes that move it (Trust), the budgets of *)
(* a client (RateLimit), and the audience sets with their running total    *)
(* (Audience).                                                             *)
(***************************************************************************)
EXTENDS Trust, RateLimit, Audience, FiniteSetTheorems, SequenceTheorems, TLAPS

------------------------------------------------------------------------------
(* TRUST: the arithmetic of a score.                                       *)

Thousandths == 0..One

\* Numbers cut off at both ends are between them.
LEMMA ClampedType == ASSUME NEW x \in Int PROVE Clamp01(x) \in Thousandths
BY DEF Clamp01, Thousandths, One

\* A product of two fractions, in thousandths, is a fraction.
LEMMA Products ==
  ASSUME NEW x \in Thousandths, NEW y \in Thousandths
  PROVE  x * y \in Int /\ 0 <= x * y /\ x * y <= 1000 * x /\ x * y <= 1000 * y
<1>1. x \in Int /\ y \in Int /\ 0 <= x /\ x <= 1000 /\ 0 <= y /\ y <= 1000
  BY DEF Thousandths, One
<1>2. x * y \in Int
  BY <1>1
<1>3. 0 <= x * y
  BY <1>1, SMT
<1>4. x * (1000 - y) >= 0 /\ y * (1000 - x) >= 0
  BY <1>1, SMT
<1>5. x * (1000 - y) = 1000 * x - x * y /\ y * (1000 - x) = 1000 * y - x * y
  BY <1>1, SMT
<1>6. QED
  BY <1>2, <1>3, <1>4, <1>5, <1>1

\* A quotient of counts is an integer.
LEMMA RatioType == ASSUME NEW n \in Int, NEW d \in Nat \ {0} PROVE Ratio(n, d) \in Int
BY DEF Ratio, One

\* A quotient, rounded down.
LEMMA RatioFacts ==
  ASSUME NEW n \in Nat, NEW d \in Nat \ {0}
  PROVE  /\ Ratio(n, d) \in Nat
         /\ Ratio(n, d) * d \in Nat
         /\ Ratio(n, d) * d <= 1000 * n
         /\ 1000 * n < Ratio(n, d) * d + d
<1> DEFINE q == (n * 1000) \div d
<1>1. q \in Int /\ d * q <= n * 1000 /\ n * 1000 < d * q + d
  BY SMT
<1>2. Ratio(n, d) = q
  BY DEF Ratio, One
<1> HIDE DEF q
<1>3. ASSUME q < 0 PROVE FALSE
  <2>1. q + 1 <= 0 /\ d >= 0 /\ d \in Int
    BY <1>1, <1>3
  <2>2. d * (q + 1) <= 0
    BY <1>1, <2>1, SMT
  <2>3. d * (q + 1) = d * q + d
    BY <1>1, <2>1, SMT
  <2>4. QED
    BY <1>1, <2>1, <2>2, <2>3
<1>4. q * d = d * q /\ (q >= 0 => q * d >= 0) /\ q * d \in Int
  BY <1>1, SMT
<1>5. QED
  BY <1>1, <1>2, <1>3, <1>4

\* A part that makes up m thousandths of the whole is at least m, however the quotient is rounded.
LEMMA RatioAtLeast ==
  ASSUME NEW n \in Nat, NEW d \in Nat \ {0}, NEW m \in Nat, m * d <= 1000 * n
  PROVE  Ratio(n, d) >= m
<1> DEFINE r == Ratio(n, d)
<1>1. r \in Nat /\ r * d \in Nat /\ 1000 * n < r * d + d
  BY RatioFacts
<1> HIDE DEF r
<1>2. ASSUME r < m PROVE FALSE
  <2>1. (r + 1) * d <= m * d /\ m * d \in Int
    BY <1>1, <1>2, SMT
  <2>2. (r + 1) * d = r * d + d
    BY <1>1, SMT
  <2>3. QED
    BY <2>1, <2>2, <1>1
<1>3. QED
  BY <1>1, <1>2 DEF r

\* Between neutral and a value there are only fractions; a value above neutral stays there.
LEMMA ShrinkType ==
  ASSUME NEW v \in Thousandths, NEW c \in Int
  PROVE  /\ Shrink(v, c) \in Thousandths
         /\ v >= Neutral => Shrink(v, c) >= Neutral
<1> DEFINE k == Clamp01(c)
<1>1. k \in Thousandths
  BY ClampedType
<1>2. k * v \in Int /\ 0 <= k * v /\ k * v <= 1000 * k
  BY <1>1, Products
<1>3. v >= 500 => k * v >= 500 * k
  <2>1. k \in Int /\ 0 <= k /\ v \in Int
    BY <1>1 DEF Thousandths, One
  <2>2. ASSUME v >= 500 PROVE k * (v - 500) >= 0
    BY <2>1, <2>2, SMT
  <2>3. k * (v - 500) = k * v - 500 * k
    BY <2>1, SMT
  <2>4. QED
    BY <2>1, <2>2, <2>3, <1>2
<1>4. Shrink(v, c) = (k * v + (1000 - k) * 500) \div 1000
  BY DEF Shrink, One, Neutral
<1> HIDE DEF k
<1>5. k \in Int /\ 0 <= k /\ k <= 1000
  BY <1>1 DEF Thousandths, One
<1>6. Shrink(v, c) \in Int /\ 0 <= Shrink(v, c) /\ Shrink(v, c) <= 1000
  BY <1>2, <1>4, <1>5
<1>7. v >= 500 => Shrink(v, c) >= 500
  BY <1>2, <1>3, <1>4, <1>5
<1>8. QED
  BY <1>6, <1>7 DEF Thousandths, One, Neutral

\* What Postgres holds of a reader: counts.
Counts == [answered : Nat, correct : Nat, reviews : Nat, forwards : Nat, paced : Nat, hasty : Nat]
Rates  == Thousandths \cup {NoRate}

\* Who answered every test post right is above neutral for it, however thin the sample.
LEMMA ProbeComponentType ==
  ASSUME NEW i \in Counts
  PROVE  /\ ProbeComponent(i) \in Thousandths
         /\ i.correct >= i.answered => ProbeComponent(i) >= Neutral
<1>0. i.answered \in Nat /\ i.correct \in Nat /\ ProbeConfidence \in Nat \ {0}
  BY TrustAssumption DEF Counts
<1>1. CASE i.answered = 0
  BY <1>1 DEF ProbeComponent, Thousandths, One, Neutral
<1>2. CASE i.answered # 0
  <2> DEFINE r == Ratio(i.correct, i.answered)
             v == Clamp01(2 * r - One)
             c == Ratio(i.answered, ProbeConfidence)
  <2>1. r \in Int /\ c \in Int
    BY <1>0, <1>2, RatioType
  <2>2. i.correct >= i.answered => r >= 1000
    <3>1. ASSUME i.correct >= i.answered PROVE 1000 * i.answered <= 1000 * i.correct
      BY <3>1, <1>0
    <3>2. QED
      BY <3>1, <1>0, <1>2, RatioAtLeast
  <2> HIDE DEF r, c
  <2>3. v \in Thousandths
    BY <2>1, ClampedType DEF One
  <2>4. i.correct >= i.answered => v >= Neutral
    BY <2>1, <2>2 DEF Clamp01, One, Neutral
  <2> HIDE DEF v
  <2>5. ProbeComponent(i) = Shrink(v, c)
    BY <1>2 DEF ProbeComponent, v, r, c
  <2>6. QED
    BY <2>1, <2>3, <2>4, <2>5, ShrinkType
<1>3. QED
  BY <1>1, <1>2

\* Volume never counts against a reader.
LEMMA VolumeComponentType ==
  ASSUME NEW i \in Counts
  PROVE  VolumeComponent(i) \in Thousandths /\ VolumeComponent(i) >= Neutral
<1>0. i.reviews \in Nat /\ VolumeNeutral \in Nat /\ VolumeFull \in Nat
  BY TrustAssumption DEF Counts
<1>1. CASE VolumeFull <= VolumeNeutral
  BY <1>1 DEF VolumeComponent, Thousandths, One, Neutral
<1>2. CASE ~(VolumeFull <= VolumeNeutral)
  <2> DEFINE v == Clamp01(Ratio(i.reviews - VolumeNeutral, VolumeFull - VolumeNeutral))
  <2>0. i.reviews - VolumeNeutral \in Int /\ VolumeFull - VolumeNeutral \in Nat \ {0}
    BY <1>0, <1>2
  <2>1. v \in Thousandths
    BY <2>0, RatioType, ClampedType
  <2>2. VolumeComponent(i) = 500 + v \div 2
    BY <1>2 DEF VolumeComponent, Neutral
  <2> HIDE DEF v
  <2>3. QED
    BY <2>1, <2>2 DEF Thousandths, One, Neutral
<1>3. QED
  BY <1>1, <1>2

\* A penalty is a fraction, and so is the ceiling it leaves.
LEMMA CeilingType ==
  ASSUME NEW i \in Counts, NEW mean \in Rates
  PROVE  AnomalyCeiling(i, mean) \in Thousandths
<1>0. /\ i.reviews \in Nat /\ i.forwards \in Nat /\ i.paced \in Nat /\ i.hasty \in Nat
      /\ AnomalyConfidence \in Nat \ {0}
  BY TrustAssumption DEF Counts
<1>1. PacePenalty(i) \in Thousandths
  <2>1. CASE i.paced = 0
    BY <2>1 DEF PacePenalty, Thousandths, One
  <2>2. CASE i.paced # 0
    <3>1. Ratio(i.hasty, i.paced) \in Int
      BY <1>0, <2>2, RatioType
    <3>2. ((Ratio(i.hasty, i.paced) - 300) * 10) \div 7 \in Int
      BY <3>1
    <3>3. QED
      BY <2>2, <3>2, ClampedType DEF PacePenalty
  <2>3. QED
    BY <2>1, <2>2
<1>2. SkewPenalty(i, mean) \in Thousandths
  <2> DEFINE rate == Ratio(i.forwards, i.reviews)
             room == IF rate < mean THEN mean ELSE One - mean
             away == IF rate < mean THEN mean - rate ELSE rate - mean
  <2>1. CASE mean = NoRate \/ i.reviews = 0
    <3>1. SkewPenalty(i, mean) = 0
      BY <2>1, Zenon DEF SkewPenalty
    <3>2. 0 \in Thousandths
      BY DEF Thousandths, One
    <3>3. QED
      BY <3>1, <3>2, Zenon
  <2>2. CASE mean # NoRate /\ i.reviews # 0
    <3>1. rate \in Int /\ mean \in Int /\ 0 <= mean /\ mean <= 1000
      BY <2>2, <1>0, RatioType DEF Rates, Thousandths, One
    <3> HIDE DEF rate
    <3>2. room \in Nat /\ away \in Int
      BY <3>1 DEF One
    <3> HIDE DEF room, away
    <3>3. CASE room = 0
      BY <2>2, <3>3 DEF SkewPenalty, Thousandths, One, room, rate
    <3>4. CASE room # 0
      <4>1. Clamp01(Ratio(away, room)) \in Thousandths
        BY <3>2, <3>4, RatioType, ClampedType
      <4>2. ((Clamp01(Ratio(away, room)) - 700) * 10) \div 3 \in Int
        BY <4>1 DEF Thousandths, One
      <4>3. SkewPenalty(i, mean) = Clamp01(((Clamp01(Ratio(away, room)) - 700) * 10) \div 3)
        BY <2>2, <3>4 DEF SkewPenalty, room, away, rate
      <4>4. QED
        BY <4>2, <4>3, ClampedType
    <3>5. QED
      BY <3>3, <3>4
  <2>3. QED
    BY <2>1, <2>2
<1>3. Clamp01(PacePenalty(i) + SkewPenalty(i, mean)) \in Thousandths
  <2> DEFINE p == PacePenalty(i)
             s == SkewPenalty(i, mean)
  <2>1. p \in Thousandths /\ s \in Thousandths
    BY <1>1, <1>2, Zenon
  <2> HIDE DEF p, s
  <2>2. p + s \in Int
    BY <2>1 DEF Thousandths, One
  <2>3. Clamp01(p + s) \in Thousandths
    BY <2>2, ClampedType
  <2>4. QED
    BY <2>3 DEF p, s
<1>4. Clamp01(Ratio(i.reviews, AnomalyConfidence)) \in Thousandths
  BY <1>0, RatioType, ClampedType
<1> DEFINE x == Clamp01(PacePenalty(i) + SkewPenalty(i, mean))
           y == Clamp01(Ratio(i.reviews, AnomalyConfidence))
<1>5. AnomalyCeiling(i, mean) = 1000 - (x * y) \div 1000
  BY DEF AnomalyCeiling, One
<1>x. x \in Thousandths /\ y \in Thousandths
  BY <1>3, <1>4, Zenon
<1> HIDE DEF x, y
<1>6. x * y \in Int /\ 0 <= x * y /\ x * y <= 1000 * x /\ x \in Int /\ x <= 1000
  <2>1. x \in Int /\ x <= 1000
    BY <1>x DEF Thousandths, One
  <2>2. QED
    BY <1>x, <2>1, Products
<1>7. QED
  BY <1>5, <1>6 DEF Thousandths, One

\* Rounding to tens keeps the order, and is off by less than one.
LEMMA Rounded ==
  ASSUME NEW x \in Nat
  PROVE  /\ RoundTenth(x) \in Nat
         /\ x \div 10 <= RoundTenth(x) /\ RoundTenth(x) <= (x \div 10) + 1
         /\ \A n \in Nat : x <= 10 * n => RoundTenth(x) <= n
<1> DEFINE q == x \div 10
           r == x % 10
           half == q % 2 = 1
<1>1. q \in Nat /\ r \in 0..9 /\ x = 10 * q + r
  OBVIOUS
<1>2. RoundTenth(x) = IF r > 5 \/ (r = 5 /\ half) THEN q + 1 ELSE q
  BY DEF RoundTenth
<1> HIDE DEF q, r, half
<1>3. RoundTenth(x) \in {q, q + 1} /\ (r = 0 => RoundTenth(x) = q)
  BY <1>1, <1>2
<1>4. \A n \in Nat : x <= 10 * n => RoundTenth(x) <= n
  BY <1>1, <1>3
<1>5. QED
  BY <1>1, <1>3, <1>4 DEF q

LEMMA RoundedInOrder ==
  ASSUME NEW x \in Nat, NEW y \in Nat, x <= y
  PROVE  RoundTenth(x) <= RoundTenth(y)
<1> DEFINE q == x \div 10
           q2 == y \div 10
           r == x % 10
           r2 == y % 10
           odd(n) == n % 2 = 1
<1>1. /\ q \in Nat /\ r \in 0..9 /\ x = 10 * q + r
      /\ q2 \in Nat /\ r2 \in 0..9 /\ y = 10 * q2 + r2
  OBVIOUS
<1>2. /\ RoundTenth(x) = IF r > 5 \/ (r = 5 /\ odd(q)) THEN q + 1 ELSE q
      /\ RoundTenth(y) = IF r2 > 5 \/ (r2 = 5 /\ odd(q2)) THEN q2 + 1 ELSE q2
  BY DEF RoundTenth
<1> HIDE DEF q, q2, r, r2, odd
<1>3. CASE q = q2
  <2>1. r <= r2
    BY <1>1, <1>3
  <2>2. QED
    BY <1>1, <1>2, <1>3, <2>1
<1>4. CASE q # q2
  <2>1. q + 1 <= q2
    BY <1>1, <1>4
  <2>2. RoundTenth(x) <= q + 1 /\ q2 <= RoundTenth(y) /\ RoundTenth(x) \in Int /\ RoundTenth(y) \in Int
    BY <1>1, <1>2
  <2>3. QED
    BY <2>1, <2>2, <1>1
<1>5. QED
  BY <1>3, <1>4

\* A score is a percentage; without a wrong answer it is not below fifty, as the ceiling cuts
\* off only what is above neutral.
LEMMA ScoreType ==
  ASSUME NEW i \in Counts, NEW mean \in Rates
  PROVE  /\ ComputeScore(i, mean) \in 0..100
         /\ i.correct >= i.answered => ComputeScore(i, mean) >= 50
<1> DEFINE b == Base(i)
           c == AnomalyCeiling(i, mean)
<1>1. b \in Thousandths /\ (i.correct >= i.answered => b >= 500)
  <2>1. /\ ProbeComponent(i) \in Thousandths /\ VolumeComponent(i) \in Thousandths
        /\ VolumeComponent(i) >= 500
        /\ i.correct >= i.answered => ProbeComponent(i) >= 500
    BY ProbeComponentType, VolumeComponentType DEF Neutral
  <2> DEFINE p == ProbeComponent(i)
             v == VolumeComponent(i)
  <2>2. p \in Thousandths /\ v \in Thousandths /\ v >= 500 /\ (i.correct >= i.answered => p >= 500)
    BY <2>1
  <2>3. b = (7 * p + 3 * v) \div 10
    BY DEF Base
  <2> HIDE DEF p, v, b
  <2>4. p \in Int /\ 0 <= p /\ p <= 1000 /\ v \in Int /\ 0 <= v /\ v <= 1000
    BY <2>2 DEF Thousandths, One
  <2>5. b \in Int /\ 0 <= b /\ b <= 1000
    BY <2>3, <2>4
  <2>6. p >= 500 => b >= 500
    BY <2>2, <2>3, <2>4
  <2>7. QED
    BY <2>2, <2>5, <2>6 DEF Thousandths, One
<1>2. c \in Thousandths
  BY CeilingType
<1>3. ComputeScore(i, mean) = RoundTenth(IF b > 500 THEN 500 + ((b - 500) * c) \div 1000 ELSE b)
  BY DEF ComputeScore, One, Neutral
<1> HIDE DEF b, c
<1>4. b \in Int /\ 0 <= b /\ b <= 1000
  BY <1>1 DEF Thousandths, One
<1>5. CASE b > 500
  <2>1. b - 500 \in Thousandths
    BY <1>4, <1>5 DEF Thousandths, One
  <2>2. (b - 500) * c \in Int /\ 0 <= (b - 500) * c /\ (b - 500) * c <= 1000 * (b - 500)
    BY <2>1, <1>2, Products
  <2> DEFINE p == (b - 500) * c
  <2> HIDE DEF p
  <2>3. p \in Int /\ 0 <= p /\ p <= 1000 * (b - 500) /\ ComputeScore(i, mean) = RoundTenth(500 + p \div 1000)
    BY <2>2, <1>3, <1>5 DEF p
  <2> DEFINE x == 500 + p \div 1000
  <2>4. x \in Nat /\ 500 <= x /\ x <= 1000
    BY <2>3, <1>4
  <2>5. ComputeScore(i, mean) = RoundTenth(x)
    BY <2>3
  <2> HIDE DEF x
  <2>6. /\ RoundTenth(x) \in Nat /\ x \div 10 <= RoundTenth(x)
        /\ \A n \in Nat : x <= 10 * n => RoundTenth(x) <= n
    BY <2>4, Rounded
  <2>7. RoundTenth(x) <= 100
    BY <2>4, <2>6
  <2>8. QED
    BY <2>4, <2>5, <2>6, <2>7
<1>6. CASE ~(b > 500)
  <2>1. ComputeScore(i, mean) = RoundTenth(b) /\ b \in Nat
    BY <1>3, <1>4, <1>6
  <2>2. /\ RoundTenth(b) \in Nat /\ b \div 10 <= RoundTenth(b)
        /\ \A n \in Nat : b <= 10 * n => RoundTenth(b) <= n
    BY <2>1, Rounded
  <2>3. RoundTenth(b) <= 100
    BY <1>4, <2>1, <2>2
  <2>4. QED
    BY <2>1, <2>2, <2>3, <1>1, <1>4, <1>6
<1>7. QED
  BY <1>5, <1>6

\* Fewer readers than usual are for the low band only: thirds round to no less than the whole.
LEMMA FanoutType ==
  ASSUME NEW score \in 0..100, score >= 35
  PROVE  FanoutFor(score) >= FeedFanout
<1>1. FeedFanout \in Nat
  BY TrustAssumption
<1>2. Band(score) \in {"normal", "high"} /\ Band(score) # "low"
  BY DEF Band
<1>3. CASE Band(score) = "high"
  <2>1. ("high" = "low") = FALSE
    OBVIOUS
  <2>2. FanoutFor(score) = LET scaled == (2 * FeedFanout * 4 + 3) \div 6 IN IF scaled < 1 THEN 1 ELSE scaled
    BY <1>3, <2>1, Zenon DEF FanoutFor
  <2>3. QED
    BY <2>2, <1>1
<1>4. CASE Band(score) # "high"
  <2>1. FanoutFor(score) = LET scaled == (2 * FeedFanout * 3 + 3) \div 6 IN IF scaled < 1 THEN 1 ELSE scaled
    BY <1>2, <1>4, Zenon DEF FanoutFor
  <2>2. QED
    BY <2>1, <1>1
<1>5. QED
  BY <1>3, <1>4

------------------------------------------------------------------------------
(* TRUST: a right answer.                                                  *)

\* One more in both counts: the quotient of a part does not fall.
LEMMA PartGrows ==
  ASSUME NEW n \in Nat, NEW d \in Nat \ {0}, n <= d
  PROVE  Ratio(n, d) <= Ratio(n + 1, d + 1) /\ Ratio(n, d) <= 1000
<1> DEFINE r == Ratio(n, d)
           s == Ratio(n + 1, d + 1)
<1>1. r \in Nat /\ r * d \in Nat /\ r * d <= 1000 * n
  BY RatioFacts
<1>2. s \in Nat /\ s * (d + 1) \in Nat /\ 1000 * n + 1000 < s * (d + 1) + (d + 1)
  <2>1. n + 1 \in Nat /\ d + 1 \in Nat \ {0}
    OBVIOUS
  <2>2. 1000 * (n + 1) < s * (d + 1) + (d + 1) /\ s \in Nat /\ s * (d + 1) \in Nat
    BY <2>1, RatioFacts
  <2> HIDE DEF s
  <2>3. QED
    BY <2>2
<1> HIDE DEF r, s
<1>3. ASSUME r > 1000 PROVE FALSE
  <2>1. r * d >= 1001 * d
    BY <1>1, <1>3, SMT
  <2>2. QED
    BY <2>1, <1>1
<1>4. ASSUME s < r PROVE FALSE
  <2>1. (s + 1) * (d + 1) <= r * (d + 1)
    BY <1>1, <1>2, <1>4, SMT
  <2>2. (s + 1) * (d + 1) = s * (d + 1) + (d + 1) /\ r * (d + 1) = r * d + r
    BY <1>1, <1>2, SMT
  <2>3. QED
    BY <2>1, <2>2, <1>1, <1>2, <1>3
<1>5. QED
  BY <1>1, <1>2, <1>3, <1>4 DEF r, s

\* Confidence does not fall with one answer more.
LEMMA SampleGrows ==
  ASSUME NEW n \in Nat, NEW d \in Nat \ {0}
  PROVE  Ratio(n, d) <= Ratio(n + 1, d)
<1> DEFINE r == Ratio(n, d)
           s == Ratio(n + 1, d)
<1>1. r \in Nat /\ r * d \in Nat /\ r * d <= 1000 * n
  BY RatioFacts
<1>2. s \in Nat /\ s * d \in Nat /\ 1000 * (n + 1) < s * d + d
  BY RatioFacts
<1> HIDE DEF r, s
<1>3. ASSUME s < r PROVE FALSE
  <2>1. (s + 1) * d <= r * d
    BY <1>1, <1>2, <1>3, SMT
  <2>2. (s + 1) * d = s * d + d
    BY <1>2, SMT
  <2>3. QED
    BY <2>1, <2>2, <1>1, <1>2
<1>4. QED
  BY <1>1, <1>2, <1>3 DEF r, s

\* The confidence one more answer adds pulls a value that is below neutral down by less than
\* the right answer lifts it.  Of A answers C are right and N make a full sample; k and k2 are
\* the confidences before and after, w and w2 how far the value is below neutral.
LEMMA ThinSample ==
  ASSUME NEW A \in Nat, NEW C \in Nat, NEW N \in Nat, 0 < N, N <= 200, A < N,
         NEW k \in Nat, NEW k2 \in Nat, NEW w \in Int, NEW w2 \in Int,
         0 <= w, w <= 500, 0 <= w2,
         k2 * N <= 1000 * A + 1000,
         1000 * A < k * N + N,
         1500 * A - 2000 * C <= w * A,
         w2 * (A + 1) <= 1502 * A - 2000 * C - 500
  PROVE  k2 * w2 <= k * w
<1>1. (k2 * w2) * N <= 1000 * (1502 * A - 2000 * C - 500)
  <2>1. (k2 * N) * w2 <= (1000 * A + 1000) * w2
    <3> DEFINE x == k2 * N
               y == 1000 * A + 1000
    <3>1. x \in Int /\ y \in Int /\ x <= y
      OBVIOUS
    <3> HIDE DEF x, y
    <3>2. x * w2 <= y * w2
      BY <3>1, SMT
    <3>3. QED
      BY <3>2 DEF x, y
  <2>2. (1000 * A + 1000) * w2 = 1000 * (w2 * (A + 1)) /\ (k2 * w2) * N = (k2 * N) * w2
    BY SMT
  <2>3. QED
    BY <2>1, <2>2, SMT
<1>2. (k * w) * N >= 1000 * (1500 * A - 2000 * C) - (N - 1) * 500
  <2>1. (1000 * A - (N - 1)) * w <= (k * N) * w
    <3> DEFINE x == k * N
               y == 1000 * A - (N - 1)
    <3>1. x \in Int /\ y \in Int /\ y <= x
      OBVIOUS
    <3> HIDE DEF x, y
    <3>2. y * w <= x * w
      BY <3>1, SMT
    <3>3. QED
      BY <3>2 DEF x, y
  <2>2. (1000 * A - (N - 1)) * w = 1000 * (w * A) - (N - 1) * w /\ (k * w) * N = (k * N) * w
    BY SMT
  <2>3. (N - 1) * w <= (N - 1) * 500
    BY SMT
  <2>4. QED
    BY <2>1, <2>2, <2>3, SMT
<1>3. (k2 * w2) * N <= (k * w) * N
  <2> DEFINE x == (k2 * w2) * N
             y == (k * w) * N
  <2>1. x \in Int /\ y \in Int
    BY SMT
  <2>2. x <= 1000 * (1502 * A - 2000 * C - 500) /\ y >= 1000 * (1500 * A - 2000 * C) - (N - 1) * 500
    BY <1>1, <1>2
  <2> HIDE DEF x, y
  <2>3. x <= y
    BY <2>1, <2>2
  <2>4. QED
    BY <2>3 DEF x, y
<1> DEFINE x == k2 * w2
           y == k * w
<1>4. x \in Int /\ y \in Int /\ x * N <= y * N
  BY <1>3, SMT
<1> HIDE DEF x, y
<1>5. x <= y
  BY <1>4, SMT
<1>6. QED
  BY <1>5 DEF x, y

\* An answer is worth at least five thousandths of a full sample's confidence: the fixed point
\* is then fine enough to keep the code's order of scores.  TRUST_PROBE_CONFIDENCE_N is 6.
FineGrain == ProbeConfidence <= 200

\* A right answer of a reader above chance moves the value's weighted distance from neutral up.
LEMMA WeightGrows ==
  ASSUME FineGrain, NEW a \in Nat \ {0}, NEW c \in Nat, 2 * c >= a,
         NEW k, k = Clamp01(Ratio(a, ProbeConfidence)),
         NEW k2, k2 = Clamp01(Ratio(a + 1, ProbeConfidence)),
         NEW v, v = Clamp01(2 * Ratio(c, a) - One),
         NEW v2, v2 = Clamp01(2 * Ratio(c + 1, a + 1) - One)
  PROVE  k * (v - 500) <= k2 * (v2 - 500)
<1> DEFINE N == ProbeConfidence
           r == Ratio(c, a)
           s == Ratio(c + 1, a + 1)
           x == Ratio(a, N)
           y == Ratio(a + 1, N)
<1>0. N \in Nat /\ 0 < N /\ N <= 200 /\ N \in Nat \ {0}
  BY TrustAssumption DEF FineGrain
<1>1. x \in Nat /\ x * N \in Nat /\ 1000 * a < x * N + N
  BY <1>0, RatioFacts
<1>2. y \in Nat /\ y * N \in Nat /\ y * N <= 1000 * (a + 1)
  BY <1>0, RatioFacts
<1>3. x <= y
  BY <1>0, SampleGrows
<1>4. r \in Nat /\ r * a \in Nat /\ r * a <= 1000 * c /\ r >= 500
  <2>1. 500 \in Nat /\ 500 * a <= 1000 * c
    OBVIOUS
  <2>2. r >= 500
    BY <2>1, RatioAtLeast
  <2>3. QED
    BY <2>2, RatioFacts
<1>5. /\ s \in Nat /\ s * (a + 1) \in Nat /\ 1000 * (c + 1) < s * (a + 1) + (a + 1)
      /\ s >= 500
  <2>1. a + 1 \in Nat \ {0} /\ c + 1 \in Nat /\ 500 \in Nat /\ 500 * (a + 1) <= 1000 * (c + 1)
    OBVIOUS
  <2>2. s >= 500
    BY <2>1, RatioAtLeast
  <2>3. QED
    BY <2>1, <2>2, RatioFacts
<1>6. c <= a => r <= s /\ r <= 1000
  BY PartGrows
<1>7. c >= a => r >= 1000 /\ s >= 1000
  <2>1. ASSUME c >= a PROVE r >= 1000
    <3>1. 1000 \in Nat /\ 1000 * a <= 1000 * c
      BY <2>1
    <3>2. QED
      BY <3>1, RatioAtLeast
  <2>2. ASSUME c >= a PROVE s >= 1000
    <3>1. 1000 \in Nat /\ 1000 * (a + 1) <= 1000 * (c + 1) /\ a + 1 \in Nat \ {0} /\ c + 1 \in Nat
      BY <2>2
    <3>2. QED
      BY <3>1, RatioAtLeast
  <2>3. QED
    BY <2>1, <2>2
<1>8. /\ k = IF x > 1000 THEN 1000 ELSE x
      /\ k2 = IF y > 1000 THEN 1000 ELSE y
  BY <1>1, <1>2 DEF Clamp01, One
<1>9. /\ v = IF 2 * r - 1000 > 1000 THEN 1000 ELSE 2 * r - 1000
      /\ v2 = IF 2 * s - 1000 > 1000 THEN 1000 ELSE 2 * s - 1000
  BY <1>4, <1>5 DEF Clamp01, One
<1> HIDE DEF r, s, x, y
<1>10. k \in Nat /\ k2 \in Nat /\ k <= k2
  BY <1>1, <1>2, <1>3, <1>8
<1>11. v \in Nat /\ v2 \in Nat /\ v <= v2
  <2>1. CASE c <= a
    BY <2>1, <1>4, <1>5, <1>6, <1>9
  <2>2. CASE c >= a
    BY <2>2, <1>4, <1>5, <1>7, <1>9
  <2>3. QED
    BY <2>1, <2>2
<1>12. k * (v - 500) <= k * (v2 - 500)
  <2> DEFINE p == v - 500
             q == v2 - 500
  <2>1. p \in Int /\ q \in Int /\ p <= q
    BY <1>11
  <2> HIDE DEF p, q
  <2>2. k * p <= k * q
    BY <2>1, <1>10, SMT
  <2>3. QED
    BY <2>2 DEF p, q
<1>13. CASE v2 >= 500 \/ k = k2
  <2> DEFINE q == v2 - 500
  <2>1. q \in Int /\ (q >= 0 \/ k = k2)
    BY <1>11, <1>13
  <2>2. k * (v - 500) <= k * q
    BY <1>12
  <2>3. k * (v - 500) \in Int
    BY <1>10, <1>11, SMT
  <2> HIDE DEF q
  <2>4. k * q <= k2 * q /\ k * q \in Int /\ k2 * q \in Int
    BY <2>1, <1>10, SMT
  <2>5. k * (v - 500) <= k2 * q
    BY <2>2, <2>3, <2>4
  <2>6. QED
    BY <2>5 DEF q
<1>14. CASE v2 < 500 /\ k # k2
  <2> DEFINE w == 1500 - 2 * r
             w2 == 1500 - 2 * s
  <2>1. v = 2 * r - 1000 /\ v2 = 2 * s - 1000 /\ s < 750
    BY <1>9, <1>14, <1>4, <1>5, <1>11
  <2>2. w \in Int /\ w2 \in Int /\ 0 <= w /\ w <= 500 /\ 0 <= w2 /\ v - 500 = - w /\ v2 - 500 = - w2
    BY <2>1, <1>4, <1>5, <1>11
  <2>3. k = x /\ x < 1000
    BY <1>8, <1>10, <1>14, <1>1, <1>2, <1>3
  <2>4. a < N
    <3>1. (x + 1) * N <= 1000 * N
      BY <2>3, <1>0, <1>1, SMT
    <3>2. (x + 1) * N = x * N + N
      BY <1>0, <1>1, SMT
    <3>3. QED
      BY <3>1, <3>2, <1>0, <1>1
  <2>5. k2 * N <= 1000 * a + 1000
    <3>1. k2 <= y
      BY <1>8, <1>2
    <3>2. k2 * N <= y * N /\ k2 * N \in Int
      BY <3>1, <1>0, <1>2, <1>10, SMT
    <3>3. QED
      BY <3>2, <1>2
  <2>6. 1000 * a < k * N + N
    BY <2>3, <1>1
  <2>7. 1500 * a - 2000 * c <= w * a
    <3>1. w * a = 1500 * a - 2 * (r * a)
      BY <1>4, SMT
    <3>2. QED
      BY <3>1, <1>4
  <2>8. w2 * (a + 1) <= 1502 * a - 2000 * c - 500
    <3>1. w2 * (a + 1) = 1500 * (a + 1) - 2 * (s * (a + 1))
      BY <1>5, SMT
    <3>2. QED
      BY <3>1, <1>5
  <2> HIDE DEF w, w2
  <2>9. k2 * w2 <= k * w
    BY <2>2, <2>4, <2>5, <2>6, <2>7, <2>8, <1>0, <1>10, ThinSample
  <2>10. k * (- w) = - (k * w) /\ k2 * (- w2) = - (k2 * w2) /\ k * w \in Int /\ k2 * w2 \in Int
    BY <2>2, <1>10, SMT
  <2>11. k * (- w) <= k2 * (- w2)
    BY <2>9, <2>10
  <2>12. QED
    BY <2>11, <2>2
<1>15. QED
  BY <1>11, <1>10, <1>13, <1>14

\* A value further above neutral, by its weight, leaves a score no lower.
LEMMA ShrinkGrows ==
  ASSUME NEW v \in Thousandths, NEW v2 \in Thousandths, NEW x \in Int, NEW x2 \in Int,
         Clamp01(x) * (v - 500) <= Clamp01(x2) * (v2 - 500)
  PROVE  Shrink(v, x) <= Shrink(v2, x2)
<1> DEFINE k == Clamp01(x)
           k2 == Clamp01(x2)
<1>0. k \in Thousandths /\ k2 \in Thousandths
  BY ClampedType
<1>2. Shrink(v, x) = (k * v + (1000 - k) * 500) \div 1000
  BY DEF Shrink, One, Neutral
<1>3. Shrink(v2, x2) = (k2 * v2 + (1000 - k2) * 500) \div 1000
  BY DEF Shrink, One, Neutral
<1>4. k * (v - 500) <= k2 * (v2 - 500)
  OBVIOUS
<1> HIDE DEF k, k2
<1>1. k \in Int /\ k2 \in Int /\ v \in Int /\ v2 \in Int
  BY <1>0 DEF Thousandths, One
<1>5. /\ k * v + (1000 - k) * 500 = k * (v - 500) + 500000
      /\ k2 * v2 + (1000 - k2) * 500 = k2 * (v2 - 500) + 500000
  BY <1>1, SMT
<1> DEFINE p == k * (v - 500)
           q == k2 * (v2 - 500)
<1>6. p \in Int /\ q \in Int /\ p <= q
  BY <1>1, <1>4, SMT
<1>7. Shrink(v, x) = (p + 500000) \div 1000 /\ Shrink(v2, x2) = (q + 500000) \div 1000
  BY <1>2, <1>3, <1>5
<1> HIDE DEF p, q
<1>8. QED
  BY <1>6, <1>7

\* The component of the test posts does not fall with a right answer above chance.
LEMMA ProbeGrows ==
  ASSUME FineGrain, NEW i \in Counts, NEW j \in Counts, 2 * i.correct >= i.answered,
         j.answered = i.answered + 1, j.correct = i.correct + 1
  PROVE  ProbeComponent(i) <= ProbeComponent(j)
<1> DEFINE a == i.answered
           c == i.correct
<1>0. a \in Nat /\ c \in Nat /\ ProbeConfidence \in Nat \ {0}
  BY TrustAssumption DEF Counts
<1> DEFINE v2 == Clamp01(2 * Ratio(c + 1, a + 1) - One)
           x2 == Ratio(a + 1, ProbeConfidence)
<1>1. ProbeComponent(j) = Shrink(v2, x2)
  BY <1>0 DEF ProbeComponent
<1>2. Ratio(c + 1, a + 1) \in Int /\ x2 \in Int
  <2>1. c + 1 \in Int /\ a + 1 \in Int /\ a + 1 \in Nat \ {0}
    BY <1>0
  <2> HIDE DEF a, c
  <2>2. QED
    BY <1>0, <2>1, RatioType
<1>3. v2 \in Thousandths
  BY <1>2, ClampedType DEF One
<1>4. CASE a = 0
  <2>1. ProbeComponent(i) = 500
    BY <1>4 DEF ProbeComponent, Neutral
  <2>2. Ratio(c + 1, a + 1) >= 1000
    <3>1. c + 1 \in Nat /\ a + 1 \in Nat \ {0} /\ 1000 \in Nat /\ 1000 * (a + 1) <= 1000 * (c + 1)
      BY <1>0, <1>4
    <3>2. QED
      BY <3>1, RatioAtLeast
  <2>3. v2 >= Neutral
    BY <1>2, <2>2 DEF Clamp01, One, Neutral
  <2> HIDE DEF v2, x2
  <2>4. Shrink(v2, x2) >= Neutral
    BY <1>2, <1>3, <2>3, ShrinkType
  <2>5. QED
    BY <1>1, <2>1, <2>4 DEF Neutral
<1>5. CASE a # 0
  <2> DEFINE v == Clamp01(2 * Ratio(c, a) - One)
             x == Ratio(a, ProbeConfidence)
  <2>1. ProbeComponent(i) = Shrink(v, x)
    BY <1>5 DEF ProbeComponent
  <2>2. Ratio(c, a) \in Int /\ x \in Int
    <3>1. c \in Int /\ a \in Int /\ a \in Nat \ {0}
      BY <1>0, <1>5
    <3> HIDE DEF a, c
    <3>2. QED
      BY <1>0, <3>1, RatioType
  <2>3. v \in Thousandths
    BY <2>2, ClampedType DEF One
  <2>4. Clamp01(x) * (v - 500) <= Clamp01(x2) * (v2 - 500)
    <3>1. a \in Nat \ {0} /\ 2 * c >= a
      BY <1>0, <1>5
    <3>2. QED
      BY <3>1, <1>0, WeightGrows
  <2> HIDE DEF v, x, v2, x2
  <2>5. Shrink(v, x) <= Shrink(v2, x2)
    BY <1>2, <1>3, <2>2, <2>3, <2>4, ShrinkGrows
  <2>6. QED
    BY <1>1, <2>1, <2>5
<1>6. QED
  BY <1>4, <1>5

\* With the reviews as they were the whole score does not fall either.
LEMMA ScoreGrows ==
  ASSUME FineGrain, NEW i \in Counts, NEW j \in Counts, 2 * i.correct >= i.answered,
         j.answered = i.answered + 1, j.correct = i.correct + 1,
         j.reviews = i.reviews, j.forwards = i.forwards, j.paced = i.paced, j.hasty = i.hasty,
         NEW mean \in Rates
  PROVE  ComputeScore(i, mean) <= ComputeScore(j, mean)
<1> DEFINE b == Base(i)
           b2 == Base(j)
           z == AnomalyCeiling(i, mean)
<1>1. AnomalyCeiling(j, mean) = z
  BY DEF AnomalyCeiling, PacePenalty, SkewPenalty
<1>2. VolumeComponent(j) = VolumeComponent(i)
  BY DEF VolumeComponent
<1>3. b \in Nat /\ b2 \in Nat /\ b <= b2
  <2> DEFINE p == ProbeComponent(i)
             p2 == ProbeComponent(j)
             u == VolumeComponent(i)
  <2>1. p <= p2 /\ p \in Thousandths /\ p2 \in Thousandths /\ u \in Thousandths
    BY ProbeGrows, ProbeComponentType, VolumeComponentType
  <2>2. b = (7 * p + 3 * u) \div 10 /\ b2 = (7 * p2 + 3 * u) \div 10
    BY <1>2 DEF Base
  <2> HIDE DEF p, p2, u, b, b2
  <2>3. p \in Nat /\ p2 \in Nat /\ u \in Nat
    BY <2>1 DEF Thousandths, One
  <2>4. QED
    BY <2>1, <2>2, <2>3
<1>4. z \in Int /\ 0 <= z /\ z <= 1000
  BY CeilingType DEF Thousandths, One
<1>5. /\ ComputeScore(i, mean) = RoundTenth(IF b > 500 THEN 500 + ((b - 500) * z) \div 1000 ELSE b)
      /\ ComputeScore(j, mean) = RoundTenth(IF b2 > 500 THEN 500 + ((b2 - 500) * z) \div 1000 ELSE b2)
  BY <1>1 DEF ComputeScore, One, Neutral
<1> HIDE DEF b, b2, z
<1> DEFINE m == (b - 500) * z
           n == (b2 - 500) * z
<1>6. m \in Int /\ n \in Int /\ m <= n /\ (b2 >= 500 => n >= 0)
  BY <1>3, <1>4, SMT
<1> DEFINE x == IF b > 500 THEN 500 + m \div 1000 ELSE b
           x2 == IF b2 > 500 THEN 500 + n \div 1000 ELSE b2
<1>7. ComputeScore(i, mean) = RoundTenth(x) /\ ComputeScore(j, mean) = RoundTenth(x2)
  BY <1>5
<1>9. (b > 500 => m >= 0)
  BY <1>3, <1>4, SMT
<1> HIDE DEF m, n
<1>10. x \in Nat /\ x2 \in Nat /\ x <= x2
  BY <1>3, <1>6, <1>9
<1> HIDE DEF x, x2
<1>8. QED
  BY <1>7, <1>10, RoundedInOrder

------------------------------------------------------------------------------
(* TRUST: the type invariant.                                              *)

Steps       == {"idle", "readReviews", "readProbes", "setCache", "dice", "roll", "mint", "minted", "claimed",
                "remembered", "answer", "invalidate"}
ReadCounts  == Counts \cup {<< >>}
CachedScore == [score : -1..100, answered : Nat, late : BOOLEAN]
RequestType == [at : Steps, inputs : ReadCounts, then : {"idle", "dice"}, late : BOOLEAN]

\* Whoever is computing a score holds the counts it read.
RequestOK(q) == q \in RequestType /\ (q.at \in {"readProbes", "setCache"} => q.inputs \in Counts)

TrustTypeOK ==
  /\ inputs \in Counts
  /\ scoreCache \in CachedScore
  /\ probesOut \in Nat /\ since \in Nat /\ pending \in BOOLEAN /\ excused \in BOOLEAN
  /\ request = [h \in Requests |-> request[h]]
  /\ \A h \in Requests : RequestOK(request[h])

\* The request of h becomes q, the others stay.
Becomes(h, q) == request' = [request EXCEPT ![h] = q]

\* What GoTo does to a request that is not reading.
LEMMA GoToBecomes ==
  ASSUME TrustTypeOK, NEW h \in Requests, NEW at \in Steps,
         at \notin {"readProbes", "setCache"}, GoTo(h, at)
  PROVE  \E q : Becomes(h, q) /\ RequestOK(q) /\ q.at = at
<1> DEFINE q == [request[h] EXCEPT !.at = at]
<1>1. request[h] \in RequestType
  BY DEF TrustTypeOK, RequestOK
<1>2. q \in RequestType /\ q.at = at
  BY <1>1 DEF RequestType
<1>3. Becomes(h, q)
  BY DEF GoTo, Becomes
<1>4. QED
  BY <1>2, <1>3 DEF RequestOK

\* Who has read nothing holds nothing.
LEMMA NothingRead == << >> \in ReadCounts
BY Zenon DEF ReadCounts

\* An idle request is one.
LEMMA IdleIsRequest == RequestOK(IdleRequest) /\ IdleRequest.at = "idle"
<1>1. IdleRequest.at = "idle"
  BY DEF IdleRequest
<1>2. IdleRequest \in RequestType
  <2>1. ASSUME NEW n \in ReadCounts
        PROVE  [at |-> "idle", inputs |-> n, then |-> "idle", late |-> FALSE] \in RequestType
    BY DEF RequestType, Steps
  <2>2. QED
    BY <2>1, NothingRead, Zenon DEF IdleRequest
<1>3. QED
  BY <1>1, <1>2 DEF RequestOK

\* What Done does.
LEMMA DoneBecomes ==
  ASSUME NEW h \in Requests, Done(h)
  PROVE  Becomes(h, IdleRequest) /\ RequestOK(IdleRequest) /\ IdleRequest.at = "idle"
BY IdleIsRequest DEF Done, Becomes

\* What ReadCache does: a request that computes has read nothing yet.
LEMMA ReadCacheBecomes ==
  ASSUME NEW h \in Requests, NEW then \in {"idle", "dice"}, ReadCache(h, then)
  PROVE  \E q : Becomes(h, q) /\ RequestOK(q) /\ q.at \in {"readReviews", then}
<1> DEFINE at == IF scoreCache = NoScore THEN "readReviews" ELSE then
           q  == [at |-> at, inputs |-> << >>, then |-> then, late |-> FALSE]
<1>1. at \in {"readReviews", then}
  BY Zenon
<1>2. at \in Steps /\ at \notin {"readProbes", "setCache"}
  BY <1>1 DEF Steps
<1>3. Becomes(h, q)
  BY Zenon DEF ReadCache, Becomes
<1> HIDE DEF at
<1>4. q \in RequestType /\ q.at = at
  <2>1. ASSUME NEW n \in ReadCounts
        PROVE  [at |-> at, inputs |-> n, then |-> then, late |-> FALSE] \in RequestType
    BY <1>2 DEF RequestType
  <2>2. QED
    BY <2>1, NothingRead, Zenon
<1>5. QED
  BY <1>1, <1>2, <1>3, <1>4, Zenon DEF RequestOK

\* A request that becomes another keeps the array of requests one.
LEMMA BecomesType ==
  ASSUME TrustTypeOK, NEW h \in Requests, NEW q, RequestOK(q), Becomes(h, q)
  PROVE  /\ request' = [g \in Requests |-> request'[g]]
         /\ \A g \in Requests : RequestOK(request'[g])
         /\ request'[h] = q
         /\ \A g \in Requests : g # h => request'[g] = request[g]
<1>1. request = [g \in Requests |-> request[g]] /\ \A g \in Requests : RequestOK(request[g])
  BY DEF TrustTypeOK
<1>2. request' = [g \in Requests |-> IF g = h THEN q ELSE request[g]]
  BY <1>1 DEF Becomes
<1>3. QED
  BY <1>1, <1>2, Zenon

\* EndAnswer only idles its own request and marks the others.
LEMMA EndAnswerType ==
  ASSUME TrustTypeOK, NEW h \in Requests, EndAnswer(h)
  PROVE  /\ request' = [g \in Requests |-> request'[g]]
         /\ \A g \in Requests : RequestOK(request'[g])
         /\ request'[h] = IdleRequest
         /\ \A g \in Requests : g # h =>
              /\ request'[g].at = request[g].at
              /\ request'[g].at = "setCache" => request'[g].late
<1>1. request' = [g \in Requests |-> request'[g]]
  BY DEF EndAnswer
<1>2. request'[h] = IdleRequest
  BY DEF EndAnswer
<1>3. ASSUME NEW g \in Requests, g # h
      PROVE  /\ RequestOK(request'[g]) /\ request'[g].at = request[g].at
             /\ request'[g].at = "setCache" => request'[g].late
  <2>1. RequestOK(request[g])
    BY DEF TrustTypeOK
  <2>2. request'[g] = [request[g] EXCEPT !.late = (request[g].at = "setCache")]
    BY <1>3 DEF EndAnswer, Doing
  <2> DEFINE was == request[g]
             now == request'[g]
             late == (was.at = "setCache")
  <2>3. was \in RequestType /\ now = [was EXCEPT !.late = late]
    BY <2>1, <2>2 DEF RequestOK
  <2>4. late \in BOOLEAN
    OBVIOUS
  <2>5. now \in RequestType /\ now.at = was.at /\ now.inputs = was.inputs /\ now.late = late
    <3> HIDE DEF was, now, late
    <3>1. QED
      BY <2>3, <2>4 DEF RequestType
  <2>6. QED
    BY <2>1, <2>5 DEF RequestOK
<1>4. QED
  BY <1>1, <1>2, <1>3, IdleIsRequest

\* A history a reader may come with consists of counts.
LEMMA StartCounts == StartInputs \subseteq Counts
<1>1. 0..MaxAnswers \subseteq Nat /\ 0..MaxReviews \subseteq Nat
  OBVIOUS
<1>2. InputType \subseteq Counts
  BY <1>1 DEF InputType, Counts
<1>3. QED
  BY <1>2, TrustAssumption

\* A review adds to the counts.
LEMMA ReviewCounts ==
  ASSUME TrustTypeOK, NEW h \in Requests, NEW manner, Review(h, manner)
  PROVE  /\ inputs' \in Counts
         /\ inputs'.answered = inputs.answered /\ inputs'.correct = inputs.correct
<1> DEFINE forwards == IF "forward" \in manner THEN inputs.forwards + 1 ELSE inputs.forwards
           paced    == IF inputs.reviews > 0 THEN inputs.paced + 1 ELSE inputs.paced
           hasty    == IF inputs.reviews > 0 /\ "hasty" \in manner THEN inputs.hasty + 1 ELSE inputs.hasty
           reviews  == inputs.reviews + 1
<1>1. inputs \in Counts
  BY DEF TrustTypeOK
<1>2. reviews \in Nat /\ forwards \in Nat /\ paced \in Nat /\ hasty \in Nat
  BY <1>1 DEF Counts
<1>3. inputs' = [inputs EXCEPT !.reviews = reviews, !.forwards = forwards, !.paced = paced, !.hasty = hasty]
  BY DEF Review
<1> HIDE DEF reviews, forwards, paced, hasty
<1>4. QED
  BY <1>1, <1>2, <1>3 DEF Counts

\* An answer adds to the counts.
LEMMA AnswerCounts ==
  ASSUME TrustTypeOK, NEW h \in Requests, NEW right, CommitAnswer(h, right)
  PROVE  inputs' \in Counts
<1> DEFINE answered == inputs.answered + 1
           correct  == IF right THEN inputs.correct + 1 ELSE inputs.correct
<1>1. inputs \in Counts
  BY DEF TrustTypeOK
<1>2. answered \in Nat /\ correct \in Nat
  BY <1>1 DEF Counts
<1>3. inputs' = [inputs EXCEPT !.answered = answered, !.correct = correct]
  BY DEF CommitAnswer
<1> HIDE DEF answered, correct
<1>4. QED
  BY <1>1, <1>2, <1>3 DEF Counts

\* The two reads of a computation: the first takes every count, the second the answers anew.
LEMMA ReadsBecome ==
  ASSUME TrustTypeOK, NEW h \in Requests
  PROVE  /\ ReadReviews(h) => \E q : /\ Becomes(h, q) /\ RequestOK(q)
                                     /\ q.at = "readProbes" /\ q.inputs = inputs
         /\ ReadProbes(h) => \E q : /\ Becomes(h, q) /\ RequestOK(q) /\ q.at = "setCache"
                                    /\ q.inputs.answered = inputs.answered
<1> DEFINE was == request[h]
<1>1. was \in RequestType /\ inputs \in Counts /\ (was.at = "readProbes" => was.inputs \in Counts)
  BY DEF TrustTypeOK, RequestOK
<1>2. ASSUME ReadReviews(h)
      PROVE  \E q : Becomes(h, q) /\ RequestOK(q) /\ q.at = "readProbes" /\ q.inputs = inputs
  <2> DEFINE q == [request[h] EXCEPT !.at = "readProbes", !.inputs = inputs]
  <2>1. Becomes(h, q)
    BY <1>2 DEF ReadReviews, Becomes
  <2>2. inputs \in ReadCounts
    BY <1>1 DEF ReadCounts
  <2>3. q \in RequestType /\ q.at = "readProbes" /\ q.inputs = inputs
    BY <1>1, <2>2 DEF RequestType, Steps
  <2>4. QED
    BY <1>1, <2>1, <2>3 DEF RequestOK
<1>3. ASSUME ReadProbes(h)
      PROVE  \E q : /\ Becomes(h, q) /\ RequestOK(q) /\ q.at = "setCache"
                    /\ q.inputs.answered = inputs.answered
  <2> DEFINE i == [was.inputs EXCEPT !.answered = inputs.answered, !.correct = inputs.correct]
             q == [was EXCEPT !.at = "setCache", !.inputs = i]
  <2>1. was.inputs \in Counts
    BY <1>1, <1>3 DEF ReadProbes, Doing
  <2>2. i \in Counts /\ i.answered = inputs.answered
    BY <1>1, <2>1 DEF Counts
  <2>3. Becomes(h, q)
    <3>1. request' = [request EXCEPT ![h].at = "setCache", ![h].inputs.answered = inputs.answered,
                                     ![h].inputs.correct = inputs.correct]
      BY <1>3 DEF ReadProbes
    <3>2. h \in DOMAIN request
      BY DEF TrustTypeOK
    <3>3. "inputs" \in DOMAIN was
      BY <1>1 DEF RequestType
    <3>4. "answered" \in DOMAIN was.inputs
      BY <2>1 DEF Counts
    <3>5. QED
      BY <3>1, <3>2, <3>3, <3>4 DEF Becomes
  <2> HIDE DEF i
  <2>4. i \in ReadCounts
    BY <2>2 DEF ReadCounts
  <2>5. q \in RequestType /\ q.at = "setCache" /\ q.inputs = i
    BY <1>1, <2>4 DEF RequestType, Steps
  <2>6. QED
    BY <2>2, <2>3, <2>5 DEF RequestOK
<1>4. QED
  BY <1>2, <1>3

\* A stored score is a percentage.
LEMMA SetCacheStores ==
  ASSUME TrustTypeOK, NEW h \in Requests, NEW rate \in ForwardRates, SetCache(h, rate)
  PROVE  /\ scoreCache' \in CachedScore
         /\ scoreCache'.answered = request[h].inputs.answered /\ scoreCache'.late = request[h].late
         /\ \E q : Becomes(h, q) /\ RequestOK(q) /\ q.at \in {"idle", "dice"}
<1> DEFINE was == request[h]
           i   == was.inputs
           score == ComputeScore(i, rate)
<1>1. was \in RequestType /\ i \in Counts
  BY DEF TrustTypeOK, RequestOK, SetCache, Doing
<1>2. rate \in Rates
  BY TrustAssumption DEF Rates, Thousandths
<1>3. score \in 0..100
  BY <1>1, <1>2, ScoreType
<1>4. scoreCache' = [score |-> score, answered |-> i.answered, late |-> was.late]
  BY DEF SetCache
<1>5. \E q : Becomes(h, q) /\ RequestOK(q) /\ q.at \in {"idle", "dice"}
  <2>1. was.then \in {"idle", "dice"}
    BY <1>1 DEF RequestType
  <2>2. CASE was.then = "idle"
    <3>1. Done(h)
      BY <2>2 DEF SetCache
    <3>2. QED
      BY <3>1, DoneBecomes
  <2>3. CASE was.then = "dice"
    <3>1. GoTo(h, "dice")
      BY <2>3 DEF SetCache
    <3>2. "dice" \in Steps /\ "dice" \notin {"readProbes", "setCache"}
      BY DEF Steps
    <3>3. QED
      BY <3>1, <3>2, GoToBecomes
  <2>4. QED
    BY <2>1, <2>2, <2>3
<1> HIDE DEF score
<1>6. was.late \in BOOLEAN /\ i.answered \in Nat
  BY <1>1 DEF RequestType, Counts
<1>7. score \in -1..100
  BY <1>3
<1>8. scoreCache' \in CachedScore
  BY <1>4, <1>6, <1>7 DEF CachedScore
<1>9. QED
  BY <1>4, <1>5, <1>8

\* Asking for the outstanding test post, and rolling.
LEMMA AskBecomes ==
  ASSUME TrustTypeOK, NEW h \in Requests, AskPending(h)
  PROVE  \E q : /\ Becomes(h, q) /\ RequestOK(q) /\ q.at \in {"idle", "roll"}
                /\ q.at = "roll" => ~pending
<1>1. CASE ~pending
  <2>1. GoTo(h, "roll")
    BY <1>1 DEF AskPending
  <2>2. "roll" \in Steps /\ "roll" \notin {"readProbes", "setCache"}
    BY DEF Steps
  <2>3. QED
    BY <1>1, <2>1, <2>2, GoToBecomes
<1>2. CASE pending
  <2>1. Done(h)
    BY <1>2 DEF AskPending
  <2>2. QED
    BY <2>1, DoneBecomes
<1>3. QED
  BY <1>1, <1>2

LEMMA DiceBecome ==
  ASSUME TrustTypeOK, NEW h \in Requests, NEW lucky, ShouldMint(h, lucky)
  PROVE  \E q : Becomes(h, q) /\ RequestOK(q) /\ q.at \in {"idle", "mint"}
<1>1. CASE since' >= MinGapReviews /\ lucky
  <2>1. GoTo(h, "mint")
    BY <1>1 DEF ShouldMint
  <2>2. "mint" \in Steps /\ "mint" \notin {"readProbes", "setCache"}
    BY DEF Steps
  <2>3. QED
    BY <1>1, <2>1, <2>2, GoToBecomes
<1>2. CASE ~(since' >= MinGapReviews /\ lucky)
  <2>1. Done(h)
    BY <1>2 DEF ShouldMint
  <2>2. QED
    BY <2>1, DoneBecomes
<1>3. QED
  BY <1>1, <1>2

\* Each action keeps the types.
LEMMA TrustTypeStep == TrustTypeOK /\ [TrustNext]_trustVars => TrustTypeOK'
<1> SUFFICES ASSUME TrustTypeOK, [TrustNext]_trustVars PROVE TrustTypeOK'
  OBVIOUS
<1> DEFINE RequestsOK == /\ request = [h \in Requests |-> request[h]]
                         /\ \A h \in Requests : RequestOK(request[h])
<1>0. TrustTypeOK = (/\ inputs \in Counts /\ scoreCache \in CachedScore
                     /\ probesOut \in Nat /\ since \in Nat /\ pending \in BOOLEAN /\ excused \in BOOLEAN
                     /\ RequestsOK)
  BY Zenon DEF TrustTypeOK
<1>t. /\ inputs \in Counts /\ scoreCache \in CachedScore
      /\ probesOut \in Nat /\ since \in Nat /\ pending \in BOOLEAN /\ excused \in BOOLEAN
  BY DEF TrustTypeOK
<1>n. NoScore \in CachedScore
  <2>1. -1 \in -1..100
    OBVIOUS
  <2>2. QED
    BY <2>1 DEF NoScore, CachedScore
<1>b. ASSUME NEW h \in Requests, \E q : Becomes(h, q) /\ RequestOK(q) PROVE RequestsOK'
  <2>1. PICK q : Becomes(h, q) /\ RequestOK(q)
    BY <1>b
  <2>2. QED
    BY <2>1, BecomesType
<1>e. ASSUME NEW h \in Requests, EndAnswer(h) PROVE RequestsOK'
  BY <1>e, EndAnswerType
<1>d. ASSUME NEW h \in Requests, Done(h) PROVE RequestsOK'
  BY <1>d, <1>b, DoneBecomes
<1>g. ASSUME NEW h \in Requests, NEW at \in {"dice", "minted", "remembered", "claimed", "answer", "invalidate"}, GoTo(h, at)
      PROVE  RequestsOK'
  <2>1. at \in Steps /\ at \notin {"readProbes", "setCache"}
    BY DEF Steps
  <2>2. QED
    BY <1>g, <1>b, <2>1, GoToBecomes
<1>1. ASSUME NEW h \in Requests, Statistics(h) PROVE TrustTypeOK'
  <2>1. ReadCache(h, "idle")
    BY <1>1 DEF Statistics
  <2>2. RequestsOK'
    BY <2>1, <1>b, ReadCacheBecomes
  <2>3. QED
    BY <1>1, <1>t, <2>2 DEF Statistics, TrustTypeOK
<1>2. ASSUME NEW h \in Requests, ReadReviews(h) PROVE TrustTypeOK'
  <2>1. RequestsOK'
    BY <1>2, <1>b, ReadsBecome
  <2>2. QED
    BY <1>2, <1>t, <2>1 DEF ReadReviews, TrustTypeOK
<1>3. ASSUME NEW h \in Requests, ReadProbes(h) PROVE TrustTypeOK'
  <2>1. RequestsOK'
    BY <1>3, <1>b, ReadsBecome
  <2>2. QED
    BY <1>3, <1>t, <2>1 DEF ReadProbes, TrustTypeOK
<1>4. ASSUME NEW h \in Requests, NEW rate \in ForwardRates, SetCache(h, rate) PROVE TrustTypeOK'
  <2>1. RequestsOK' /\ scoreCache' \in CachedScore
    BY <1>4, <1>b, SetCacheStores
  <2>2. QED
    BY <1>4, <1>t, <2>1 DEF SetCache, TrustTypeOK
<1>5. ASSUME NEW h \in Requests, NEW manner \in ReviewManners, Review(h, manner) PROVE TrustTypeOK'
  <2>1. CASE "forward" \in manner
    <3>1. ReadCache(h, "dice")
      BY <1>5, <2>1 DEF Review
    <3>2. RequestsOK'
      BY <3>1, <1>b, ReadCacheBecomes
    <3>3. QED
      BY <1>5, <1>t, <3>2, ReviewCounts DEF Review, TrustTypeOK
  <2>2. CASE "forward" \notin manner
    <3>1. GoTo(h, "dice")
      BY <1>5, <2>2 DEF Review
    <3>2. RequestsOK'
      BY <3>1, <1>g
    <3>3. QED
      BY <1>5, <1>t, <3>2, ReviewCounts DEF Review, TrustTypeOK
  <2>3. QED
    BY <2>1, <2>2
<1>6. ASSUME NEW h \in Requests, NEW lucky \in BOOLEAN, ShouldMint(h, lucky) PROVE TrustTypeOK'
  <2>1. RequestsOK'
    BY <1>6, <1>b, DiceBecome
  <2>2. since' \in Nat
    BY <1>6, <1>t DEF ShouldMint
  <2>3. QED
    BY <1>6, <1>t, <2>1, <2>2 DEF ShouldMint, TrustTypeOK
<1>17. ASSUME NEW h \in Requests, AskPending(h) PROVE TrustTypeOK'
  <2>1. RequestsOK'
    BY <1>17, <1>b, AskBecomes
  <2>2. excused' \in BOOLEAN
    BY <1>17, <1>t, Zenon DEF AskPending
  <2>3. QED
    BY <1>17, <1>t, <2>1, <2>2 DEF AskPending, TrustTypeOK
<1>18. ASSUME NEW h \in Requests, RestartGap(h) PROVE TrustTypeOK'
  <2>1. RequestsOK'
    BY <1>18, <1>d DEF RestartGap
  <2>2. since' \in Nat
    BY <1>18 DEF RestartGap
  <2>3. QED
    BY <1>18, <1>t, <2>1, <2>2 DEF RestartGap, TrustTypeOK
<1>7. ASSUME NEW h \in Requests, NEW possible \in BOOLEAN, MintProbe(h, possible) PROVE TrustTypeOK'
  <2>1. RequestsOK'
    BY <1>7, <1>d, <1>g DEF MintProbe
  <2>2. probesOut' \in Nat
    BY <1>7, <1>t DEF MintProbe
  <2>3. QED
    BY <1>7, <1>t, <2>1, <2>2 DEF MintProbe, TrustTypeOK
<1>8. ASSUME NEW h \in Requests, NEW right \in BOOLEAN, CommitAnswer(h, right) PROVE TrustTypeOK'
  <2>1. RequestsOK'
    BY <1>8, <1>g DEF CommitAnswer
  <2>2. inputs' \in Counts
    BY <1>8, AnswerCounts
  <2>3. QED
    BY <1>8, <1>t, <2>1, <2>2 DEF CommitAnswer, TrustTypeOK
<1>9. ASSUME NEW h \in Requests, RememberProbe(h) PROVE TrustTypeOK'
  <2>1. RequestsOK'
    BY <1>9, <1>g DEF RememberProbe
  <2>2. pending' \in BOOLEAN /\ excused' \in BOOLEAN
    BY <1>9, <1>t, Zenon DEF RememberProbe
  <2>3. QED
    BY <1>9, <1>t, <2>1, <2>2 DEF RememberProbe, TrustTypeOK
<1>10. ASSUME NEW h \in Requests, Answer(h) PROVE TrustTypeOK'
  <2>1. RequestsOK'
    BY <1>10, <1>g DEF Answer
  <2>2. pending' \in BOOLEAN /\ excused' \in BOOLEAN
    BY <1>10, <1>t, Zenon DEF Answer
  <2>3. QED
    BY <1>10, <1>t, <2>1, <2>2 DEF Answer, TrustTypeOK
<1>19. ASSUME NEW h \in Requests, ClaimProbe(h) PROVE TrustTypeOK'
  <2>1. RequestsOK'
    BY <1>19, <1>g DEF ClaimProbe
  <2>2. probesOut' \in Nat
    BY <1>19, <1>t DEF ClaimProbe
  <2>3. QED
    BY <1>19, <1>t, <2>1, <2>2 DEF ClaimProbe, TrustTypeOK
<1>11. ASSUME NEW h \in Requests, Unrecognised(h) PROVE TrustTypeOK'
  <2>1. RequestsOK'
    BY <1>11, <1>d DEF Unrecognised
  <2>2. QED
    BY <1>11, <1>t, <2>1 DEF Unrecognised, TrustTypeOK
<1>12. ASSUME NEW h \in Requests, Invalidate(h) PROVE TrustTypeOK'
  <2>1. RequestsOK'
    BY <1>12, <1>e DEF Invalidate
  <2>2. QED
    BY <1>12, <1>t, <1>n, <2>1 DEF Invalidate, TrustTypeOK
<1>13. ASSUME NEW h \in Requests, RequestDies(h) PROVE TrustTypeOK'
  <2>1. RequestsOK'
    BY <1>13, <1>d, <1>e DEF RequestDies
  <2>2. [scoreCache EXCEPT !.late = TRUE] \in CachedScore
    BY <1>t DEF CachedScore
  <2>3. scoreCache' \in CachedScore
    BY <1>13, <1>t, <2>2, Zenon DEF RequestDies
  <2>4. excused' \in BOOLEAN
    BY <1>13, <1>t, Zenon DEF RequestDies
  <2>5. QED
    BY <1>13, <1>t, <2>1, <2>3, <2>4 DEF RequestDies, TrustTypeOK
<1>14. ASSUME ScoreExpires \/ PendingExpires PROVE TrustTypeOK'
  <2>1. excused' \in BOOLEAN /\ pending' \in BOOLEAN
    BY <1>14, <1>t, Zenon DEF ScoreExpires, PendingExpires
  <2>2. QED
    BY <1>14, <1>t, <1>n, <2>1 DEF ScoreExpires, PendingExpires, TrustTypeOK
<1>15. CASE UNCHANGED trustVars
  BY <1>15 DEF trustVars, TrustTypeOK
<1>16. QED
  BY <1>1, <1>2, <1>3, <1>4, <1>5, <1>6, <1>7, <1>8, <1>9, <1>10, <1>11, <1>12, <1>13, <1>14,
     <1>15, <1>17, <1>18, <1>19 DEF TrustNext

\* The first states have the types.
LEMMA TrustTypeInit == TrustInit => TrustTypeOK
<1> SUFFICES ASSUME TrustInit PROVE TrustTypeOK
  OBVIOUS
<1>1. inputs \in Counts
  BY StartCounts DEF TrustInit
<1>2. NoScore \in CachedScore
  <2>1. -1 \in -1..100
    OBVIOUS
  <2>2. QED
    BY <2>1 DEF NoScore, CachedScore
<1>3. /\ request = [h \in Requests |-> request[h]]
      /\ \A h \in Requests : RequestOK(request[h])
  BY IdleIsRequest DEF TrustInit
<1>4. QED
  BY <1>1, <1>2, <1>3 DEF TrustInit, TrustTypeOK

\* Counts stay counts, every cached score is a percentage, and whoever is about to cache one
\* holds counts read from Postgres.
THEOREM TrustTypes == TrustSpec => []TrustTypeOK
BY TrustTypeInit, TrustTypeStep, PTL DEF TrustSpec

\* A reader is in the low band only after a wrong answer to a test post, however fast or
\* one-sided the reviewing and whatever the forward rate of the deployment.
THEOREM LowBandEarned == TrustSpec => []LowIsEarned
<1>1. TrustTypeOK => LowIsEarned
  <2> SUFFICES ASSUME TrustTypeOK, NEW rate \in ForwardRates,
                      FanoutFor(ComputeScore(inputs, rate)) < FeedFanout
               PROVE  inputs.correct < inputs.answered
    BY DEF LowIsEarned
  <2> DEFINE score == ComputeScore(inputs, rate)
  <2>1. inputs \in Counts /\ rate \in Rates
    BY TrustAssumption DEF TrustTypeOK, Rates, Thousandths
  <2>2. inputs.correct \in Nat /\ inputs.answered \in Nat
    BY <2>1 DEF Counts
  <2>3. score \in 0..100 /\ (inputs.correct >= inputs.answered => score >= 50)
    BY <2>1, ScoreType
  <2>4. FanoutFor(score) < FeedFanout
    OBVIOUS
  <2> HIDE DEF score
  <2>5. ASSUME inputs.correct >= inputs.answered PROVE FALSE
    <3>1. score \in 0..100 /\ score >= 35
      BY <2>3, <2>5
    <3>2. FanoutFor(score) >= FeedFanout
      BY <3>1, FanoutType
    <3>3. FanoutFor(score) \in Int /\ FeedFanout \in Int
      <4>1. FeedFanout \in Nat
        BY TrustAssumption
      <4>2. QED
        BY <4>1 DEF FanoutFor
    <3>4. QED
      BY <2>4, <3>2, <3>3
  <2>6. QED
    BY <2>2, <2>5
<1>2. QED
  BY <1>1, TrustTypes, PTL

\* A right answer to a test post (probes.answer) never costs a reader who was above chance,
\* whatever the history, the reviews and the forward rate.
THEOREM RightAnswersPay == ASSUME FineGrain PROVE TrustSpec => RightAnswersNeverCost
<1> DEFINE Right == inputs'.correct > inputs.correct /\ 2 * inputs.correct >= inputs.answered
           NoCost == \A rate \in ForwardRates :
                        ComputeScore(inputs', rate) >= ComputeScore(inputs, rate)
<1>1. ASSUME TrustTypeOK, [TrustNext]_trustVars, Right PROVE NoCost
  <2>0. inputs \in Counts
    BY <1>1 DEF TrustTypeOK
  <2>1. PICK h \in Requests, right \in BOOLEAN : CommitAnswer(h, right)
    <3>1. inputs' # inputs
      BY <1>1, <2>0 DEF Counts
    <3>2. ASSUME NEW h \in Requests, NEW manner, Review(h, manner) PROVE FALSE
      <4> DEFINE more == inputs.reviews + 1
                 f == IF "forward" \in manner THEN inputs.forwards + 1 ELSE inputs.forwards
                 p == IF inputs.reviews > 0 THEN inputs.paced + 1 ELSE inputs.paced
                 q == IF inputs.reviews > 0 /\ "hasty" \in manner THEN inputs.hasty + 1
                      ELSE inputs.hasty
      <4>1. inputs' = [inputs EXCEPT !.reviews = more, !.forwards = f, !.paced = p, !.hasty = q]
        BY <3>2 DEF Review
      <4> HIDE DEF more, f, p, q
      <4>2. inputs'.correct = inputs.correct
        BY <4>1, <2>0 DEF Counts
      <4>3. QED
        BY <4>2, <1>1, <2>0 DEF Counts
    <3>3. QED
      BY <3>1, <3>2, <1>1 DEF TrustNext, trustVars, Statistics, ReadReviews, ReadProbes, SetCache,
        AskPending, ShouldMint, MintProbe, RememberProbe, RestartGap, ClaimProbe, Answer, Unrecognised, Invalidate, RequestDies,
        ScoreExpires, PendingExpires
  <2> DEFINE answered == inputs.answered + 1
             correct == IF right THEN inputs.correct + 1 ELSE inputs.correct
  <2>2. inputs' = [inputs EXCEPT !.answered = answered, !.correct = correct]
    BY <2>1 DEF CommitAnswer
  <2>3. answered \in Nat /\ correct \in Nat /\ inputs.correct \in Nat /\ inputs.answered \in Nat
    BY <2>0 DEF Counts
  <2>4. inputs'.answered = answered /\ inputs'.correct = correct
    BY <2>0, <2>2 DEF Counts
  <2>5. correct = inputs.correct + 1
    BY <1>1, <2>3, <2>4
  <2> HIDE DEF answered, correct
  <2>6. /\ inputs'.reviews = inputs.reviews /\ inputs'.forwards = inputs.forwards
        /\ inputs'.paced = inputs.paced /\ inputs'.hasty = inputs.hasty /\ inputs' \in Counts
    BY <2>0, <2>2, <2>3 DEF Counts
  <2>7. inputs'.answered = inputs.answered + 1
    BY <2>4 DEF answered
  <2>8. ASSUME NEW rate \in ForwardRates
        PROVE  ComputeScore(inputs', rate) >= ComputeScore(inputs, rate)
    <3>1. rate \in Rates
      BY TrustAssumption DEF Rates, Thousandths
    <3>2. ComputeScore(inputs, rate) <= ComputeScore(inputs', rate)
      BY <3>1, <2>0, <2>4, <2>5, <2>6, <2>7, <1>1, ScoreGrows
    <3>3. ComputeScore(inputs, rate) \in Int /\ ComputeScore(inputs', rate) \in Int
      BY <3>1, <2>0, <2>6, ScoreType
    <3>4. QED
      BY <3>2, <3>3
  <2>9. QED
    BY <2>8
<1>2. TrustTypeOK /\ [TrustNext]_trustVars
        => [ inputs'.correct > inputs.correct /\ 2 * inputs.correct >= inputs.answered =>
               \A rate \in ForwardRates :
                   ComputeScore(inputs', rate) >= ComputeScore(inputs, rate) ]_trustVars
  BY <1>1
<1>3. QED
  BY <1>2, TrustTypes, PTL DEF TrustSpec, RightAnswersNeverCost

------------------------------------------------------------------------------
(* TRUST: the cache and the answers.                                       *)

\* What holds the score that will be cached knows every answer, or an answer's request has yet
\* to drop the score; the cached score likewise.
Dropping == \E h \in Requests : Doing(h, "invalidate")
CacheInv ==
  /\ scoreCache # NoScore /\ ~scoreCache.late => scoreCache.answered = inputs.answered \/ Dropping
  /\ \A h \in Requests :
        Doing(h, "setCache") /\ ~request[h].late =>
            request[h].inputs.answered = inputs.answered \/ Dropping

\* A request that neither computes nor drops the score and comes to do neither.
LEMMA Bystander ==
  ASSUME TrustTypeOK, CacheInv, NEW h \in Requests, NEW q, RequestOK(q), Becomes(h, q),
         q.at # "setCache", ~Doing(h, "invalidate"),
         inputs'.answered = inputs.answered, scoreCache' \in {scoreCache, NoScore}
  PROVE  CacheInv'
<1>1. request'[h] = q /\ \A g \in Requests : g # h => request'[g] = request[g]
  BY BecomesType
<1>2. Dropping => Dropping'
  BY <1>1 DEF Dropping, Doing
<1>3. QED
  BY <1>1, <1>2 DEF CacheInv, Doing

\* An answer that is not yet dropped, or the request that will drop it dies: whoever has read
\* before it is late.
LEMMA LateOnes ==
  ASSUME TrustTypeOK, NEW h \in Requests, EndAnswer(h),
         scoreCache' = NoScore \/ scoreCache'.late
  PROVE  CacheInv'
<1>1. /\ request'[h] = IdleRequest
      /\ \A g \in Requests : g # h => (request'[g].at = "setCache" => request'[g].late)
  BY EndAnswerType
<1>2. request'[h].at # "setCache"
  BY <1>1, IdleIsRequest
<1>3. QED
  BY <1>1, <1>2 DEF CacheInv, Doing

\* Each action keeps the cache knowing.
LEMMA CacheStep == TrustTypeOK /\ CacheInv /\ [TrustNext]_trustVars => CacheInv'
<1> SUFFICES ASSUME TrustTypeOK, CacheInv, [TrustNext]_trustVars PROVE CacheInv'
  OBVIOUS
<1>b. ASSUME NEW h \in Requests, ~Doing(h, "invalidate"),
             inputs'.answered = inputs.answered, scoreCache' \in {scoreCache, NoScore},
             \E q : Becomes(h, q) /\ RequestOK(q) /\ q.at # "setCache"
      PROVE  CacheInv'
  <2>1. PICK q : Becomes(h, q) /\ RequestOK(q) /\ q.at # "setCache"
    BY <1>b
  <2>2. QED
    BY <1>b, <2>1, Bystander
<1>g. ASSUME NEW h \in Requests, NEW at \in {"dice", "minted", "remembered", "claimed", "answer", "invalidate"}, GoTo(h, at)
      PROVE  \E q : Becomes(h, q) /\ RequestOK(q) /\ q.at # "setCache" /\ q.at = at
  <2>1. at \in Steps /\ at \notin {"readProbes", "setCache"}
    BY DEF Steps
  <2>2. QED
    BY <1>g, <2>1, GoToBecomes
<1>d. ASSUME NEW h \in Requests, Done(h)
      PROVE  \E q : Becomes(h, q) /\ RequestOK(q) /\ q.at # "setCache"
  BY <1>d, DoneBecomes
<1>r. ASSUME NEW h \in Requests, NEW then \in {"idle", "dice"}, ReadCache(h, then)
      PROVE  \E q : Becomes(h, q) /\ RequestOK(q) /\ q.at # "setCache"
  BY <1>r, ReadCacheBecomes
<1>1. ASSUME NEW h \in Requests, Statistics(h) PROVE CacheInv'
  BY <1>1, <1>b, <1>r DEF Statistics, Doing
<1>2. ASSUME NEW h \in Requests, ReadReviews(h) PROVE CacheInv'
  BY <1>2, <1>b, ReadsBecome DEF ReadReviews, Doing
<1>3. ASSUME NEW h \in Requests, ReadProbes(h) PROVE CacheInv'
  <2>1. PICK q : /\ Becomes(h, q) /\ RequestOK(q) /\ q.at = "setCache"
                 /\ q.inputs.answered = inputs.answered
    BY <1>3, ReadsBecome
  <2>2. request'[h] = q /\ \A g \in Requests : g # h => request'[g] = request[g]
    BY <2>1, BecomesType
  <2>3. scoreCache' = scoreCache /\ inputs' = inputs
    BY <1>3 DEF ReadProbes
  <2>4. Dropping => Dropping'
    BY <1>3, <2>2 DEF Dropping, Doing, ReadProbes
  <2>5. QED
    BY <2>1, <2>2, <2>3, <2>4 DEF CacheInv, Doing
<1>4. ASSUME NEW h \in Requests, NEW rate \in ForwardRates, SetCache(h, rate) PROVE CacheInv'
  <2>1. PICK q : Becomes(h, q) /\ RequestOK(q) /\ q.at \in {"idle", "dice"}
    BY <1>4, SetCacheStores
  <2>2. request'[h] = q /\ \A g \in Requests : g # h => request'[g] = request[g]
    BY <2>1, BecomesType
  <2>3. scoreCache'.answered = request[h].inputs.answered /\ scoreCache'.late = request[h].late
    BY <1>4, SetCacheStores
  <2>4. inputs' = inputs /\ Doing(h, "setCache")
    BY <1>4 DEF SetCache
  <2>5. Dropping => Dropping'
    BY <2>2, <2>4 DEF Dropping, Doing
  <2>6. request'[h].at # "setCache"
    BY <2>1, <2>2
  <2>7. QED
    BY <2>2, <2>3, <2>4, <2>5, <2>6 DEF CacheInv, Doing
<1>5. ASSUME NEW h \in Requests, NEW manner \in ReviewManners, Review(h, manner) PROVE CacheInv'
  <2>1. \E q : Becomes(h, q) /\ RequestOK(q) /\ q.at # "setCache"
    <3>1. CASE "forward" \in manner
      BY <1>5, <3>1, <1>r DEF Review
    <3>2. CASE "forward" \notin manner
      BY <1>5, <3>2, <1>g DEF Review
    <3>3. QED
      BY <3>1, <3>2
  <2>2. QED
    BY <1>5, <1>b, <2>1, ReviewCounts DEF Review, Doing
<1>6. ASSUME NEW h \in Requests, NEW lucky \in BOOLEAN, ShouldMint(h, lucky) PROVE CacheInv'
  <2>1. \E q : Becomes(h, q) /\ RequestOK(q) /\ q.at # "setCache"
    BY <1>6, DiceBecome
  <2>2. QED
    BY <1>6, <1>b, <2>1 DEF ShouldMint, Doing
<1>7. ASSUME NEW h \in Requests, NEW possible \in BOOLEAN, MintProbe(h, possible) PROVE CacheInv'
  <2>1. \E q : Becomes(h, q) /\ RequestOK(q) /\ q.at # "setCache"
    BY <1>7, <1>d, <1>g DEF MintProbe
  <2>2. QED
    BY <1>7, <1>b, <2>1 DEF MintProbe, Doing
<1>8. ASSUME NEW h \in Requests, NEW right \in BOOLEAN, CommitAnswer(h, right) PROVE CacheInv'
  <2>1. PICK q : Becomes(h, q) /\ RequestOK(q) /\ q.at # "setCache" /\ q.at = "invalidate"
    BY <1>8, <1>g DEF CommitAnswer
  <2>2. request'[h] = q
    BY <2>1, BecomesType
  <2>3. Dropping'
    BY <2>1, <2>2 DEF Dropping, Doing
  <2>4. QED
    BY <2>3 DEF CacheInv
<1>9. ASSUME NEW h \in Requests, RememberProbe(h) PROVE CacheInv'
  BY <1>9, <1>b, <1>g DEF RememberProbe, Doing
<1>17. ASSUME NEW h \in Requests, AskPending(h) PROVE CacheInv'
  <2>1. \E q : Becomes(h, q) /\ RequestOK(q) /\ q.at # "setCache"
    BY <1>17, AskBecomes
  <2>2. QED
    BY <1>17, <1>b, <2>1 DEF AskPending, Doing
<1>18. ASSUME NEW h \in Requests, RestartGap(h) PROVE CacheInv'
  BY <1>18, <1>b, <1>d DEF RestartGap, Doing
<1>10. ASSUME NEW h \in Requests, Answer(h) PROVE CacheInv'
  BY <1>10, <1>b, <1>g DEF Answer, Doing
<1>19. ASSUME NEW h \in Requests, ClaimProbe(h) PROVE CacheInv'
  BY <1>19, <1>b, <1>g DEF ClaimProbe, Doing
<1>11. ASSUME NEW h \in Requests, Unrecognised(h) PROVE CacheInv'
  BY <1>11, <1>b, <1>d DEF Unrecognised, Doing
<1>12. ASSUME NEW h \in Requests, Invalidate(h) PROVE CacheInv'
  BY <1>12, LateOnes DEF Invalidate
<1>13. ASSUME NEW h \in Requests, RequestDies(h) PROVE CacheInv'
  <2>1. CASE Doing(h, "invalidate")
    <3>1. EndAnswer(h)
      BY <1>13, <2>1 DEF RequestDies
    <3>2. scoreCache' = NoScore \/ scoreCache'.late
      <4>1. [scoreCache EXCEPT !.late = TRUE].late
        BY DEF TrustTypeOK, CachedScore
      <4>2. QED
        BY <1>13, <2>1, <4>1 DEF RequestDies
    <3>3. QED
      BY <3>1, <3>2, LateOnes
  <2>2. CASE ~Doing(h, "invalidate")
    BY <1>13, <2>2, <1>b, <1>d DEF RequestDies
  <2>3. QED
    BY <2>1, <2>2
<1>14. ASSUME ScoreExpires \/ PendingExpires PROVE CacheInv'
  BY <1>14 DEF ScoreExpires, PendingExpires, CacheInv, Dropping, Doing
<1>15. CASE UNCHANGED trustVars
  BY <1>15 DEF trustVars, CacheInv, Dropping, Doing
<1>16. QED
  BY <1>1, <1>2, <1>3, <1>4, <1>5, <1>6, <1>7, <1>8, <1>9, <1>10, <1>11, <1>12, <1>13, <1>14,
     <1>15, <1>17, <1>18, <1>19 DEF TrustNext

\* The cached score knows every answer committed, unless a computation that read before an
\* answer cached after it or the answer's request died before it dropped the score.
THEOREM CacheKnowsAnswers == TrustSpec => []CacheSeesAnswers
<1>1. TrustInit => CacheInv
  BY DEF TrustInit, CacheInv, Doing, IdleRequest
<1>2. CacheInv => CacheSeesAnswers
  BY DEF CacheInv, CacheSeesAnswers, Dropping
<1>3. QED
  BY <1>1, <1>2, CacheStep, TrustTypes, PTL DEF TrustSpec

------------------------------------------------------------------------------
(* TRUST: one test post out.                                               *)

\* Unless excused: one request asks and mints at most, none while a test post is out, and one that is
\* out is remembered or about to be.
ProbeInv == ~excused =>
  /\ \A g, h \in Minting : g = h
  /\ \A h \in Requests : Doing(h, "roll") \/ Doing(h, "mint") => probesOut = 0
  /\ probesOut <= 1
  /\ probesOut = 1 => pending \/ \E h \in Requests : Doing(h, "minted")

\* A request that did not mint and does not come to.
LEMMA NotMinting ==
  ASSUME TrustTypeOK, ProbeInv, NEW h \in Requests, NEW q, RequestOK(q), Becomes(h, q),
         q.at \notin {"roll", "mint", "minted"}, ~Doing(h, "minted"),
         probesOut' = probesOut, pending' = pending, excused' = excused
  PROVE  ProbeInv'
<1>1. request'[h] = q /\ \A g \in Requests : g # h => request'[g] = request[g]
  BY BecomesType
<1>2. Minting' \subseteq Minting
  BY <1>1 DEF Minting
<1>3. \A g \in Requests : Doing(g, "roll")' \/ Doing(g, "mint")' =>
                           Doing(g, "roll") \/ Doing(g, "mint")
  BY <1>1 DEF Doing
<1>4. \A g \in Requests : Doing(g, "minted") => Doing(g, "minted")'
  BY <1>1 DEF Doing
<1>5. QED
  BY <1>2, <1>3, <1>4 DEF ProbeInv

\* Dropping the score touches nobody who mints.
LEMMA DroppingMints ==
  ASSUME TrustTypeOK, ProbeInv, NEW h \in Requests, EndAnswer(h), Doing(h, "invalidate"),
         probesOut' = probesOut, pending' = pending, excused' \in {excused, TRUE}
  PROVE  ProbeInv'
<1>1. /\ request'[h] = IdleRequest /\ request'[h].at = "idle"
      /\ \A g \in Requests : g # h => request'[g].at = request[g].at
  BY EndAnswerType, IdleIsRequest
<1>2. Minting' \subseteq Minting
  BY <1>1 DEF Minting
<1>3. \A g \in Requests : Doing(g, "roll")' \/ Doing(g, "mint")' =>
                           Doing(g, "roll") \/ Doing(g, "mint")
  BY <1>1 DEF Doing
<1>4. \A g \in Requests : Doing(g, "minted") => Doing(g, "minted")'
  BY <1>1 DEF Doing
<1>5. QED
  BY <1>2, <1>3, <1>4 DEF ProbeInv

\* Each action keeps to one.
LEMMA ProbeStep == TrustTypeOK /\ ProbeInv /\ [TrustNext]_trustVars => ProbeInv'
<1> SUFFICES ASSUME TrustTypeOK, ProbeInv, [TrustNext]_trustVars PROVE ProbeInv'
  OBVIOUS
<1>b. ASSUME NEW h \in Requests, ~Doing(h, "minted"),
             probesOut' = probesOut, pending' = pending, excused' = excused,
             \E q : Becomes(h, q) /\ RequestOK(q) /\ q.at \notin {"roll", "mint", "minted"}
      PROVE  ProbeInv'
  <2>1. PICK q : Becomes(h, q) /\ RequestOK(q) /\ q.at \notin {"roll", "mint", "minted"}
    BY <1>b
  <2>2. QED
    BY <1>b, <2>1, NotMinting
<1>g. ASSUME NEW h \in Requests, NEW at \in {"dice", "minted", "remembered", "claimed", "answer", "invalidate"}, GoTo(h, at)
      PROVE  \E q : Becomes(h, q) /\ RequestOK(q) /\ q.at = at
  <2>1. at \in Steps /\ at \notin {"readProbes", "setCache"}
    BY DEF Steps
  <2>2. QED
    BY <1>g, <2>1, GoToBecomes
<1>d. ASSUME NEW h \in Requests, Done(h)
      PROVE  \E q : Becomes(h, q) /\ RequestOK(q) /\ q.at \notin {"roll", "mint", "minted"}
  BY <1>d, DoneBecomes
<1>r. ASSUME NEW h \in Requests, NEW then \in {"idle", "dice"}, ReadCache(h, then)
      PROVE  \E q : Becomes(h, q) /\ RequestOK(q) /\ q.at \notin {"roll", "mint", "minted"}
  BY <1>r, ReadCacheBecomes
<1>1. ASSUME NEW h \in Requests, Statistics(h) PROVE ProbeInv'
  BY <1>1, <1>b, <1>r DEF Statistics, Doing
<1>2. ASSUME NEW h \in Requests, ReadReviews(h) PROVE ProbeInv'
  BY <1>2, <1>b, ReadsBecome DEF ReadReviews, Doing
<1>3. ASSUME NEW h \in Requests, ReadProbes(h) PROVE ProbeInv'
  BY <1>3, <1>b, ReadsBecome DEF ReadProbes, Doing
<1>4. ASSUME NEW h \in Requests, NEW rate \in ForwardRates, SetCache(h, rate) PROVE ProbeInv'
  BY <1>4, <1>b, SetCacheStores DEF SetCache, Doing
<1>5. ASSUME NEW h \in Requests, NEW manner \in ReviewManners, Review(h, manner) PROVE ProbeInv'
  <2>1. \E q : Becomes(h, q) /\ RequestOK(q) /\ q.at \notin {"roll", "mint", "minted"}
    <3>1. CASE "forward" \in manner
      BY <1>5, <3>1, <1>r DEF Review
    <3>2. CASE "forward" \notin manner
      BY <1>5, <3>2, <1>g DEF Review
    <3>3. QED
      BY <3>1, <3>2
  <2>2. QED
    BY <1>5, <1>b, <2>1 DEF Review, Doing
<1>18. ASSUME NEW h \in Requests, AskPending(h) PROVE ProbeInv'
  <2>1. PICK q : /\ Becomes(h, q) /\ RequestOK(q) /\ q.at \in {"idle", "roll"}
                 /\ q.at = "roll" => ~pending
    BY <1>18, AskBecomes
  <2>2. request'[h] = q /\ \A g \in Requests : g # h => request'[g] = request[g]
    BY <2>1, BecomesType
  <2>3. CASE q.at = "idle" /\ ~excused'
    <3>1. ~excused
      BY <1>18, <2>3 DEF AskPending
    <3>2. Minting' \subseteq Minting
      BY <2>2, <2>3 DEF Minting
    <3>3. \A g \in Requests : Doing(g, "roll")' \/ Doing(g, "mint")' =>
                               Doing(g, "roll") \/ Doing(g, "mint")
      BY <2>2, <2>3 DEF Doing
    <3>4. \A g \in Requests : Doing(g, "minted") => Doing(g, "minted")'
      BY <1>18, <2>2 DEF Doing, AskPending
    <3>5. QED
      BY <1>18, <3>1, <3>2, <3>3, <3>4 DEF ProbeInv, AskPending
  <2>4. CASE q.at = "roll" /\ ~excused'
    <3>1. Minting = {} /\ ~excused /\ ~pending
      BY <1>18, <2>1, <2>2, <2>4 DEF AskPending
    <3>2. probesOut = 0 /\ probesOut' = 0
      <4>1. ~(probesOut = 1)
        BY <3>1 DEF ProbeInv, Minting, Doing
      <4>2. probesOut \in Nat /\ probesOut <= 1 /\ probesOut' = probesOut
        BY <1>18, <3>1 DEF ProbeInv, TrustTypeOK, AskPending
      <4>3. QED
        BY <4>1, <4>2
    <3>3. Minting' \subseteq {h}
      BY <2>2, <3>1 DEF Minting
    <3>4. QED
      BY <3>2, <3>3 DEF ProbeInv
  <2>5. CASE excused'
    BY <2>5 DEF ProbeInv
  <2>6. QED
    BY <2>1, <2>3, <2>4, <2>5
<1>6. ASSUME NEW h \in Requests, NEW lucky \in BOOLEAN, ShouldMint(h, lucky) PROVE ProbeInv'
  <2>1. PICK q : Becomes(h, q) /\ RequestOK(q) /\ q.at \in {"idle", "mint"}
    BY <1>6, DiceBecome
  <2>2. request'[h] = q /\ \A g \in Requests : g # h => request'[g] = request[g]
    BY <2>1, BecomesType
  <2>3. h \in Minting /\ Doing(h, "roll")
    BY <1>6 DEF ShouldMint, Minting, Doing
  <2>4. Minting' \subseteq Minting
    BY <2>2, <2>3 DEF Minting
  <2>5. \A g \in Requests : Doing(g, "roll")' \/ Doing(g, "mint")' =>
                             Doing(g, "roll") \/ Doing(g, "mint")
    BY <2>1, <2>2, <2>3 DEF Doing
  <2>6. \A g \in Requests : Doing(g, "minted") => Doing(g, "minted")'
    BY <2>2, <2>3 DEF Doing
  <2>7. QED
    BY <1>6, <2>4, <2>5, <2>6 DEF ShouldMint, ProbeInv
<1>7. ASSUME NEW h \in Requests, NEW possible \in BOOLEAN, MintProbe(h, possible) PROVE ProbeInv'
  <2>1. CASE ~possible
    BY <1>7, <2>1, <1>b, <1>d DEF MintProbe, Doing
  <2>2. CASE possible /\ ~excused
    <3>1. PICK q : Becomes(h, q) /\ RequestOK(q) /\ q.at = "minted"
      BY <1>7, <2>2, <1>g DEF MintProbe
    <3>2. request'[h] = q /\ \A g \in Requests : g # h => request'[g] = request[g]
      BY <3>1, BecomesType
    <3>3. h \in Minting /\ \A g \in Minting : g = h
      BY <1>7, <2>2 DEF ProbeInv, Minting, MintProbe, Doing
    <3>4. Minting' \subseteq {h}
      BY <3>2, <3>3 DEF Minting
    <3>5. probesOut' = 1
      BY <1>7, <2>2 DEF ProbeInv, MintProbe
    <3>6. Doing(h, "minted")'
      BY <3>1, <3>2 DEF Doing
    <3>7. \A g \in Requests : ~Doing(g, "roll")' /\ ~Doing(g, "mint")'
      BY <3>1, <3>2, <3>3 DEF Doing, Minting
    <3>8. QED
      BY <3>4, <3>5, <3>6, <3>7 DEF ProbeInv
  <2>3. CASE excused
    BY <1>7, <2>3 DEF MintProbe, ProbeInv
  <2>4. QED
    BY <2>1, <2>2, <2>3
<1>8. ASSUME NEW h \in Requests, NEW right \in BOOLEAN, CommitAnswer(h, right) PROVE ProbeInv'
  BY <1>8, <1>b, <1>g DEF CommitAnswer, Doing
<1>9. ASSUME NEW h \in Requests, RememberProbe(h) PROVE ProbeInv'
  <2>1. CASE excused'
    BY <2>1 DEF ProbeInv
  <2>2. CASE ~excused'
    <3>1. ~excused /\ pending' /\ probesOut' = probesOut
      BY <1>9, <2>2 DEF RememberProbe
    <3>2. PICK q : Becomes(h, q) /\ RequestOK(q) /\ q.at \notin {"roll", "mint", "minted"}
      BY <1>9, <1>g DEF RememberProbe
    <3>3. request'[h] = q /\ \A g \in Requests : g # h => request'[g] = request[g]
      BY <3>2, BecomesType
    <3>4. /\ Minting' \subseteq Minting
          /\ \A g \in Requests : Doing(g, "roll")' \/ Doing(g, "mint")' =>
                                  Doing(g, "roll") \/ Doing(g, "mint")
      BY <3>2, <3>3 DEF Minting, Doing
    <3>5. QED
      BY <3>1, <3>4 DEF ProbeInv
  <2>3. QED
    BY <2>1, <2>2
<1>10. ASSUME NEW h \in Requests, Answer(h) PROVE ProbeInv'
  <2>1. CASE excused'
    BY <2>1 DEF ProbeInv
  <2>2. CASE ~excused'
    <3>1. ~excused /\ ~(pending /\ probesOut > 0) /\ probesOut' = probesOut /\ Doing(h, "claimed")
      BY <1>10, <2>2 DEF Answer
    <3>2. PICK q : Becomes(h, q) /\ RequestOK(q) /\ q.at = "answer"
      BY <1>10, <1>g DEF Answer
    <3>3. request'[h] = q /\ \A g \in Requests : g # h => request'[g] = request[g]
      BY <3>2, BecomesType
    <3>4. /\ Minting' \subseteq Minting
          /\ \A g \in Requests : Doing(g, "roll")' \/ Doing(g, "mint")' =>
                                  Doing(g, "roll") \/ Doing(g, "mint")
          /\ \A g \in Requests : Doing(g, "minted") => Doing(g, "minted")'
      BY <3>1, <3>2, <3>3 DEF Minting, Doing
    <3>5. probesOut = 1 => \E g \in Requests : Doing(g, "minted")
      BY <3>1 DEF ProbeInv
    <3>6. QED
      BY <3>1, <3>4, <3>5 DEF ProbeInv
  <2>3. QED
    BY <2>1, <2>2
<1>20. ASSUME NEW h \in Requests, ClaimProbe(h) PROVE ProbeInv'
  <2>1. CASE excused
    BY <1>20, <2>1 DEF ClaimProbe, ProbeInv
  <2>2. CASE ~excused
    <3>1. probesOut > 0 /\ probesOut' = probesOut - 1 /\ probesOut <= 1 /\ probesOut \in Nat
      BY <1>20, <2>2 DEF ClaimProbe, ProbeInv, TrustTypeOK
    <3>2. probesOut' = 0
      BY <3>1
    <3>3. PICK q : Becomes(h, q) /\ RequestOK(q) /\ q.at = "claimed"
      BY <1>20, <1>g DEF ClaimProbe
    <3>4. request'[h] = q /\ \A g \in Requests : g # h => request'[g] = request[g]
      BY <3>3, BecomesType
    <3>5. Minting' \subseteq Minting
      BY <3>3, <3>4 DEF Minting
    <3>6. QED
      BY <2>2, <3>2, <3>5 DEF ProbeInv
  <2>3. QED
    BY <2>1, <2>2
<1>11. ASSUME NEW h \in Requests, Unrecognised(h) PROVE ProbeInv'
  BY <1>11, <1>b, <1>d DEF Unrecognised, Doing
<1>12. ASSUME NEW h \in Requests, Invalidate(h) PROVE ProbeInv'
  BY <1>12, DroppingMints DEF Invalidate
<1>13. ASSUME NEW h \in Requests, RequestDies(h) PROVE ProbeInv'
  <2>1. CASE Doing(h, "minted")
    BY <1>13, <2>1 DEF RequestDies, ProbeInv
  <2>2. CASE ~Doing(h, "minted")
    <3>1. excused' = excused /\ probesOut' = probesOut /\ pending' = pending
      BY <1>13, <2>2 DEF RequestDies, TrustTypeOK
    <3>2. CASE Doing(h, "invalidate")
      <4>1. EndAnswer(h)
        BY <1>13, <3>2 DEF RequestDies
      <4>2. QED
        BY <3>1, <3>2, <4>1, DroppingMints
    <3>3. CASE ~Doing(h, "invalidate")
      <4>1. Done(h)
        BY <1>13, <3>3 DEF RequestDies
      <4>2. QED
        BY <2>2, <3>1, <4>1, <1>b, <1>d
    <3>4. QED
      BY <3>2, <3>3
  <2>3. QED
    BY <2>1, <2>2
<1>19. ASSUME NEW h \in Requests, RestartGap(h) PROVE ProbeInv'
  BY <1>19, <1>b, <1>d DEF RestartGap, Doing
<1>14. CASE ScoreExpires
  BY <1>14 DEF ScoreExpires, ProbeInv, Minting, Doing
<1>15. CASE PendingExpires
  <2>1. CASE excused'
    BY <2>1 DEF ProbeInv
  <2>2. CASE ~excused'
    <3>1. ~excused /\ ~(probesOut > 0) /\ probesOut' = probesOut /\ request' = request
      BY <1>15, <2>2 DEF PendingExpires
    <3>2. probesOut = 0
      BY <3>1 DEF TrustTypeOK
    <3>3. Minting' = Minting
      BY <3>1 DEF Minting
    <3>4. QED
      BY <3>1, <3>2, <3>3 DEF ProbeInv, Doing
  <2>3. QED
    BY <2>1, <2>2
<1>16. CASE UNCHANGED trustVars
  BY <1>16 DEF trustVars, ProbeInv, Minting, Doing
<1>17. QED
  BY <1>1, <1>2, <1>3, <1>4, <1>5, <1>6, <1>7, <1>8, <1>9, <1>10, <1>11, <1>12, <1>13, <1>14,
     <1>15, <1>16, <1>18, <1>19, <1>20 DEF TrustNext

\* One test post is out at a time, unless reviews overlapped between asking and remembering, a
\* request died in there, the outstanding one was ignored for a day, or the answer to another
\* test post deleted its key.
THEOREM OneProbe == TrustSpec => []OneProbeOut
<1>1. TrustInit => ProbeInv
  BY DEF TrustInit, ProbeInv, Minting, Doing, IdleRequest
<1>2. TrustTypeOK /\ ProbeInv => OneProbeOut
  <2> SUFFICES ASSUME TrustTypeOK, ProbeInv, ~excused
               PROVE  probesOut + Cardinality({h \in Requests : Doing(h, "mint")}) <= 1
    BY DEF OneProbeOut
  <2> DEFINE minters == {h \in Requests : Doing(h, "mint")}
  <2>1. probesOut \in Nat /\ probesOut <= 1
    BY DEF TrustTypeOK, ProbeInv
  <2>2. CASE minters = {}
    BY <2>1, <2>2, FS_EmptySet
  <2>3. CASE minters # {}
    <3>1. PICK h \in minters : TRUE
      BY <2>3
    <3>2. probesOut = 0
      BY <3>1 DEF ProbeInv
    <3>3. minters \subseteq Minting
      BY DEF Minting, Doing
    <3>4. minters = {h}
      BY <3>1, <3>3 DEF ProbeInv
    <3> HIDE DEF minters
    <3>5. Cardinality(minters) = 1
      BY <3>4, FS_Singleton
    <3>6. QED
      BY <3>2, <3>5 DEF minters
  <2>4. QED
    BY <2>2, <2>3
<1>3. QED
  BY <1>1, <1>2, ProbeStep, TrustTypes, PTL DEF TrustSpec

------------------------------------------------------------------------------
(* RATE LIMITS: budgets and what a request spends.                         *)

\* What a request spends is a sequence of budgets, each of a scope that has a limit.
LEMMA SpendsBudgets ==
  ASSUME NEW v \in Visits
  PROVE  BudgetsOf(v) \in Seq(Scopes \X {v.user, v.ip, v.tried})
<1> DEFINE B == Scopes \X {v.user, v.ip, v.tried}
<1>0. v.route \in Limited /\ v.super \in BOOLEAN
  BY RateLimitAssumption
<1>1. ASSUME NEW scope \in Scopes
      PROVE  /\ << <<scope, v.user>> >> \in Seq(B) /\ << <<scope, v.ip>> >> \in Seq(B)
             /\ << <<scope, v.ip>> >> \o << <<scope, v.tried>> >> \in Seq(B)
             /\ << >> \in Seq(B) /\ << <<scope, v.ip>> >> \o << >> \in Seq(B)
  <2> DEFINE u == <<scope, v.user>>
             a == <<scope, v.ip>>
             t == <<scope, v.tried>>
  <2>1. u \in B /\ a \in B /\ t \in B
    OBVIOUS
  <2> HIDE DEF B, u, a, t
  <2>2. <<u>> \in Seq(B) /\ <<a>> \in Seq(B) /\ <<t>> \in Seq(B) /\ << >> \in Seq(B)
    BY <2>1
  <2>3. <<a>> \o <<t>> \in Seq(B) /\ <<a>> \o << >> \in Seq(B)
    BY <2>2, ConcatProperties
  <2>4. QED
    BY <2>2, <2>3 DEF u, a, t
<1>2. ASSUME NEW scope \in Scopes
      PROVE  UserBudget(scope, v) \in Seq(B) /\ AddressAndAccount(scope, v) \in Seq(B)
  <2> HIDE DEF B
  <2>1. UserBudget(scope, v) \in Seq(B)
    BY <1>1, Zenon DEF UserBudget
  <2>2. AddressAndAccount(scope, v) \in Seq(B)
    BY <1>1, Zenon DEF AddressAndAccount
  <2>3. QED
    BY <2>1, <2>2
<1>3. /\ "interact" \in Scopes /\ "change_password" \in Scopes /\ "account_export" \in Scopes
      /\ "feedback" \in Scopes /\ "login" \in Scopes /\ "register" \in Scopes
      /\ "password_reset_request" \in Scopes /\ "password_reset_confirm" \in Scopes
  BY DEF Scopes
<1> HIDE DEF B
<1>4. FeedbackBudgets(v) \in Seq(B)
  BY <1>1, <1>3, Zenon DEF FeedbackBudgets
<1>5. /\ InteractionBudgets(v) \in Seq(B) /\ PasswordBudgets(v) \in Seq(B)
      /\ ExportBudgets(v) \in Seq(B) /\ LoginBudgets(v) \in Seq(B) /\ ForgotBudgets(v) \in Seq(B)
  BY <1>2, <1>3, Zenon DEF InteractionBudgets, PasswordBudgets, ExportBudgets, LoginBudgets, ForgotBudgets
<1>6. RegisterBudgets(v) \in Seq(B) /\ ResetBudgets(v) \in Seq(B)
  BY <1>1, <1>3, Zenon DEF RegisterBudgets, ResetBudgets
<1>7. BudgetsOf(v) \in {InteractionBudgets(v), PasswordBudgets(v), ExportBudgets(v),
                        FeedbackBudgets(v), LoginBudgets(v), ForgotBudgets(v),
                        RegisterBudgets(v), ResetBudgets(v)}
  BY <1>0 DEF BudgetsOf, Limited
<1>8. QED
  BY <1>4, <1>5, <1>6, <1>7 DEF B

\* Every budget has a limit, and a request spends budgets.
LEMMA BudgetsLimited ==
  /\ \A b \in Budgets : Limit(b) \in Nat
  /\ \A v \in Visits : BudgetsOf(v) \in Seq(Budgets)
<1>1. ASSUME NEW v \in Visits
      PROVE  /\ BudgetsOf(v) \in Seq(Budgets)
             /\ \A i \in DOMAIN BudgetsOf(v) : Limit(BudgetsOf(v)[i]) \in Nat
  <2> DEFINE s == BudgetsOf(v)
             B == Scopes \X {v.user, v.ip, v.tried}
  <2>1. s \in Seq(B)
    BY SpendsBudgets
  <2>2. \A i \in DOMAIN s : s[i] \in Budgets
    BY DEF Budgets
  <2>3. \A i \in DOMAIN s : Limit(s[i]) \in Nat
    <3>1. \A b \in B : b[1] \in Scopes
      OBVIOUS
    <3>2. \A b \in B : Limit(b) \in Nat
      BY <3>1, RateLimitAssumption DEF Limit
    <3> HIDE DEF B, s
    <3>3. QED
      BY <2>1, <3>2
  <2> HIDE DEF s, B
  <2>4. s \in Seq(Budgets)
    BY <2>1, <2>2
  <2>5. QED
    BY <2>3, <2>4 DEF s
<1>2. QED
  BY <1>1 DEF Budgets

------------------------------------------------------------------------------
(* RATE LIMITS: what is in a window.                                       *)

Ascends(s) == \A i, j \in 1..Len(s) : i <= j => s[i] <= s[j]

\* Dropping what left the window of an ascending log drops its beginning: the hits that are
\* Window old, and no other.
LEMMA WindowKeeps ==
  ASSUME NEW s \in Seq(Nat), Ascends(s), clock \in Nat
  PROVE  \E m \in 0..Len(s) :
            /\ InWindow(s) = SubSeq(s, m + 1, Len(s))
            /\ \A i \in 1..m : s[i] <= clock - Window
            /\ \A i \in (m + 1)..Len(s) : s[i] > clock - Window
<1> DEFINE n    == Len(s)
           left == {i \in 1..n : s[i] <= clock - Window}
           m    == Cardinality(left)
<1>0. n \in Nat /\ Window \in Nat /\ (\A i \in 1..n : s[i] \in Nat)
  BY RateLimitAssumption
<1>1. InWindow(s) = SubSeq(s, m + 1, n)
  BY DEF InWindow
<1>2. left \subseteq 1..n /\ \A i \in left : \A j \in 1..n : j <= i => j \in left
  <2>1. \A i, j \in 1..n : i <= j => s[i] <= s[j]
    BY DEF Ascends
  <2>2. QED
    BY <1>0, <2>1
<1>3. \A i \in 1..n : i \in left <=> s[i] <= clock - Window
  OBVIOUS
<1> HIDE DEF left, n
<1>4. IsFiniteSet(left) /\ m \in Nat /\ m <= n
  <2>1. IsFiniteSet(1..n) /\ Cardinality(1..n) = n
    BY <1>0, FS_Interval
  <2>2. IsFiniteSet(left) /\ Cardinality(left) <= Cardinality(1..n)
    BY <2>1, <1>2, FS_Subset
  <2>3. QED
    BY <2>1, <2>2, FS_CardinalityType
<1>5. ASSUME NEW i \in left PROVE i <= m
  <2>1. i \in Nat /\ i >= 1 /\ 1..i \subseteq left
    BY <1>0, <1>2
  <2>2. Cardinality(1..i) = i
    BY <2>1, FS_Interval
  <2>3. Cardinality(1..i) <= Cardinality(left)
    BY <2>1, <1>4, FS_Subset
  <2>4. QED
    BY <2>2, <2>3
<1>6. ASSUME NEW i \in 1..n, i \notin left PROVE i > m
  <2>1. i \in Nat /\ i >= 1
    OBVIOUS
  <2>2. left \subseteq 1..(i - 1)
    BY <1>0, <1>2, <1>6
  <2>3. IsFiniteSet(1..(i - 1)) /\ Cardinality(1..(i - 1)) = i - 1
    BY <2>1, FS_Interval
  <2>4. Cardinality(left) <= Cardinality(1..(i - 1))
    BY <2>2, <2>3, FS_Subset
  <2>5. m <= i - 1
    BY <2>3, <2>4
  <2>6. QED
    BY <2>1, <2>5, <1>4
<1> HIDE DEF m
<1>7. \A i \in 1..m : s[i] <= clock - Window
  BY <1>0, <1>3, <1>4, <1>6
<1>8. \A i \in (m + 1)..n : s[i] > clock - Window
  <2>1. ASSUME NEW i \in (m + 1)..n PROVE i \in 1..n /\ i \notin left
    BY <1>0, <1>4, <1>5
  <2>2. ASSUME NEW i \in (m + 1)..n PROVE s[i] > clock - Window
    <3>1. i \in 1..n /\ i \notin left
      BY <2>1
    <3>2. ~(s[i] <= clock - Window) /\ s[i] \in Nat /\ clock - Window \in Int
      BY <3>1, <1>0, <1>3
    <3>3. QED
      BY <3>2
  <2>3. QED
    BY <2>2
<1>9. m \in 0..n
  BY <1>0, <1>4
<1>10. QED
  BY <1>1, <1>7, <1>8, <1>9 DEF n

\* The log of a budget against all slots it ever granted, at a time: the last of them, all but
\* those that are Window old.
Recorded(log, all, now) ==
  /\ Ascends(all) /\ \A i \in 1..Len(all) : all[i] <= now
  /\ Len(log) <= Len(all)
  /\ \A i \in 1..Len(log) : log[i] = all[Len(all) - Len(log) + i]
  /\ \A i \in 1..(Len(all) - Len(log)) : all[i] <= now - Window

\* A slot is Window ticks or more after the one that was n slots before it.
Spaced(all, n) == \A i \in 1..(Len(all) - n) : all[i + n] - all[i] >= Window

\* The script's first step leaves a log that is one still, of hits inside the window.
LEMMA Trimmed ==
  ASSUME NEW log \in Seq(Nat), NEW all \in Seq(Nat), clock \in Nat, Recorded(log, all, clock)
  PROVE  /\ InWindow(log) \in Seq(Nat) /\ Len(InWindow(log)) <= Len(log)
         /\ Recorded(InWindow(log), all, clock)
         /\ \A i \in 1..Len(InWindow(log)) : InWindow(log)[i] > clock - Window
         /\ log # << >> /\ log[1] <= clock - Window => Len(InWindow(log)) < Len(log)
<1> DEFINE hits == InWindow(log)
           n == Len(log)
           k == Len(all) - Len(log)
<1>0. /\ n \in Nat /\ Window \in Nat /\ (\A i \in 1..n : log[i] \in Nat)
      /\ Len(all) \in Nat /\ k \in Nat /\ (\A i \in 1..Len(all) : all[i] \in Nat)
  BY RateLimitAssumption DEF Recorded
<1>1. \A i \in 1..n : log[i] = all[k + i]
  BY DEF Recorded
<1>2. Ascends(log)
  <2>1. \A i, j \in 1..Len(all) : i <= j => all[i] <= all[j]
    BY DEF Recorded, Ascends
  <2> HIDE DEF n
  <2>2. \A i \in 1..n : k + i \in 1..Len(all)
    BY <1>0 DEF n
  <2> HIDE DEF k
  <2>3. \A i, j \in 1..n : i <= j => k + i <= k + j
    BY <1>0
  <2>4. QED
    BY <2>1, <2>2, <2>3, <1>1 DEF Ascends, n
<1>3. PICK m \in 0..n : /\ hits = SubSeq(log, m + 1, n)
                        /\ \A i \in 1..m : log[i] <= clock - Window
                        /\ \A i \in (m + 1)..n : log[i] > clock - Window
  BY <1>2, WindowKeeps
<1>4. hits \in Seq(Nat) /\ Len(hits) = n - m /\ \A i \in 1..(n - m) : hits[i] = log[m + i]
  <2>1. \A i \in (m + 1)..n : log[i] \in Nat
    BY <1>0
  <2> HIDE DEF n, hits
  <2>2. m + 1 \in Int /\ n \in Int /\ m \in Nat /\ m <= n
    BY <1>0, <1>3
  <2> DEFINE sub == SubSeq(log, m + 1, n)
  <2>3. /\ sub \in Seq(Nat) /\ Len(sub) = IF m + 1 <= n THEN n - (m + 1) + 1 ELSE 0
        /\ \A i \in 1..(n - (m + 1) + 1) : sub[i] = log[(m + 1) + i - 1]
    BY <2>1, <2>2, SubSeqProperties
  <2>4. hits = sub
    BY <1>3
  <2> HIDE DEF sub
  <2>5. Len(sub) = n - m
    BY <2>2, <2>3
  <2>6. \A i \in 1..(n - m) : sub[i] = log[m + i]
    <3>1. ASSUME NEW i \in 1..(n - m) PROVE i \in 1..(n - (m + 1) + 1) /\ (m + 1) + i - 1 = m + i
      BY <2>2
    <3>2. QED
      BY <2>3, <3>1
  <2>7. QED
    BY <2>3, <2>4, <2>5, <2>6
<1> HIDE DEF hits, n
<1>5. m \in Nat /\ m <= n /\ Len(hits) \in Nat
  BY <1>0, <1>3, <1>4
<1>6. \A i \in 1..Len(hits) : hits[i] > clock - Window
  <2>1. ASSUME NEW i \in 1..(n - m) PROVE m + i \in (m + 1)..n
    BY <1>0, <1>5
  <2>2. QED
    BY <2>1, <1>3, <1>4
<1>7. n = Len(log) /\ k = Len(all) - n
  BY DEF n
<1> HIDE DEF k
<1>8. Recorded(hits, all, clock)
  <2>1. Len(all) - Len(hits) = k + m
    BY <1>0, <1>4, <1>5, <1>7
  <2>2. \A i \in 1..(n - m) : hits[i] = all[(k + m) + i]
    <3>1. ASSUME NEW i \in 1..(n - m) PROVE m + i \in 1..n /\ k + (m + i) = (k + m) + i
      BY <1>0, <1>5
    <3>2. QED
      BY <1>1, <1>4, <3>1
  <2>3. \A i \in 1..(k + m) : all[i] <= clock - Window
    <3>1. ASSUME NEW i \in 1..(k + m) PROVE all[i] <= clock - Window
      <4>1. CASE i <= k
        <5>1. i \in 1..k
          BY <4>1, <1>0, <1>5
        <5>2. QED
          BY <5>1, <1>7 DEF Recorded
      <4>2. CASE ~(i <= k)
        <5>1. i - k \in 1..m /\ i - k \in 1..n /\ k + (i - k) = i
          BY <4>2, <1>0, <1>5
        <5>2. log[i - k] = all[k + (i - k)] /\ log[i - k] <= clock - Window
          BY <5>1, <1>1, <1>3
        <5>3. QED
          BY <5>1, <5>2
      <4>3. QED
        BY <4>1, <4>2
    <3>2. QED
      BY <3>1
  <2>4. Len(hits) <= Len(all)
    BY <1>0, <1>4, <1>5, <1>7
  <2>5. QED
    BY <2>1, <2>2, <2>3, <2>4, <1>4 DEF Recorded
<1>9. ASSUME log # << >>, log[1] <= clock - Window PROVE Len(hits) < n
  <2>1. n >= 1
    BY <1>9, <1>0, <1>7
  <2>2. m # 0
    <3>1. ASSUME m = 0 PROVE FALSE
      <4>1. 1 \in (m + 1)..n
        BY <2>1, <3>1, <1>0
      <4>2. log[1] > clock - Window /\ log[1] \in Nat
        BY <4>1, <1>3, <1>0, <2>1
      <4>3. QED
        BY <4>2, <1>9, <1>0
    <3>2. QED
      BY <3>1
  <2>3. QED
    BY <2>2, <1>4, <1>5, <1>0
<1>10. Len(hits) <= n
  BY <1>4, <1>5, <1>0
<1>11. QED
  BY <1>4, <1>6, <1>8, <1>9, <1>10, <1>7 DEF hits

\* A slot granted now is recorded now; if the log had room for it, the slot of Limit before is
\* Window old.
LEMMA Granted ==
  ASSUME NEW hits \in Seq(Nat), NEW all \in Seq(Nat), clock \in Nat, NEW limit \in Nat,
         Recorded(hits, all, clock), Len(hits) < limit, Spaced(all, limit)
  PROVE  /\ Append(hits, clock) \in Seq(Nat) /\ Append(all, clock) \in Seq(Nat)
         /\ Len(Append(hits, clock)) <= limit
         /\ Recorded(Append(hits, clock), Append(all, clock), clock)
         /\ Spaced(Append(all, clock), limit)
<1> DEFINE h == Append(hits, clock)
           a == Append(all, clock)
           n == Len(all)
           l == Len(hits)
<1>1. /\ h \in Seq(Nat) /\ Len(h) = l + 1 /\ (\A i \in 1..l : h[i] = hits[i]) /\ h[l + 1] = clock
      /\ a \in Seq(Nat) /\ Len(a) = n + 1 /\ (\A i \in 1..n : a[i] = all[i]) /\ a[n + 1] = clock
  BY AppendProperties
<1>2. /\ n \in Nat /\ l \in Nat /\ l <= n /\ Window \in Nat /\ (\A i \in 1..n : all[i] \in Nat)
      /\ l < limit
  BY RateLimitAssumption DEF Recorded
<1>3. /\ \A i, j \in 1..n : i <= j => all[i] <= all[j]
      /\ \A i \in 1..n : all[i] <= clock
      /\ \A i \in 1..l : hits[i] = all[n - l + i]
      /\ \A i \in 1..(n - l) : all[i] <= clock - Window
      /\ \A i \in 1..(n - limit) : all[i + limit] - all[i] >= Window
  BY DEF Recorded, Ascends, Spaced
<1> HIDE DEF h, a, n, l
<1>4. \A i \in 1..(n + 1) : i \in 1..n \/ i = n + 1
  BY <1>2
<1>5. \A i \in 1..(n + 1) : a[i] <= clock
  <2>1. ASSUME NEW i \in 1..(n + 1) PROVE a[i] <= clock
    <3>1. CASE i \in 1..n
      BY <3>1, <1>1, <1>3
    <3>2. CASE i = n + 1
      <4>1. a[i] = clock
        BY <3>2, <1>1
      <4>2. QED
        BY <4>1
    <3>3. QED
      BY <1>4, <3>1, <3>2
  <2>2. QED
    BY <2>1
<1>6. \A i, j \in 1..(n + 1) : i <= j => a[i] <= a[j]
  <2>1. ASSUME NEW i \in 1..(n + 1), NEW j \in 1..(n + 1), i <= j PROVE a[i] <= a[j]
    <3>1. CASE j = n + 1
      BY <3>1, <1>1, <1>5
    <3>2. CASE j # n + 1
      <4>1. i \in 1..n /\ j \in 1..n
        BY <3>2, <2>1, <1>2
      <4>2. QED
        BY <4>1, <2>1, <1>1, <1>3
    <3>3. QED
      BY <3>1, <3>2
  <2>2. QED
    BY <2>1
<1>7. \A i \in 1..(l + 1) : h[i] = a[(n + 1) - (l + 1) + i]
  <2>1. ASSUME NEW i \in 1..(l + 1) PROVE h[i] = a[(n + 1) - (l + 1) + i]
    <3>1. CASE i = l + 1
      <4>1. (n + 1) - (l + 1) + i = n + 1
        BY <3>1, <1>2
      <4>2. QED
        BY <3>1, <4>1, <1>1
    <3>2. CASE i # l + 1
      <4>1. i \in 1..l /\ n - l + i \in 1..n /\ (n + 1) - (l + 1) + i = n - l + i
        BY <3>2, <1>2
      <4>2. QED
        BY <4>1, <1>1, <1>3
    <3>3. QED
      BY <3>1, <3>2
  <2>2. QED
    BY <2>1
<1>8. \A i \in 1..((n + 1) - (l + 1)) : a[i] <= clock - Window
  <2>1. ASSUME NEW i \in 1..((n + 1) - (l + 1)) PROVE i \in 1..(n - l) /\ i \in 1..n
    BY <1>2
  <2>2. QED
    BY <2>1, <1>1, <1>3
<1>9. \A i \in 1..((n + 1) - limit) : a[i + limit] - a[i] >= Window
  <2>1. ASSUME NEW i \in 1..((n + 1) - limit) PROVE a[i + limit] - a[i] >= Window
    <3>1. CASE i = (n + 1) - limit
      <4>1. i + limit = n + 1 /\ i \in 1..(n - l) /\ i \in 1..n
        BY <3>1, <1>2
      <4>2. a[i + limit] = clock /\ a[i] = all[i] /\ all[i] <= clock - Window /\ all[i] \in Nat
        BY <4>1, <1>1, <1>2, <1>3
      <4>3. QED
        BY <4>2, <1>2
    <3>2. CASE i # (n + 1) - limit
      <4>1. i \in 1..(n - limit) /\ i \in 1..n /\ i + limit \in 1..n
        BY <3>2, <1>2
      <4>2. QED
        BY <4>1, <1>1, <1>3
    <3>3. QED
      BY <3>1, <3>2
  <2>2. QED
    BY <2>1
<1>10. Recorded(h, a, clock)
  BY <1>1, <1>2, <1>5, <1>6, <1>7, <1>8 DEF Recorded, Ascends
<1>11. Spaced(a, limit)
  BY <1>1, <1>9 DEF Spaced
<1>12. Len(h) <= limit
  BY <1>1, <1>2
<1>13. QED
  BY <1>1, <1>10, <1>11, <1>12 DEF h, a

\* Whole seconds, rounded up, are not less than the ticks.
LEMMA SecondsEnough == ASSUME NEW x \in Int PROVE RetryAfter(x) \in Nat /\ Second * RetryAfter(x) >= x
<1> DEFINE q == (x + Second - 1) \div Second
<1>0. Second \in Nat \ {0}
  BY RateLimitAssumption
<1>1. \A n \in Int, d \in Nat \ {0} : n \div d \in Int /\ d * (n \div d) > n - d
  OBVIOUS
<1>2. q \in Int /\ Second * q > (x + Second - 1) - Second
  BY <1>0, <1>1
<1>3. RetryAfter(x) = IF q < 1 THEN 1 ELSE q
  BY DEF RetryAfter
<1> HIDE DEF q
<1>4. CASE q < 1
  <2>1. q <= 0
    BY <1>2, <1>4
  <2>2. Second * q <= 0
    BY <2>1, <1>0, <1>2, SMT
  <2>3. Second * q \in Int
    BY <1>0, <1>2
  <2>4. RetryAfter(x) = 1 /\ Second * 1 = Second
    BY <1>0, <1>3, <1>4
  <2>5. QED
    BY <2>2, <2>3, <2>4, <1>0, <1>2
<1>5. CASE ~(q < 1)
  <2>1. Second * q \in Int /\ RetryAfter(x) = q
    BY <1>0, <1>2, <1>3, <1>5
  <2>2. Second * q >= x
    BY <2>1, <1>0, <1>2
  <2>3. QED
    BY <2>1, <2>2, <1>2, <1>5
<1>6. QED
  BY <1>4, <1>5

------------------------------------------------------------------------------
(* RATE LIMITS: the invariant.                                             *)

RateTypeOK ==
  /\ clock \in Nat
  /\ windowLog \in [Budgets -> Seq(Nat)] /\ granted \in [Budgets -> Seq(Nat)]
  /\ promise \in [Budgets -> Int]
  /\ visiting \in [Visitors -> Seq(Budgets)]

\* A refusal told to come back after the oldest hit of a log that is not over the limit.
Told(log, back) == back # -1 => log # << >> /\ back >= log[1] + Window

BudgetOK(log, all, back, limit, now) ==
  /\ Recorded(log, all, now) /\ Spaced(all, limit) /\ Len(log) <= limit /\ Told(log, back)

RateInv == /\ RateTypeOK
           /\ \A b \in Budgets : BudgetOK(windowLog[b], granted[b], promise[b], Limit(b), clock)

\* A step that touches one budget.
LEMMA OneBudget ==
  ASSUME RateInv, NEW b \in Budgets, NEW log \in Seq(Nat), NEW all \in Seq(Nat), NEW back \in Int,
         windowLog' = [windowLog EXCEPT ![b] = log],
         granted' = [granted EXCEPT ![b] = all],
         promise' = [promise EXCEPT ![b] = back],
         clock' = clock, visiting' \in [Visitors -> Seq(Budgets)],
         BudgetOK(log, all, back, Limit(b), clock)
  PROVE  RateInv'
<1>1. RateTypeOK'
  BY DEF RateInv, RateTypeOK
<1>2. ASSUME NEW c \in Budgets
      PROVE  BudgetOK(windowLog'[c], granted'[c], promise'[c], Limit(c), clock')
  <2>1. CASE c = b
    BY <2>1 DEF RateInv, RateTypeOK
  <2>2. CASE c # b
    BY <2>2 DEF RateInv, RateTypeOK
  <2>3. QED
    BY <2>1, <2>2
<1>3. Limit(b)' = Limit(b)
  BY DEF Limit
<1>4. QED
  BY <1>1, <1>2 DEF RateInv, Limit, Budgets

\* The next budget of a request.
LEMMA NextBudget ==
  ASSUME RateInv, NEW r \in Visitors, visiting[r] # << >>
  PROVE  /\ Head(visiting[r]) \in Budgets
         /\ [visiting EXCEPT ![r] = Tail(@)] \in [Visitors -> Seq(Budgets)]
         /\ [visiting EXCEPT ![r] = << >>] \in [Visitors -> Seq(Budgets)]
<1>1. visiting \in [Visitors -> Seq(Budgets)]
  BY DEF RateInv, RateTypeOK
<1>2. Head(visiting[r]) \in Budgets /\ Tail(visiting[r]) \in Seq(Budgets)
  BY <1>1, HeadTailProperties
<1>3. << >> \in Seq(Budgets)
  BY EmptySeq
<1>4. QED
  BY <1>1, <1>2, <1>3

\* A slot is granted.
LEMMA ConsumeStep == ASSUME RateInv, NEW r \in Visitors, Consume(r) PROVE RateInv'
<1> DEFINE b    == Head(visiting[r])
           hits == InWindow(windowLog[b])
           now  == clock
<1>1. /\ visiting[r] # << >> /\ Len(hits) < Limit(b)
      /\ windowLog' = [windowLog EXCEPT ![b] = Append(hits, now)]
      /\ granted' = [granted EXCEPT ![b] = Append(granted[b], now)]
      /\ promise' = [promise EXCEPT ![b] = -1]
      /\ visiting' = [visiting EXCEPT ![r] = Tail(@)] /\ clock' = clock
  BY DEF Consume
<1>2. b \in Budgets /\ visiting' \in [Visitors -> Seq(Budgets)]
  BY <1>1, NextBudget
<1> HIDE DEF b
<1>3. /\ windowLog[b] \in Seq(Nat) /\ granted[b] \in Seq(Nat) /\ clock \in Nat /\ Limit(b) \in Nat
      /\ Recorded(windowLog[b], granted[b], clock) /\ Spaced(granted[b], Limit(b))
  BY <1>2, BudgetsLimited DEF RateInv, RateTypeOK, BudgetOK
<1>4. hits \in Seq(Nat) /\ Recorded(hits, granted[b], clock)
  BY <1>3, Trimmed
<1> HIDE DEF hits
<1>5. /\ Append(hits, now) \in Seq(Nat) /\ Append(granted[b], now) \in Seq(Nat)
      /\ Len(Append(hits, now)) <= Limit(b)
      /\ Recorded(Append(hits, now), Append(granted[b], now), clock)
      /\ Spaced(Append(granted[b], now), Limit(b))
  BY <1>1, <1>3, <1>4, Granted
<1>6. BudgetOK(Append(hits, now), Append(granted[b], now), -1, Limit(b), clock)
  BY <1>5 DEF BudgetOK, Told
<1> DEFINE log  == Append(hits, now)
           all  == Append(granted[b], now)
           back == -1
<1>7. log \in Seq(Nat) /\ all \in Seq(Nat) /\ back \in Int /\ BudgetOK(log, all, back, Limit(b), clock)
  BY <1>5, <1>6
<1>8. /\ windowLog' = [windowLog EXCEPT ![b] = log] /\ granted' = [granted EXCEPT ![b] = all]
      /\ promise' = [promise EXCEPT ![b] = back] /\ clock' = clock
  BY <1>1
<1> HIDE DEF log, all, back, now
<1>9. QED
  BY <1>2, <1>7, <1>8, OneBudget

\* A refusal.
LEMMA RefuseStep == ASSUME RateInv, NEW r \in Visitors, Refuse(r) PROVE RateInv'
<1> DEFINE b    == Head(visiting[r])
           hits == InWindow(windowLog[b])
           wait == Head(hits) + Window - clock
           back == clock + Second * RetryAfter(wait)
           all  == granted[b]
<1>1. /\ visiting[r] # << >> /\ Limit(b) > 0 /\ Len(hits) >= Limit(b)
      /\ windowLog' = [windowLog EXCEPT ![b] = hits]
      /\ promise' = [promise EXCEPT ![b] = back]
      /\ visiting' = [visiting EXCEPT ![r] = << >>] /\ clock' = clock /\ granted' = granted
  BY DEF Refuse
<1>2. b \in Budgets /\ visiting' \in [Visitors -> Seq(Budgets)]
  BY <1>1, NextBudget
<1> HIDE DEF b
<1>3. /\ windowLog[b] \in Seq(Nat) /\ all \in Seq(Nat) /\ clock \in Nat /\ Limit(b) \in Nat
      /\ Recorded(windowLog[b], all, clock) /\ Spaced(all, Limit(b))
      /\ Len(windowLog[b]) <= Limit(b)
  BY <1>2, BudgetsLimited DEF RateInv, RateTypeOK, BudgetOK
<1>4. hits \in Seq(Nat) /\ Len(hits) <= Len(windowLog[b]) /\ Recorded(hits, all, clock)
  BY <1>3, Trimmed
<1>5. granted' = [granted EXCEPT ![b] = all]
  <2>1. granted \in [Budgets -> Seq(Nat)]
    BY DEF RateInv, RateTypeOK
  <2>2. QED
    BY <1>1, <1>2, <2>1
<1> HIDE DEF hits, all, wait
<1>6. Len(hits) \in Nat /\ Len(windowLog[b]) \in Nat
  BY <1>3, <1>4
<1>7. Len(hits) <= Limit(b) /\ Len(hits) >= 1
  BY <1>1, <1>3, <1>4, <1>6
<1>8. hits # << >> /\ hits[1] \in Nat /\ wait = hits[1] + Window - clock
  <2>1. hits # << >> /\ hits[1] \in Nat
    BY <1>4, <1>6, <1>7
  <2>2. QED
    BY <2>1, <1>4 DEF wait
<1>9. wait \in Int /\ Window \in Nat /\ Second \in Nat
  BY <1>3, <1>8, RateLimitAssumption
<1>10. RetryAfter(wait) \in Nat /\ Second * RetryAfter(wait) >= wait
  BY <1>9, SecondsEnough
<1>11. back \in Int /\ back >= hits[1] + Window
  <2> DEFINE s == Second * RetryAfter(wait)
  <2>1. s \in Int /\ s >= wait /\ back = clock + s
    BY <1>9, <1>10
  <2> HIDE DEF s, back
  <2>2. QED
    BY <2>1, <1>3, <1>8, <1>9
<1> HIDE DEF back
<1>12. BudgetOK(hits, all, back, Limit(b), clock)
  BY <1>3, <1>4, <1>7, <1>8, <1>11 DEF BudgetOK, Told
<1>13. QED
  BY <1>1, <1>2, <1>3, <1>4, <1>5, <1>11, <1>12, OneBudget

\* Each action keeps the invariant.
LEMMA RateStep == RateInv /\ [RateLimitNext]_rateLimitVars => RateInv'
<1> SUFFICES ASSUME RateInv, [RateLimitNext]_rateLimitVars PROVE RateInv'
  OBVIOUS
<1>v. ASSUME UNCHANGED <<clock, windowLog, granted, promise>>, visiting' \in [Visitors -> Seq(Budgets)]
      PROVE  RateInv'
  BY <1>v DEF RateInv, RateTypeOK, Limit, Budgets
<1>1. ASSUME NEW r \in Visitors, NEW v \in Visits, Visit(r, v) PROVE RateInv'
  <2>1. BudgetsOf(v) \in Seq(Budgets)
    BY BudgetsLimited
  <2>2. visiting' \in [Visitors -> Seq(Budgets)]
    <3> DEFINE s == BudgetsOf(v)
    <3>1. s \in Seq(Budgets) /\ visiting' = [visiting EXCEPT ![r] = s]
      BY <1>1, <2>1 DEF Visit
    <3> HIDE DEF s
    <3>2. QED
      BY <3>1 DEF RateInv, RateTypeOK
  <2>3. QED
    BY <1>1, <1>v, <2>2 DEF Visit
<1>2. ASSUME NEW r \in Visitors, Unlimited(r) PROVE RateInv'
  BY <1>2, <1>v, NextBudget DEF Unlimited
<1>3. ASSUME NEW r \in Visitors, Consume(r) PROVE RateInv'
  BY <1>3, ConsumeStep
<1>4. ASSUME NEW r \in Visitors, Refuse(r) PROVE RateInv'
  BY <1>4, RefuseStep
<1>5. ASSUME ClockTicks PROVE RateInv'
  <2>1. /\ clock' = clock + 1 /\ windowLog' = windowLog /\ granted' = granted
        /\ promise' = promise /\ visiting' = visiting
    BY <1>5 DEF ClockTicks
  <2>2. ASSUME NEW b \in Budgets
        PROVE  BudgetOK(windowLog[b], granted[b], promise[b], Limit(b), clock + 1)
    <3> DEFINE all == granted[b]
               log == windowLog[b]
    <3>1. /\ all \in Seq(Nat) /\ log \in Seq(Nat) /\ clock \in Nat /\ Window \in Nat
          /\ Recorded(log, all, clock)
          /\ BudgetOK(log, all, promise[b], Limit(b), clock)
      BY RateLimitAssumption DEF RateInv, RateTypeOK, BudgetOK
    <3> HIDE DEF all, log
    <3>2. Len(all) \in Nat /\ Len(log) \in Nat /\ \A i \in 1..Len(all) : all[i] \in Nat
      BY <3>1
    <3>3. \A i \in 1..(Len(all) - Len(log)) : i \in 1..Len(all)
      BY <3>2
    <3>a. \A i \in 1..Len(all) : all[i] <= clock
      BY <3>1 DEF Recorded
    <3>b. \A i \in 1..(Len(all) - Len(log)) : all[i] <= clock - Window
      BY <3>1 DEF Recorded
    <3>c. \A i \in 1..Len(all) : all[i] <= clock + 1
      <4>1. ASSUME NEW i \in 1..Len(all) PROVE all[i] <= clock + 1
        <5>1. all[i] \in Nat /\ all[i] <= clock
          BY <3>2, <3>a
        <5>2. QED
          BY <5>1, <3>1
      <4>2. QED
        BY <4>1
    <3>d. \A i \in 1..(Len(all) - Len(log)) : all[i] <= (clock + 1) - Window
      <4>1. ASSUME NEW i \in 1..(Len(all) - Len(log)) PROVE all[i] <= (clock + 1) - Window
        <5>1. all[i] \in Nat /\ all[i] <= clock - Window
          BY <3>2, <3>3, <3>b
        <5>2. QED
          BY <5>1, <3>1
      <4>2. QED
        BY <4>1
    <3>4. Recorded(log, all, clock + 1)
      BY <3>1, <3>c, <3>d DEF Recorded
    <3>5. QED
      BY <3>1, <3>4 DEF BudgetOK, all, log
  <2>3. RateTypeOK'
    BY <2>1 DEF RateInv, RateTypeOK
  <2>4. QED
    BY <2>1, <2>2, <2>3 DEF RateInv, Limit, Budgets
<1>6. CASE UNCHANGED rateLimitVars
  BY <1>6 DEF rateLimitVars, RateInv, RateTypeOK, Limit, Budgets
<1>7. QED
  BY <1>1, <1>2, <1>3, <1>4, <1>5, <1>6 DEF RateLimitNext

\* Nothing is spent at first.
LEMMA RateInit == RateLimitInit => RateInv
<1> SUFFICES ASSUME RateLimitInit PROVE RateInv
  OBVIOUS
<1>1. << >> \in Seq(Nat) /\ << >> \in Seq(Budgets) /\ Len(<< >>) = 0
  BY EmptySeq
<1>2. RateTypeOK
  BY <1>1 DEF RateLimitInit, RateTypeOK
<1>3. ASSUME NEW b \in Budgets, NEW none, Len(none) = 0
      PROVE  BudgetOK(none, none, -1, Limit(b), clock)
  <2>1. Limit(b) \in Nat
    BY BudgetsLimited
  <2> DEFINE n == Limit(b)
  <2>2. n \in Nat /\ 1..Len(none) = {} /\ 1..(Len(none) - Len(none)) = {} /\ 1..(Len(none) - n) = {}
    BY <2>1, <1>3
  <2> HIDE DEF n
  <2>3. QED
    BY <2>2, <1>3 DEF BudgetOK, Recorded, Ascends, Spaced, Told, n
<1>4. \A b \in Budgets : windowLog[b] = << >> /\ granted[b] = << >> /\ promise[b] = -1
  BY DEF RateLimitInit
<1>5. \A b \in Budgets : BudgetOK(windowLog[b], granted[b], promise[b], Limit(b), clock)
  BY <1>1, <1>3, <1>4
<1>6. QED
  BY <1>2, <1>5 DEF RateInv

\* The log of a budget is the slots it granted that are inside the window, and never more of them
\* than its limit.
THEOREM LogsKept == RateLimitSpec => []RateInv
BY RateInit, RateStep, PTL DEF RateLimitSpec

\* No window of Window ticks, wherever it starts, grants a budget more than Limit slots.
THEOREM NoBurst == RateLimitSpec => []WindowHolds
<1>1. RateInv => WindowHolds
  BY DEF RateInv, BudgetOK, Spaced, WindowHolds
<1>2. QED
  BY <1>1, LogsKept, PTL

\* Whoever comes back when a refusal said to is not refused, unless a slot was granted since.
THEOREM RefusalsTruthful == RateLimitSpec => RetryTruthful
<1> DEFINE Turned(r) == /\ visiting[r] # << >> /\ visiting'[r] = << >> /\ granted' = granted
                        /\ Limit(Head(visiting[r])) > 0
           Fair(r) == LET b == Head(visiting[r]) IN promise[b] = -1 \/ clock < promise[b]
<1>1. ASSUME RateInv, [RateLimitNext]_rateLimitVars, NEW r \in Visitors, Turned(r) PROVE Fair(r)
  <2>1. Refuse(r)
    <3>0. visiting \in [Visitors -> Seq(Budgets)] /\ granted \in [Budgets -> Seq(Nat)] /\ clock \in Nat
      BY <1>1 DEF RateInv, RateTypeOK
    <3>1. ASSUME NEW q \in Visitors, q # r,
                 (\E v \in Visits : Visit(q, v)) \/ Unlimited(q) \/ Consume(q) \/ Refuse(q)
          PROVE  FALSE
      <4>1. visiting'[r] = visiting[r]
        BY <3>0, <3>1 DEF Visit, Unlimited, Consume, Refuse
      <4>2. QED
        BY <4>1, <1>1
    <3>2. ~(\E v \in Visits : Visit(r, v))
      BY <1>1 DEF Visit
    <3>3. ~Unlimited(r)
      BY <1>1 DEF Unlimited
    <3>4. ~Consume(r)
      <4>1. ASSUME Consume(r) PROVE FALSE
        <5> DEFINE b == Head(visiting[r])
                   now == clock
        <5>1. b \in Budgets
          BY <1>1, NextBudget
        <5> HIDE DEF b
        <5>2. granted' = [granted EXCEPT ![b] = Append(@, now)]
          BY <4>1 DEF Consume, b
        <5>3. granted[b] \in Seq(Nat) /\ now \in Nat
          BY <3>0, <5>1
        <5>4. Len(Append(granted[b], now)) = Len(granted[b]) + 1 /\ Len(granted[b]) \in Nat
          BY <5>3, AppendProperties
        <5>5. granted'[b] = Append(granted[b], now)
          BY <3>0, <5>1, <5>2
        <5>6. QED
          BY <5>4, <5>5, <1>1
      <4>2. QED
        BY <4>1
    <3>5. ~ClockTicks /\ ~UNCHANGED rateLimitVars
      BY <1>1 DEF ClockTicks, rateLimitVars
    <3>6. QED
      BY <1>1, <3>1, <3>2, <3>3, <3>4, <3>5 DEF RateLimitNext
  <2> DEFINE b    == Head(visiting[r])
             log  == windowLog[b]
             hits == InWindow(log)
  <2>2. b \in Budgets /\ Len(hits) >= Limit(b)
    BY <1>1, <2>1, NextBudget DEF Refuse
  <2> HIDE DEF b
  <2>3. /\ log \in Seq(Nat) /\ granted[b] \in Seq(Nat) /\ clock \in Nat /\ promise[b] \in Int
        /\ Recorded(log, granted[b], clock) /\ Len(log) <= Limit(b) /\ Told(log, promise[b])
        /\ Limit(b) \in Nat /\ Window \in Nat
    BY <1>1, <2>2, BudgetsLimited, RateLimitAssumption DEF RateInv, RateTypeOK, BudgetOK
  <2>4. /\ hits \in Seq(Nat)
        /\ log # << >> /\ log[1] <= clock - Window => Len(hits) < Len(log)
    BY <2>3, Trimmed
  <2> HIDE DEF hits, log
  <2>5. Len(hits) \in Nat /\ Len(log) \in Nat
    BY <2>3, <2>4
  <2>6. ~(log # << >> /\ log[1] <= clock - Window)
    BY <2>2, <2>3, <2>4, <2>5
  <2>7. ASSUME promise[b] # -1 PROVE clock < promise[b]
    <3>1. log # << >> /\ promise[b] >= log[1] + Window
      BY <2>3, <2>7 DEF Told
    <3>2. log[1] \in Nat
      BY <2>3, <3>1
    <3>3. ~(log[1] <= clock - Window)
      BY <2>6, <3>1
    <3>4. QED
      BY <2>3, <3>1, <3>2, <3>3
  <2>8. QED
    BY <2>7 DEF b
<1>2. RateInv /\ [RateLimitNext]_rateLimitVars
        => [ \A r \in Visitors :
               visiting[r] # << >> /\ visiting'[r] = << >> /\ granted' = granted
                 /\ Limit(Head(visiting[r])) > 0
                 => LET b == Head(visiting[r]) IN promise[b] = -1 \/ clock < promise[b] ]_rateLimitVars
  BY <1>1
<1>3. QED
  BY <1>2, LogsKept, PTL DEF RateLimitSpec, RetryTruthful

------------------------------------------------------------------------------
(* AUDIENCE: the types, and what is true at each stage of an edit.         *)

Everything == Channels \X Tags
EditSteps  == {"idle", "subscribe", "sync subscribe", "unsubscribe", "sync unsubscribe",
               "change languages", "languages", "sync languages", "delete", "purge", "rebuild",
               "count"}
EditType   == [at : EditSteps, channels : SUBSET Channels, languages : SUBSET Languages,
               joined : SUBSET Everything, left : SUBSET Everything]
ReaderType == [exists : BOOLEAN, channels : SUBSET Channels, languages : SUBSET Languages]

AudienceTypeOK ==
  /\ reader \in ReaderType /\ members \subseteq Everything /\ subsTotal \in Int
  /\ edit \in [Editors -> EditType]
  /\ accidents \in Nat /\ mirror \in {"true", "lost", "skewed"} /\ miscounted \in BOOLEAN
  /\ \A e \in Editors : ~EditAt(e, "count") => edit[e].joined = {} /\ edit[e].left = {}

\* The sets hold nothing the rows do not; all of it, unless Redis lost its data.
Follows == members \subseteq Wanted /\ (mirror = "true" => Wanted \subseteq members)

\* Before an edit's commit the sets follow the rows that it read.  Between the commit and its
\* MULTI they follow them up to what that MULTI will change.
StageSound(e) ==
  /\ EditAt(e, "count") => Follows
  /\ edit[e].at \in {"subscribe", "unsubscribe", "change languages", "delete", "rebuild"} =>
       Follows /\ reader.exists
  /\ EditAt(e, "subscribe") => edit[e].languages = reader.languages
  /\ EditAt(e, "delete") => edit[e].channels = reader.channels
  /\ EditAt(e, "rebuild") =>
       edit[e].channels = reader.channels /\ edit[e].languages = reader.languages
  /\ EditAt(e, "sync subscribe") =>
       /\ reader.exists /\ edit[e].languages = reader.languages
       /\ edit[e].channels \subseteq reader.channels
       /\ members \subseteq Wanted
       /\ mirror = "true" =>
            Wanted \subseteq members \cup Memberships(edit[e].channels, edit[e].languages)
  /\ EditAt(e, "sync unsubscribe") =>
       /\ reader.exists /\ edit[e].channels \cap reader.channels = {}
       /\ members \subseteq Wanted \cup Memberships(edit[e].channels, Languages)
       /\ mirror = "true" => Wanted \subseteq members
  /\ edit[e].at \in {"languages", "sync languages"} =>
       /\ reader.exists /\ edit[e].languages = reader.languages
       /\ members \subseteq Memberships(reader.channels, Languages)
       /\ mirror = "true" => reader.channels \X {Plain} \subseteq members
  /\ EditAt(e, "sync languages") => edit[e].channels = reader.channels
  /\ EditAt(e, "purge") => ~reader.exists /\ members \subseteq Memberships(edit[e].channels, Languages)

MirrorInv == mirror # "skewed" =>
  /\ \A e, f \in OpenEdits : e = f
  /\ OpenEdits = {} => Follows
  /\ \A e \in OpenEdits : StageSound(e)

\* An edit that changes nothing has nothing to count.
NothingToCount(q) == q.at # "count" => q.joined = {} /\ q.left = {}
EditBecomes(e, q) == edit' = [edit EXCEPT ![e] = q] /\ q \in EditType /\ NothingToCount(q)

\* What becomes of the array of edits.
LEMMA EditsAfter ==
  ASSUME AudienceTypeOK, NEW e \in Editors, NEW q, EditBecomes(e, q)
  PROVE  /\ edit' \in [Editors -> EditType] /\ edit'[e] = q
         /\ \A f \in Editors : f # e => edit'[f] = edit[f]
         /\ \A f \in Editors : ~EditAt(f, "count")' => edit'[f].joined = {} /\ edit'[f].left = {}
<1>1. edit \in [Editors -> EditType]
  BY DEF AudienceTypeOK
<1>2. edit' = [edit EXCEPT ![e] = q] /\ q \in EditType
  BY DEF EditBecomes
<1>3. edit' \in [Editors -> EditType] /\ edit'[e] = q
  BY <1>1, <1>2
<1>4. \A f \in Editors : f # e => edit'[f] = edit[f]
  BY <1>1, <1>2
<1>5. ASSUME NEW f \in Editors, ~EditAt(f, "count")' PROVE edit'[f].joined = {} /\ edit'[f].left = {}
  BY <1>3, <1>4, <1>5 DEF EditBecomes, NothingToCount, AudienceTypeOK, EditAt
<1>6. QED
  BY <1>3, <1>4, <1>5

\* No edit is one, with nothing to count.
LEMMA NoEditType == NoEdit \in EditType /\ NoEdit.at = "idle" /\ NoEdit.joined = {} /\ NoEdit.left = {}
<1>1. NoEdit.at = "idle" /\ NoEdit.joined = {} /\ NoEdit.left = {}
  BY DEF NoEdit
<1>2. {} \in SUBSET Channels /\ {} \in SUBSET Languages /\ {} \in SUBSET Everything
  OBVIOUS
<1>3. "idle" \in EditSteps
  BY DEF EditSteps
<1>4. QED
  BY <1>1, <1>2, <1>3 DEF NoEdit, EditType

\* An editor that is done, or has not begun.
LEMMA RetireBecomes ==
  ASSUME NEW e \in Editors, Retire(e)
  PROVE  EditBecomes(e, NoEdit) /\ NoEdit.at = "idle"
BY NoEditType DEF EditBecomes, NothingToCount, Retire

\* An edit that starts.
LEMMA StartBecomes ==
  ASSUME NEW e \in Editors, NEW at \in EditSteps,
         NEW channels \in SUBSET Channels, NEW languages \in SUBSET Languages,
         StartEdit(e, at, channels, languages)
  PROVE  \E q : /\ EditBecomes(e, q) /\ q.at = at
                /\ q.channels = channels /\ q.languages = languages
<1> DEFINE q == [NoEdit EXCEPT !.at = at, !.channels = channels, !.languages = languages]
<1>1. NoEdit \in EditType /\ NoEdit.joined = {} /\ NoEdit.left = {}
  BY NoEditType
<1>2. q \in EditType /\ q.at = at /\ q.channels = channels /\ q.languages = languages
  BY <1>1 DEF EditType
<1>3. q.joined = {} /\ q.left = {}
  BY <1>1 DEF EditType
<1>4. edit' = [edit EXCEPT ![e] = q]
  BY DEF StartEdit
<1> HIDE DEF q
<1>5. QED
  BY <1>2, <1>3, <1>4 DEF EditBecomes, NothingToCount

\* An edit that goes on, with its count still to come.
LEMMA GoesOn ==
  ASSUME AudienceTypeOK, NEW e \in Editors, ~EditAt(e, "count"), NEW at \in EditSteps,
         edit' = [edit EXCEPT ![e].at = at]
  PROVE  \E q : /\ EditBecomes(e, q) /\ q.at = at
                /\ q.channels = edit[e].channels /\ q.languages = edit[e].languages
<1> DEFINE q == [edit[e] EXCEPT !.at = at]
<1>1. edit[e] \in EditType /\ edit[e].joined = {} /\ edit[e].left = {}
  BY DEF AudienceTypeOK
<1>2. q \in EditType /\ q.at = at /\ q.joined = {} /\ q.left = {}
  BY <1>1 DEF EditType
<1>3. q.channels = edit[e].channels /\ q.languages = edit[e].languages
  BY <1>1 DEF EditType
<1>4. QED
  BY <1>2, <1>3 DEF EditBecomes, NothingToCount

\* The change of languages reads the channels.
LEMMA LoadsChannels ==
  ASSUME AudienceTypeOK, NEW e \in Editors, LanguagesChannels(e)
  PROVE  \E q : /\ EditBecomes(e, q) /\ q.at = "sync languages"
                /\ q.channels = reader.channels /\ q.languages = edit[e].languages
<1> DEFINE was == edit[e]
           channels == reader.channels
           q == [was EXCEPT !.at = "sync languages", !.channels = channels]
<1>1. was \in EditType /\ was.joined = {} /\ was.left = {} /\ channels \in SUBSET Channels
  BY DEF AudienceTypeOK, ReaderType, LanguagesChannels, EditAt
<1>2. edit' = [edit EXCEPT ![e] = q]
  BY DEF LanguagesChannels
<1> HIDE DEF was, channels
<1>3. q \in EditType /\ q.at = "sync languages" /\ q.joined = {} /\ q.left = {}
  BY <1>1 DEF EditType, EditSteps
<1>4. q.channels = channels /\ q.languages = was.languages
  BY <1>1 DEF EditType
<1>5. QED
  BY <1>2, <1>3, <1>4 DEF EditBecomes, NothingToCount, was, channels

Rewritten(e, q, joined, left) ==
  /\ EditBecomes(e, q) /\ q.at = "count"
  /\ q.joined = joined \ members /\ q.left = left \cap members

\* A MULTI leaves its editor with what it changed.
LEMMA RewriteBecomes ==
  ASSUME AudienceTypeOK, NEW e \in Editors,
         NEW joined \in SUBSET Everything, NEW left \in SUBSET Everything, Rewrite(e, joined, left)
  PROVE  /\ \E q : Rewritten(e, q, joined, left)
         /\ members' = (members \cup joined) \ left /\ members' \subseteq Everything
<1> DEFINE was == edit[e]
           j == joined \ members
           l == left \cap members
           q == [was EXCEPT !.at = "count", !.joined = j, !.left = l]
<1>1. was \in EditType /\ j \in SUBSET Everything /\ l \in SUBSET Everything
  BY DEF AudienceTypeOK
<1>2. edit' = [edit EXCEPT ![e] = q]
  BY DEF Rewrite
<1> HIDE DEF was, j, l
<1>3. q \in EditType /\ q.at = "count" /\ q.joined = j /\ q.left = l
  BY <1>1 DEF EditType, EditSteps
<1>4. members' = (members \cup joined) \ left
  BY DEF Rewrite
<1>5. members' \subseteq Everything
  BY <1>4 DEF AudienceTypeOK
<1>6. EditBecomes(e, q)
  BY <1>2, <1>3 DEF EditBecomes, NothingToCount
<1> HIDE DEF q
<1>7. QED
  BY <1>3, <1>4, <1>5, <1>6 DEF j, l, Rewritten

\* Every MULTI is on memberships there are.
LEMMA MembershipsType ==
  ASSUME NEW channels \in SUBSET Channels, NEW languages \in SUBSET Languages
  PROVE  /\ Memberships(channels, languages) \in SUBSET Everything
         /\ channels \X languages \in SUBSET Everything
         /\ channels \X (Languages \ languages) \in SUBSET Everything
BY DEF Memberships, Everything, Tags

\* The arrays are finite.
LEMMA FiniteAudience ==
  /\ IsFiniteSet(Everything) /\ IsFiniteSet(OpenEdits) /\ Cardinality(OpenEdits) \in Nat
  /\ \A s \in SUBSET Everything : IsFiniteSet(s) /\ Cardinality(s) \in Nat
<1>1. IsFiniteSet(Languages) /\ IsFiniteSet(Channels) /\ IsFiniteSet(Editors)
  BY AudienceAssumption
<1>2. IsFiniteSet(Tags)
  BY <1>1, FS_AddElement DEF Tags
<1>3. IsFiniteSet(Everything)
  BY <1>1, <1>2, FS_Product DEF Everything
<1>4. OpenEdits \in SUBSET Editors
  BY DEF OpenEdits
<1>5. IsFiniteSet(OpenEdits)
  BY <1>1, <1>4, FS_Subset
<1>6. \A s \in SUBSET Everything : IsFiniteSet(s)
  BY <1>3, FS_Subset
<1>7. QED
  BY <1>3, <1>5, <1>6, FS_CardinalityType

\* What a step has to keep, beside the edits.
LEMMA AudienceTypeKept ==
  ASSUME AudienceTypeOK, NEW e \in Editors, \E q : EditBecomes(e, q),
         reader' \in ReaderType, members' \subseteq Everything, subsTotal' \in Int,
         accidents' \in Nat, mirror' \in {"true", "lost", "skewed"}, miscounted' \in BOOLEAN
  PROVE  AudienceTypeOK'
<1>1. PICK q : EditBecomes(e, q)
  OBVIOUS
<1>2. QED
  BY <1>1, EditsAfter DEF AudienceTypeOK

\* Starting an edit.
LEMMA StartType ==
  ASSUME AudienceTypeOK, NEW e \in Editors, NEW at \in EditSteps,
         NEW channels \in SUBSET Channels, NEW languages \in SUBSET Languages,
         StartEdit(e, at, channels, languages), UNCHANGED <<reader, members, subsTotal, miscounted>>
  PROVE  AudienceTypeOK'
<1>1. \E q : EditBecomes(e, q)
  BY StartBecomes
<1>2. accidents' \in Nat
  BY FiniteAudience DEF StartEdit, AudienceTypeOK
<1>3. mirror' \in {"true", "lost", "skewed"}
  BY DEF StartEdit, AudienceTypeOK
<1>4. QED
  BY <1>1, <1>2, <1>3, AudienceTypeKept DEF AudienceTypeOK

\* A MULTI.
LEMMA RewriteType ==
  ASSUME AudienceTypeOK, NEW e \in Editors,
         NEW joined \in SUBSET Everything, NEW left \in SUBSET Everything, Rewrite(e, joined, left)
  PROVE  AudienceTypeOK'
<1>1. (\E q : EditBecomes(e, q)) /\ members' \subseteq Everything
  BY RewriteBecomes DEF Rewritten
<1>2. UNCHANGED <<reader, subsTotal, accidents, mirror, miscounted>>
  BY DEF Rewrite
<1>3. QED
  BY <1>1, <1>2, AudienceTypeKept DEF AudienceTypeOK

\* Each action keeps the types.
LEMMA AudienceTypeStep == AudienceTypeOK /\ [AudienceNext]_audienceVars => AudienceTypeOK'
<1> SUFFICES ASSUME AudienceTypeOK, [AudienceNext]_audienceVars PROVE AudienceTypeOK'
  OBVIOUS
<1>t. /\ reader \in ReaderType /\ members \subseteq Everything /\ subsTotal \in Int
      /\ edit \in [Editors -> EditType] /\ (\A e \in Editors : edit[e] \in EditType)
      /\ accidents \in Nat /\ mirror \in {"true", "lost", "skewed"} /\ miscounted \in BOOLEAN
      /\ reader.channels \in SUBSET Channels /\ reader.languages \in SUBSET Languages
  BY DEF AudienceTypeOK, ReaderType
<1>e. ASSUME NEW e \in Editors
      PROVE  edit[e].channels \in SUBSET Channels /\ edit[e].languages \in SUBSET Languages
  BY <1>t DEF EditType
<1>s. /\ "subscribe" \in EditSteps /\ "sync subscribe" \in EditSteps /\ "unsubscribe" \in EditSteps
      /\ "sync unsubscribe" \in EditSteps /\ "change languages" \in EditSteps
      /\ "languages" \in EditSteps /\ "delete" \in EditSteps /\ "purge" \in EditSteps
      /\ "rebuild" \in EditSteps
  BY DEF EditSteps
<1>k. ASSUME NEW e \in Editors, (\E q : EditBecomes(e, q)), reader' \in ReaderType,
             UNCHANGED <<members, subsTotal, accidents, mirror, miscounted>>
      PROVE  AudienceTypeOK'
  BY <1>k, <1>t, AudienceTypeKept
<1>g. ASSUME NEW e \in Editors, NEW at \in EditSteps, ~EditAt(e, "count"),
             edit' = [edit EXCEPT ![e].at = at]
      PROVE  \E q : EditBecomes(e, q)
  BY <1>g, GoesOn
<1>r. ASSUME NEW e \in Editors, Retire(e) PROVE \E q : EditBecomes(e, q)
  BY <1>r, RetireBecomes
<1>1. ASSUME NEW e \in Editors, NEW ch \in Channels, SubscribeLoad(e, ch) PROVE AudienceTypeOK'
  <2>1. {ch} \in SUBSET Channels
    OBVIOUS
  <2>2. QED
    BY <1>1, <1>s, <1>t, <2>1, StartType DEF SubscribeLoad
<1>2. ASSUME NEW e \in Editors, NEW ch \in Channels, UnsubscribeLoad(e, ch) PROVE AudienceTypeOK'
  <2>1. {ch} \in SUBSET Channels /\ {} \in SUBSET Languages
    OBVIOUS
  <2>2. QED
    BY <1>2, <1>s, <2>1, StartType DEF UnsubscribeLoad
<1>3. ASSUME NEW e \in Editors, SubscribeCommit(e) PROVE AudienceTypeOK'
  <2>1. \E q : EditBecomes(e, q)
    BY <1>3, <1>g, <1>r, <1>s DEF SubscribeCommit, EditAt
  <2>2. reader' \in ReaderType
    <3> DEFINE more == reader.channels \cup edit[e].channels
    <3>1. more \in SUBSET Channels
      BY <1>t, <1>e
    <3>2. reader' = IF reader.exists THEN [reader EXCEPT !.channels = more] ELSE reader
      BY <1>3 DEF SubscribeCommit
    <3> HIDE DEF more
    <3>3. QED
      BY <1>t, <3>1, <3>2 DEF ReaderType
  <2>3. QED
    BY <1>3, <1>k, <2>1, <2>2 DEF SubscribeCommit
<1>4. ASSUME NEW e \in Editors, SyncSubscribe(e) PROVE AudienceTypeOK'
  <2> DEFINE joined == Memberships(edit[e].channels, edit[e].languages)
  <2>1. joined \in SUBSET Everything /\ {} \in SUBSET Everything
    BY <1>e, MembershipsType
  <2>2. Rewrite(e, joined, {})
    BY <1>4 DEF SyncSubscribe
  <2> HIDE DEF joined
  <2>3. QED
    BY <2>1, <2>2, RewriteType
<1>5. ASSUME NEW e \in Editors, UnsubscribeCommit(e) PROVE AudienceTypeOK'
  <2>1. \E q : EditBecomes(e, q)
    BY <1>5, <1>g, <1>s DEF UnsubscribeCommit, EditAt
  <2>2. reader' \in ReaderType
    <3> DEFINE less == reader.channels \ edit[e].channels
    <3>1. less \in SUBSET Channels
      BY <1>t
    <3>2. reader' = [reader EXCEPT !.channels = less]
      BY <1>5 DEF UnsubscribeCommit
    <3> HIDE DEF less
    <3>3. QED
      BY <1>t, <3>1, <3>2 DEF ReaderType
  <2>3. QED
    BY <1>5, <1>k, <2>1, <2>2 DEF UnsubscribeCommit
<1>6. ASSUME NEW e \in Editors, SyncUnsubscribe(e) PROVE AudienceTypeOK'
  <2>1. Languages \in SUBSET Languages
    OBVIOUS
  <2>2. QED
    BY <1>6, <1>e, <2>1, MembershipsType, RewriteType DEF SyncUnsubscribe
<1>7. ASSUME NEW e \in Editors, NEW languages \in (SUBSET Languages) \ {{}}, LanguagesLoad(e, languages)
      PROVE  AudienceTypeOK'
  <2> DEFINE at == IF languages = reader.languages THEN "languages" ELSE "change languages"
  <2>1. at \in EditSteps /\ {} \in SUBSET Channels /\ languages \in SUBSET Languages
    BY <1>s
  <2>2. StartEdit(e, at, {}, languages) /\ UNCHANGED <<reader, members, subsTotal, miscounted>>
    BY <1>7 DEF LanguagesLoad
  <2> HIDE DEF at
  <2>3. QED
    BY <2>1, <2>2, StartType
<1>8. ASSUME NEW e \in Editors, LanguagesCommit(e) PROVE AudienceTypeOK'
  <2>1. \E q : EditBecomes(e, q)
    BY <1>8, <1>g, <1>r, <1>s DEF LanguagesCommit, EditAt
  <2>2. reader' \in ReaderType
    <3> DEFINE now == edit[e].languages
    <3>1. now \in SUBSET Languages
      BY <1>e
    <3>2. reader' = IF reader.exists THEN [reader EXCEPT !.languages = now] ELSE reader
      BY <1>8 DEF LanguagesCommit
    <3> HIDE DEF now
    <3>3. QED
      BY <1>t, <3>1, <3>2 DEF ReaderType
  <2>3. QED
    BY <1>8, <1>k, <2>1, <2>2 DEF LanguagesCommit
<1>9. ASSUME NEW e \in Editors, LanguagesChannels(e) PROVE AudienceTypeOK'
  <2>1. \E q : EditBecomes(e, q)
    BY <1>9, LoadsChannels
  <2>2. QED
    BY <1>9, <1>k, <1>t, <2>1 DEF LanguagesChannels
<1>10. ASSUME NEW e \in Editors, SyncContentLanguages(e) PROVE AudienceTypeOK'
  <2> DEFINE joined == edit[e].channels \X edit[e].languages
             left == edit[e].channels \X (Languages \ edit[e].languages)
  <2>1. joined \in SUBSET Everything /\ left \in SUBSET Everything
    BY <1>e, MembershipsType
  <2>2. Rewrite(e, joined, left)
    BY <1>10 DEF SyncContentLanguages
  <2> HIDE DEF joined, left
  <2>3. QED
    BY <2>1, <2>2, RewriteType
<1>11. ASSUME NEW e \in Editors, DeletionReads(e) PROVE AudienceTypeOK'
  <2>1. {} \in SUBSET Languages
    OBVIOUS
  <2>2. QED
    BY <1>11, <1>s, <1>t, <2>1, StartType DEF DeletionReads
<1>12. ASSUME NEW e \in Editors, DeletionCommit(e) PROVE AudienceTypeOK'
  <2>1. \E q : EditBecomes(e, q)
    BY <1>12, <1>g, <1>r, <1>s DEF DeletionCommit, EditAt
  <2>2. reader' \in ReaderType
    <3>1. {} \in SUBSET Channels /\ {} \in SUBSET Languages
      OBVIOUS
    <3>2. QED
      BY <1>12, <3>1 DEF DeletionCommit, ReaderType
  <2>3. QED
    BY <1>12, <1>k, <2>1, <2>2 DEF DeletionCommit
<1>13. ASSUME NEW e \in Editors, PurgeUser(e) PROVE AudienceTypeOK'
  <2>1. Languages \in SUBSET Languages
    OBVIOUS
  <2>2. QED
    BY <1>13, <1>e, <2>1, MembershipsType, RewriteType DEF PurgeUser
<1>14. ASSUME NEW e \in Editors, CountChanged(e) PROVE AudienceTypeOK'
  <2>1. \E q : EditBecomes(e, q)
    BY <1>14, <1>r DEF CountChanged
  <2>2. subsTotal' \in Int
    <3>1. Cardinality(edit[e].joined) \in Nat /\ Cardinality(edit[e].left) \in Nat
      BY <1>t, FiniteAudience DEF EditType
    <3>2. QED
      BY <1>14, <1>t, <3>1 DEF CountChanged
  <2>3. QED
    BY <1>14, <1>t, <2>1, <2>2, AudienceTypeKept DEF CountChanged
<1>15. ASSUME NEW e \in Editors, RebuildReads(e) PROVE AudienceTypeOK'
  BY <1>15, <1>s, <1>t, StartType DEF RebuildReads
<1>16. ASSUME NEW e \in Editors, RebuildAdds(e) PROVE AudienceTypeOK'
  <2>1. members' \subseteq Everything
    <3> DEFINE rows == Memberships(edit[e].channels, edit[e].languages)
    <3>1. rows \in SUBSET Everything
      BY <1>e, MembershipsType
    <3>2. \E m \in rows : members' = members \cup {m}
      BY <1>16 DEF RebuildAdds
    <3> HIDE DEF rows
    <3>3. QED
      BY <1>t, <3>1, <3>2
  <2>2. UNCHANGED <<reader, subsTotal, edit, accidents, mirror, miscounted>>
    BY <1>16 DEF RebuildAdds
  <2>3. QED
    BY <2>1, <2>2 DEF AudienceTypeOK, EditAt
<1>17. ASSUME NEW e \in Editors, RebuildTotals(e) PROVE AudienceTypeOK'
  <2> DEFINE rows == Memberships(edit[e].channels, edit[e].languages)
  <2>1. Cardinality(rows) \in Nat
    BY <1>e, MembershipsType, FiniteAudience
  <2>2. /\ subsTotal' = Cardinality(rows) /\ miscounted' = (rows # members \/ OpenEdits # {e})
        /\ mirror' = (IF mirror = "lost" THEN "true" ELSE mirror)
        /\ Retire(e) /\ UNCHANGED <<reader, members, accidents>>
    BY <1>17 DEF RebuildTotals
  <2> HIDE DEF rows
  <2>3. subsTotal' \in Int /\ miscounted' \in BOOLEAN
    BY <2>1, <2>2
  <2>4. mirror' \in {"true", "lost", "skewed"}
    BY <1>t, <2>2
  <2>5. QED
    BY <1>t, <1>r, <2>2, <2>3, <2>4, AudienceTypeKept
<1>18. ASSUME NEW e \in Editors, EditorDies(e) PROVE AudienceTypeOK'
  <2>1. \E q : EditBecomes(e, q)
    BY <1>18, <1>r DEF EditorDies
  <2>2. mirror' \in {"true", "lost", "skewed"}
    BY <1>18, <1>t DEF EditorDies
  <2>3. miscounted' \in BOOLEAN
    BY <1>18, <1>t, Zenon DEF EditorDies
  <2>4. accidents' \in Nat
    <3>1. accidents' = accidents + 1
      BY <1>18 DEF EditorDies
    <3>2. QED
      BY <1>t, <3>1
  <2>5. QED
    BY <1>18, <1>t, <2>1, <2>2, <2>3, <2>4, AudienceTypeKept DEF EditorDies
<1>19. ASSUME RedisLoss PROVE AudienceTypeOK'
  <2>1. mirror' \in {"true", "lost", "skewed"}
    BY <1>19 DEF RedisLoss
  <2>2. miscounted' \in BOOLEAN
    BY <1>19, Zenon DEF RedisLoss
  <2>3. accidents' \in Nat /\ subsTotal' \in Int
    BY <1>19, <1>t DEF RedisLoss
  <2>4. members' \subseteq Everything /\ UNCHANGED <<reader, edit>>
    BY <1>19 DEF RedisLoss
  <2>5. QED
    BY <2>1, <2>2, <2>3, <2>4 DEF AudienceTypeOK, EditAt
<1>20. CASE UNCHANGED audienceVars
  BY <1>20 DEF audienceVars, AudienceTypeOK, EditAt
<1>21. QED
  BY <1>1, <1>2, <1>3, <1>4, <1>5, <1>6, <1>7, <1>8, <1>9, <1>10, <1>11, <1>12, <1>13, <1>14,
     <1>15, <1>16, <1>17, <1>18, <1>19, <1>20 DEF AudienceNext

\* Nobody is subscribed at first.
LEMMA AudienceTypeInit == AudienceInit => AudienceTypeOK
<1> SUFFICES ASSUME AudienceInit PROVE AudienceTypeOK
  OBVIOUS
<1>1. reader \in ReaderType
  <2>1. PICK languages \in (SUBSET Languages) \ {{}} :
           reader = [exists |-> TRUE, channels |-> {}, languages |-> languages]
    BY DEF AudienceInit
  <2>2. {} \in SUBSET Channels /\ languages \in SUBSET Languages
    OBVIOUS
  <2>3. QED
    BY <2>1, <2>2 DEF ReaderType
<1>2. edit = [e \in Editors |-> NoEdit]
  BY DEF AudienceInit
<1>3. edit \in [Editors -> EditType] /\ \A e \in Editors : edit[e].joined = {} /\ edit[e].left = {}
  BY <1>2, NoEditType
<1>4. members \subseteq Everything /\ subsTotal \in Int /\ accidents \in Nat
  BY DEF AudienceInit
<1>5. mirror \in {"true", "lost", "skewed"} /\ miscounted \in BOOLEAN
  BY DEF AudienceInit
<1>6. QED
  BY <1>1, <1>3, <1>4, <1>5 DEF AudienceTypeOK

------------------------------------------------------------------------------
(* AUDIENCE: the mirror.                                                   *)

\* Products by their parts, for the sets of memberships.
LEMMA InMemberships ==
  ASSUME NEW channels, NEW languages, NEW m
  PROVE  /\ m \in Memberships(channels, languages) <=>
              m = <<m[1], m[2]>> /\ m[1] \in channels /\ (m[2] \in languages \/ m[2] = Plain)
         /\ m \in channels \X languages <=> m = <<m[1], m[2]>> /\ m[1] \in channels /\ m[2] \in languages
BY DEF Memberships

\* An edit on its own: whatever step it takes, it is the only one.
LEMMA MirrorKept ==
  ASSUME AudienceTypeOK, NEW e \in Editors, NEW q, EditBecomes(e, q),
         mirror' # "skewed" => /\ OpenEdits \subseteq {e}
                               /\ IF q.at = "idle" THEN Follows' ELSE StageSound(e)'
  PROVE  MirrorInv'
<1> SUFFICES ASSUME mirror' # "skewed"
             PROVE  /\ \A f, g \in OpenEdits' : f = g
                    /\ OpenEdits' = {} => Follows'
                    /\ \A f \in OpenEdits' : StageSound(f)'
  BY DEF MirrorInv
<1>1. edit'[e] = q /\ \A f \in Editors : f # e => edit'[f] = edit[f]
  BY EditsAfter
<1>2. OpenEdits' \subseteq {e} /\ (e \in OpenEdits' <=> q.at # "idle")
  BY <1>1 DEF OpenEdits, EditAt
<1>3. QED
  BY <1>2

\* What an edit reads as it starts.
Opens(at, channels, languages) ==
  /\ at \in {"subscribe", "unsubscribe", "change languages", "languages", "delete", "rebuild"}
  /\ at \in {"subscribe", "languages", "rebuild"} => languages = reader.languages
  /\ at \in {"delete", "rebuild"} => channels = reader.channels

\* A step that starts an edit.
LEMMA MirrorStarts ==
  ASSUME AudienceTypeOK, MirrorInv, NEW e \in Editors, NEW at \in EditSteps,
         NEW channels \in SUBSET Channels, NEW languages \in SUBSET Languages,
         StartEdit(e, at, channels, languages), UNCHANGED <<reader, members>>,
         Opens(at, channels, languages)
  PROVE  MirrorInv'
<1>1. PICK q : /\ EditBecomes(e, q) /\ q.at = at
               /\ q.channels = channels /\ q.languages = languages
  BY StartBecomes
<1>2. edit'[e] = q
  BY <1>1, EditsAfter
<1>3. ASSUME mirror' # "skewed" PROVE OpenEdits = {} /\ StageSound(e)'
  <2>1. OpenEdits = {} /\ mirror' = mirror /\ reader.exists
    BY <1>3 DEF StartEdit
  <2>2. Follows /\ Follows'
    BY <1>3, <2>1 DEF MirrorInv, Follows, Wanted
  <2>3. members \subseteq Memberships(reader.channels, Languages)
    <3>1. reader.languages \subseteq Languages
      BY DEF AudienceTypeOK, ReaderType
    <3>2. members \subseteq Memberships(reader.channels, reader.languages)
      BY <2>1, <2>2 DEF Follows, Wanted
    <3>3. QED
      BY <3>1, <3>2, InMemberships
  <2>4. mirror = "true" => reader.channels \X {Plain} \subseteq members
    <3>1. ASSUME mirror = "true", NEW m \in reader.channels \X {Plain} PROVE m \in members
      <4>1. m \in Memberships(reader.channels, reader.languages)
        BY DEF Memberships
      <4>2. QED
        BY <4>1, <3>1, <2>1, <2>2 DEF Follows, Wanted
    <3>2. QED
      BY <3>1
  <2>5. QED
    BY <1>1, <1>2, <2>1, <2>2, <2>3, <2>4 DEF StageSound, EditAt, Opens
<1>4. q.at # "idle"
  BY <1>1 DEF Opens
<1>5. QED
  BY <1>1, <1>3, <1>4, MirrorKept

\* A MULTI brings the sets back to what the rows say.
LEMMA MirrorRewritten ==
  ASSUME AudienceTypeOK, MirrorInv, NEW e \in Editors, ~EditAt(e, "idle"),
         NEW joined \in SUBSET Everything, NEW left \in SUBSET Everything, Rewrite(e, joined, left),
         mirror # "skewed" /\ StageSound(e) =>
           /\ (members \cup joined) \ left \subseteq Wanted
           /\ mirror = "true" => Wanted \subseteq (members \cup joined) \ left
  PROVE  MirrorInv'
<1>1. PICK q : EditBecomes(e, q) /\ q.at = "count"
  BY RewriteBecomes DEF Rewritten
<1>2. edit'[e] = q
  BY <1>1, EditsAfter
<1>3. members' = (members \cup joined) \ left /\ UNCHANGED <<reader, mirror>>
  BY DEF Rewrite
<1>4. ASSUME mirror' # "skewed" PROVE OpenEdits \subseteq {e} /\ StageSound(e)'
  <2>1. e \in OpenEdits
    BY DEF OpenEdits
  <2>2. OpenEdits \subseteq {e} /\ StageSound(e)
    BY <1>3, <1>4, <2>1 DEF MirrorInv
  <2>3. Follows'
    BY <1>3, <1>4, <2>2 DEF Follows, Wanted
  <2>4. QED
    BY <1>1, <1>2, <2>2, <2>3 DEF StageSound, EditAt
<1>5. QED
  BY <1>1, <1>4, MirrorKept

\* A commit, or a read, of the only edit: the stage that comes holds.
LEMMA MirrorGoesOn ==
  ASSUME AudienceTypeOK, MirrorInv, NEW e \in Editors, ~EditAt(e, "idle"), ~EditAt(e, "count"),
         mirror' = mirror,
         \E q : /\ EditBecomes(e, q)
                /\ mirror # "skewed" /\ StageSound(e) =>
                     IF q.at = "idle" THEN Follows' ELSE StageSound(e)'
  PROVE  MirrorInv'
<1>1. PICK q : /\ EditBecomes(e, q)
               /\ mirror # "skewed" /\ StageSound(e) =>
                    IF q.at = "idle" THEN Follows' ELSE StageSound(e)'
  OBVIOUS
<1>2. ASSUME mirror' # "skewed" PROVE OpenEdits \subseteq {e} /\ StageSound(e)
  BY <1>2 DEF MirrorInv, OpenEdits
<1>3. QED
  BY <1>1, <1>2, MirrorKept

\* The insert of a subscription.
LEMMA SubscribeMirror ==
  ASSUME AudienceTypeOK, MirrorInv, NEW e \in Editors, SubscribeCommit(e) PROVE MirrorInv'
<1>0. EditAt(e, "subscribe") /\ ~EditAt(e, "idle") /\ ~EditAt(e, "count") /\ UNCHANGED <<members, mirror>>
  BY DEF SubscribeCommit, EditAt
<1>t. reader \in ReaderType /\ edit[e] \in EditType
  BY DEF AudienceTypeOK
<1>1. CASE ~reader.exists
  <2>1. EditBecomes(e, NoEdit) /\ NoEdit.at = "idle" /\ reader' = reader
    BY <1>1, RetireBecomes DEF SubscribeCommit
  <2>2. StageSound(e) => Follows'
    BY <1>0, <2>1 DEF StageSound, EditAt, Follows, Wanted
  <2>3. QED
    BY <1>0, <2>1, <2>2, MirrorGoesOn
<1>2. CASE reader.exists
  <2>1. "sync subscribe" \in EditSteps /\ edit' = [edit EXCEPT ![e].at = "sync subscribe"]
    BY <1>2 DEF SubscribeCommit, EditSteps
  <2>2. PICK q : /\ EditBecomes(e, q) /\ q.at = "sync subscribe"
                 /\ q.channels = edit[e].channels /\ q.languages = edit[e].languages
    BY <1>0, <2>1, GoesOn
  <2>3. edit'[e] = q
    BY <2>2, EditsAfter
  <2>4. /\ reader'.exists /\ reader'.languages = reader.languages
        /\ reader'.channels = reader.channels \cup edit[e].channels
    BY <1>2, <1>t DEF SubscribeCommit, ReaderType
  <2>5. ASSUME mirror # "skewed", StageSound(e) PROVE StageSound(e)'
    <3>1. /\ members \subseteq Memberships(reader.channels, reader.languages)
          /\ mirror = "true" => Memberships(reader.channels, reader.languages) \subseteq members
          /\ edit[e].languages = reader.languages
      BY <1>0, <1>2, <2>5 DEF StageSound, Follows, Wanted, EditAt
    <3>2. /\ Memberships(reader.channels, reader.languages) \subseteq Wanted'
          /\ Wanted' = Memberships(reader.channels, reader.languages)
                         \cup Memberships(edit[e].channels, reader.languages)
      BY <2>4 DEF Wanted, Memberships
    <3>3. /\ members \subseteq Wanted'
          /\ mirror = "true" => Wanted' \subseteq members \cup Memberships(q.channels, q.languages)
          /\ q.channels \subseteq reader'.channels
      BY <2>2, <2>4, <3>1, <3>2
    <3>4. QED
      BY <1>0, <2>2, <2>3, <2>4, <3>1, <3>3 DEF StageSound, EditAt
  <2>6. q.at # "idle"
    BY <2>2
  <2>7. QED
    BY <1>0, <2>2, <2>5, <2>6, MirrorGoesOn
<1>3. QED
  BY <1>1, <1>2

\* Its delete.
LEMMA UnsubscribeMirror ==
  ASSUME AudienceTypeOK, MirrorInv, NEW e \in Editors, UnsubscribeCommit(e) PROVE MirrorInv'
<1>0. EditAt(e, "unsubscribe") /\ ~EditAt(e, "idle") /\ ~EditAt(e, "count") /\ UNCHANGED <<members, mirror>>
  BY DEF UnsubscribeCommit, EditAt
<1>t. reader \in ReaderType /\ edit[e] \in EditType
  BY DEF AudienceTypeOK
<1>1. "sync unsubscribe" \in EditSteps /\ edit' = [edit EXCEPT ![e].at = "sync unsubscribe"]
  BY DEF UnsubscribeCommit, EditSteps
<1>2. PICK q : /\ EditBecomes(e, q) /\ q.at = "sync unsubscribe"
               /\ q.channels = edit[e].channels /\ q.languages = edit[e].languages
  BY <1>0, <1>1, GoesOn
<1>3. edit'[e] = q
  BY <1>2, EditsAfter
<1>4. /\ reader'.exists = reader.exists /\ reader'.languages = reader.languages
      /\ reader'.channels = reader.channels \ edit[e].channels
  BY <1>t DEF UnsubscribeCommit, ReaderType
<1>5. ASSUME mirror # "skewed", StageSound(e) PROVE StageSound(e)'
  <2>1. /\ reader.exists
        /\ members \subseteq Memberships(reader.channels, reader.languages)
        /\ mirror = "true" => Memberships(reader.channels, reader.languages) \subseteq members
    BY <1>0, <1>5 DEF StageSound, Follows, Wanted, EditAt
  <2>2. Wanted' = Memberships(reader'.channels, reader.languages)
    BY <1>4, <2>1 DEF Wanted, Memberships
  <2>3. Wanted' \subseteq Memberships(reader.channels, reader.languages)
    <3>1. reader'.channels \subseteq reader.channels
      BY <1>4
    <3>2. QED
      BY <2>2, <3>1, InMemberships
  <2>4. members \subseteq Wanted' \cup Memberships(edit[e].channels, Languages)
    <3>1. reader.languages \subseteq Languages
      BY <1>t DEF ReaderType
    <3>2. \A c \in reader.channels : c \in reader'.channels \/ c \in edit[e].channels
      BY <1>4
    <3>3. ASSUME NEW m \in members
          PROVE  m \in Wanted' \/ m \in Memberships(edit[e].channels, Languages)
      <4>1. m \in Memberships(reader.channels, reader.languages)
        BY <2>1
      <4>2. QED
        BY <2>2, <3>1, <3>2, <4>1, InMemberships
    <3>4. QED
      BY <3>3
  <2>5. q.channels \cap reader'.channels = {}
    BY <1>2, <1>4
  <2>6. QED
    BY <1>0, <1>2, <1>3, <1>4, <2>1, <2>3, <2>4, <2>5 DEF StageSound, EditAt
<1>6. q.at # "idle"
  BY <1>2
<1>7. QED
  BY <1>0, <1>2, <1>5, <1>6, MirrorGoesOn

\* The update of the languages.
LEMMA LanguagesMirror ==
  ASSUME AudienceTypeOK, MirrorInv, NEW e \in Editors, LanguagesCommit(e) PROVE MirrorInv'
<1>0. EditAt(e, "change languages") /\ ~EditAt(e, "idle") /\ ~EditAt(e, "count") /\ UNCHANGED <<members, mirror>>
  BY DEF LanguagesCommit, EditAt
<1>t. reader \in ReaderType /\ edit[e] \in EditType
  BY DEF AudienceTypeOK
<1>1. CASE ~reader.exists
  <2>1. EditBecomes(e, NoEdit) /\ NoEdit.at = "idle" /\ reader' = reader
    BY <1>1, RetireBecomes DEF LanguagesCommit
  <2>2. StageSound(e) => Follows'
    BY <1>0, <2>1 DEF StageSound, EditAt, Follows, Wanted
  <2>3. QED
    BY <1>0, <2>1, <2>2, MirrorGoesOn
<1>2. CASE reader.exists
  <2>1. "languages" \in EditSteps /\ edit' = [edit EXCEPT ![e].at = "languages"]
    BY <1>2 DEF LanguagesCommit, EditSteps
  <2>2. PICK q : /\ EditBecomes(e, q) /\ q.at = "languages"
                 /\ q.channels = edit[e].channels /\ q.languages = edit[e].languages
    BY <1>0, <2>1, GoesOn
  <2>3. edit'[e] = q
    BY <2>2, EditsAfter
  <2>4. /\ reader'.exists /\ reader'.languages = edit[e].languages
        /\ reader'.channels = reader.channels
    BY <1>2, <1>t DEF LanguagesCommit, ReaderType
  <2>5. ASSUME mirror # "skewed", StageSound(e) PROVE StageSound(e)'
    <3>1. /\ members \subseteq Memberships(reader.channels, reader.languages)
          /\ mirror = "true" => Memberships(reader.channels, reader.languages) \subseteq members
      BY <1>0, <1>2, <2>5 DEF StageSound, Follows, Wanted, EditAt
    <3>2. members \subseteq Memberships(reader.channels, Languages)
      <4>1. reader.languages \subseteq Languages
        BY <1>t DEF ReaderType
      <4>2. QED
        BY <3>1, <4>1, InMemberships
    <3>3. reader.channels \X {Plain} \subseteq Memberships(reader.channels, reader.languages)
      BY DEF Memberships
    <3>4. QED
      BY <1>0, <2>2, <2>3, <2>4, <3>1, <3>2, <3>3 DEF StageSound, EditAt
  <2>6. q.at # "idle"
    BY <2>2
  <2>7. QED
    BY <1>0, <2>2, <2>5, <2>6, MirrorGoesOn
<1>3. QED
  BY <1>1, <1>2

\* The delete of the account.
LEMMA DeletionMirror ==
  ASSUME AudienceTypeOK, MirrorInv, NEW e \in Editors, DeletionCommit(e) PROVE MirrorInv'
<1>0. EditAt(e, "delete") /\ ~EditAt(e, "idle") /\ ~EditAt(e, "count") /\ UNCHANGED <<members, mirror>>
  BY DEF DeletionCommit, EditAt
<1>t. reader \in ReaderType /\ edit[e] \in EditType
  BY DEF AudienceTypeOK
<1>d. reader' = [exists |-> FALSE, channels |-> {}, languages |-> {}]
  BY DEF DeletionCommit
<1>1. "purge" \in EditSteps /\ edit' = [edit EXCEPT ![e].at = "purge"]
  BY DEF DeletionCommit, EditSteps
<1>2. PICK q : /\ EditBecomes(e, q) /\ q.at = "purge"
               /\ q.channels = edit[e].channels /\ q.languages = edit[e].languages
  BY <1>0, <1>1, GoesOn
<1>3. edit'[e] = q
  BY <1>2, EditsAfter
<1>4. ASSUME mirror # "skewed", StageSound(e) PROVE StageSound(e)'
  <2>1. /\ members \subseteq Memberships(reader.channels, reader.languages)
        /\ edit[e].channels = reader.channels
    BY <1>0, <1>4 DEF StageSound, Follows, Wanted, EditAt
  <2>2. members \subseteq Memberships(q.channels, Languages)
    <3>1. reader.languages \subseteq Languages
      BY <1>t DEF ReaderType
    <3>2. QED
      BY <1>2, <2>1, <3>1, InMemberships
  <2>3. ~reader'.exists
    BY <1>d
  <2>4. QED
    BY <1>0, <1>2, <1>3, <2>2, <2>3 DEF StageSound, EditAt
<1>5. q.at # "idle"
  BY <1>2
<1>6. QED
  BY <1>0, <1>2, <1>4, <1>5, MirrorGoesOn

\* The MULTI of a change of languages: every channel of the reader, in the languages of now.
LEMMA LanguagesRewritten ==
  ASSUME NEW c, NEW l, l \subseteq Languages,
         members \subseteq Memberships(c, Languages)
  PROVE  /\ (members \cup (c \X l)) \ (c \X (Languages \ l)) \subseteq Memberships(c, l)
         /\ c \X {Plain} \subseteq members =>
              Memberships(c, l) \subseteq (members \cup (c \X l)) \ (c \X (Languages \ l))
<1> DEFINE now == (members \cup (c \X l)) \ (c \X (Languages \ l))
<1>0. Plain \notin Languages
  BY AudienceAssumption
<1>1. ASSUME NEW m \in now PROVE m \in Memberships(c, l)
  <2>1. m \in members \/ m \in c \X l
    OBVIOUS
  <2>2. m \in Memberships(c, Languages)
    BY <2>1, InMemberships
  <2>3. m = <<m[1], m[2]>> /\ m[1] \in c /\ (m[2] \in Languages \/ m[2] = Plain)
    BY <2>2, InMemberships
  <2>4. ~(m[1] \in c /\ m[2] \in Languages \ l)
    <3>1. m \notin c \X (Languages \ l)
      OBVIOUS
    <3>2. QED
      BY <3>1, <2>3, InMemberships
  <2>5. QED
    BY <2>3, <2>4, InMemberships
<1>2. ASSUME c \X {Plain} \subseteq members, NEW m \in Memberships(c, l) PROVE m \in now
  <2>1. m = <<m[1], m[2]>> /\ m[1] \in c /\ (m[2] \in l \/ m[2] = Plain)
    BY InMemberships
  <2>2. m \notin c \X (Languages \ l)
    <3>1. m[2] \notin Languages \ l
      BY <2>1, <1>0
    <3>2. QED
      BY <3>1, InMemberships
  <2>3. m \in members \/ m \in c \X l
    <3>1. m[2] = Plain => m \in c \X {Plain}
      BY <2>1
    <3>2. m[2] \in l => m \in c \X l
      BY <2>1, InMemberships
    <3>3. QED
      BY <1>2, <2>1, <3>1, <3>2
  <2>4. QED
    BY <2>2, <2>3
<1>3. QED
  BY <1>1, <1>2

\* Each action keeps what the mirror promises.
LEMMA MirrorStep == AudienceTypeOK /\ MirrorInv /\ [AudienceNext]_audienceVars => MirrorInv'
<1> SUFFICES ASSUME AudienceTypeOK, MirrorInv, [AudienceNext]_audienceVars PROVE MirrorInv'
  OBVIOUS
<1>t. /\ reader \in ReaderType /\ members \subseteq Everything
      /\ reader.channels \in SUBSET Channels /\ reader.languages \in SUBSET Languages
      /\ \A e \in Editors : edit[e].channels \in SUBSET Channels /\ edit[e].languages \in SUBSET Languages
  BY DEF AudienceTypeOK, ReaderType, EditType
<1>o. \A e \in Editors : ~EditAt(e, "idle") /\ mirror # "skewed" => OpenEdits \subseteq {e} /\ StageSound(e)
  BY DEF MirrorInv, OpenEdits
<1>1. ASSUME NEW e \in Editors, NEW ch \in Channels, SubscribeLoad(e, ch) PROVE MirrorInv'
  <2>1. {ch} \in SUBSET Channels /\ "subscribe" \in EditSteps /\ Opens("subscribe", {ch}, reader.languages)
    BY DEF EditSteps, Opens
  <2>2. QED
    BY <1>1, <1>t, <2>1, MirrorStarts DEF SubscribeLoad
<1>2. ASSUME NEW e \in Editors, NEW ch \in Channels, UnsubscribeLoad(e, ch) PROVE MirrorInv'
  <2>1. {ch} \in SUBSET Channels /\ {} \in SUBSET Languages
    OBVIOUS
  <2>2. "unsubscribe" \in EditSteps /\ Opens("unsubscribe", {ch}, {})
    BY DEF EditSteps, Opens
  <2>3. QED
    BY <1>2, <1>t, <2>1, <2>2, MirrorStarts DEF UnsubscribeLoad
<1>3. ASSUME NEW e \in Editors, SubscribeCommit(e) PROVE MirrorInv'
  BY <1>3, SubscribeMirror
<1>4. ASSUME NEW e \in Editors, SyncSubscribe(e) PROVE MirrorInv'
  <2> DEFINE joined == Memberships(edit[e].channels, edit[e].languages)
  <2>1. joined \in SUBSET Everything /\ {} \in SUBSET Everything
    BY <1>t, MembershipsType
  <2>2. Rewrite(e, joined, {}) /\ EditAt(e, "sync subscribe") /\ ~EditAt(e, "idle")
    BY <1>4 DEF SyncSubscribe, EditAt
  <2>3. ASSUME mirror # "skewed", StageSound(e)
        PROVE  /\ (members \cup joined) \ {} \subseteq Wanted
               /\ mirror = "true" => Wanted \subseteq (members \cup joined) \ {}
    <3>1. /\ reader.exists /\ edit[e].languages = reader.languages
          /\ edit[e].channels \subseteq reader.channels /\ members \subseteq Wanted
          /\ mirror = "true" => Wanted \subseteq members \cup joined
      BY <2>2, <2>3 DEF StageSound, EditAt
    <3>2. Wanted = Memberships(reader.channels, reader.languages)
      BY <3>1 DEF Wanted
    <3>3. joined \subseteq Wanted
      BY <3>1, <3>2, InMemberships
    <3>4. QED
      BY <3>1, <3>3
  <2> HIDE DEF joined
  <2>4. QED
    BY <2>1, <2>2, <2>3, MirrorRewritten
<1>5. ASSUME NEW e \in Editors, UnsubscribeCommit(e) PROVE MirrorInv'
  BY <1>5, UnsubscribeMirror
<1>6. ASSUME NEW e \in Editors, SyncUnsubscribe(e) PROVE MirrorInv'
  <2> DEFINE left == Memberships(edit[e].channels, Languages)
  <2>1. left \in SUBSET Everything /\ {} \in SUBSET Everything
    <3>1. Languages \in SUBSET Languages
      OBVIOUS
    <3>2. QED
      BY <1>t, <3>1, MembershipsType
  <2>2. Rewrite(e, {}, left) /\ EditAt(e, "sync unsubscribe") /\ ~EditAt(e, "idle")
    BY <1>6 DEF SyncUnsubscribe, EditAt
  <2>3. ASSUME mirror # "skewed", StageSound(e)
        PROVE  /\ (members \cup {}) \ left \subseteq Wanted
               /\ mirror = "true" => Wanted \subseteq (members \cup {}) \ left
    <3>1. /\ reader.exists /\ edit[e].channels \cap reader.channels = {}
          /\ members \subseteq Wanted \cup left
          /\ mirror = "true" => Wanted \subseteq members
      BY <2>2, <2>3 DEF StageSound, EditAt
    <3>2. Wanted = Memberships(reader.channels, reader.languages)
      BY <3>1 DEF Wanted
    <3>3. Wanted \cap left = {}
      <4>1. ASSUME NEW m \in Wanted, m \in left PROVE FALSE
        <5>1. m[1] \in reader.channels /\ m[1] \in edit[e].channels
          BY <3>2, <4>1, InMemberships
        <5>2. QED
          BY <3>1, <5>1
      <4>2. QED
        BY <4>1
    <3>4. QED
      BY <3>1, <3>3
  <2> HIDE DEF left
  <2>4. QED
    BY <2>1, <2>2, <2>3, MirrorRewritten
<1>7. ASSUME NEW e \in Editors, NEW languages \in (SUBSET Languages) \ {{}}, LanguagesLoad(e, languages)
      PROVE  MirrorInv'
  <2> DEFINE at == IF languages = reader.languages THEN "languages" ELSE "change languages"
  <2>1. at \in EditSteps /\ {} \in SUBSET Channels /\ languages \in SUBSET Languages
    BY DEF EditSteps
  <2>2. StartEdit(e, at, {}, languages) /\ UNCHANGED <<reader, members, subsTotal, miscounted>>
    BY <1>7 DEF LanguagesLoad
  <2>3. Opens(at, {}, languages)
    BY DEF Opens
  <2> HIDE DEF at
  <2>4. QED
    BY <2>1, <2>2, <2>3, MirrorStarts
<1>8. ASSUME NEW e \in Editors, LanguagesCommit(e) PROVE MirrorInv'
  BY <1>8, LanguagesMirror
<1>9. ASSUME NEW e \in Editors, LanguagesChannels(e) PROVE MirrorInv'
  <2>1. PICK q : /\ EditBecomes(e, q) /\ q.at = "sync languages"
                 /\ q.channels = reader.channels /\ q.languages = edit[e].languages
    BY <1>9, LoadsChannels
  <2>2. edit'[e] = q
    BY <2>1, EditsAfter
  <2>3. EditAt(e, "languages") /\ ~EditAt(e, "idle") /\ ~EditAt(e, "count") /\ UNCHANGED <<reader, members, mirror>>
    BY <1>9 DEF LanguagesChannels, EditAt
  <2>4. StageSound(e) => StageSound(e)'
    BY <2>1, <2>2, <2>3 DEF StageSound, EditAt
  <2>5. q.at # "idle"
    BY <2>1
  <2>6. QED
    BY <2>1, <2>3, <2>4, <2>5, MirrorGoesOn
<1>10. ASSUME NEW e \in Editors, SyncContentLanguages(e) PROVE MirrorInv'
  <2> DEFINE joined == edit[e].channels \X edit[e].languages
             left == edit[e].channels \X (Languages \ edit[e].languages)
  <2>1. joined \in SUBSET Everything /\ left \in SUBSET Everything
    BY <1>t, MembershipsType
  <2>2. Rewrite(e, joined, left) /\ EditAt(e, "sync languages") /\ ~EditAt(e, "idle")
    BY <1>10 DEF SyncContentLanguages, EditAt
  <2>3. ASSUME mirror # "skewed", StageSound(e)
        PROVE  /\ (members \cup joined) \ left \subseteq Wanted
               /\ mirror = "true" => Wanted \subseteq (members \cup joined) \ left
    <3>1. /\ reader.exists /\ edit[e].languages = reader.languages
          /\ edit[e].channels = reader.channels
          /\ members \subseteq Memberships(reader.channels, Languages)
          /\ mirror = "true" => reader.channels \X {Plain} \subseteq members
      BY <2>2, <2>3 DEF StageSound, EditAt
    <3>2. Wanted = Memberships(reader.channels, reader.languages)
      BY <3>1 DEF Wanted
    <3>3. QED
      BY <1>t, <3>1, <3>2, LanguagesRewritten
  <2> HIDE DEF joined, left
  <2>4. QED
    BY <2>1, <2>2, <2>3, MirrorRewritten
<1>11. ASSUME NEW e \in Editors, DeletionReads(e) PROVE MirrorInv'
  <2>1. {} \in SUBSET Languages
    OBVIOUS
  <2>2. "delete" \in EditSteps /\ Opens("delete", reader.channels, {})
    BY DEF EditSteps, Opens
  <2>3. QED
    BY <1>11, <1>t, <2>1, <2>2, MirrorStarts DEF DeletionReads
<1>12. ASSUME NEW e \in Editors, DeletionCommit(e) PROVE MirrorInv'
  BY <1>12, DeletionMirror
<1>13. ASSUME NEW e \in Editors, PurgeUser(e) PROVE MirrorInv'
  <2> DEFINE left == Memberships(edit[e].channels, Languages)
  <2>1. left \in SUBSET Everything /\ {} \in SUBSET Everything
    <3>1. Languages \in SUBSET Languages
      OBVIOUS
    <3>2. QED
      BY <1>t, <3>1, MembershipsType
  <2>2. Rewrite(e, {}, left) /\ EditAt(e, "purge") /\ ~EditAt(e, "idle")
    BY <1>13 DEF PurgeUser, EditAt
  <2>3. ASSUME mirror # "skewed", StageSound(e)
        PROVE  /\ (members \cup {}) \ left \subseteq Wanted
               /\ mirror = "true" => Wanted \subseteq (members \cup {}) \ left
    <3>1. ~reader.exists /\ members \subseteq left
      BY <2>2, <2>3 DEF StageSound, EditAt
    <3>2. Wanted = {}
      BY <3>1 DEF Wanted
    <3>3. QED
      BY <3>1, <3>2
  <2> HIDE DEF left
  <2>4. QED
    BY <2>1, <2>2, <2>3, MirrorRewritten
<1>14. ASSUME NEW e \in Editors, CountChanged(e) PROVE MirrorInv'
  <2>1. EditBecomes(e, NoEdit) /\ NoEdit.at = "idle"
    BY <1>14, RetireBecomes DEF CountChanged
  <2>2. EditAt(e, "count") /\ ~EditAt(e, "idle") /\ UNCHANGED <<reader, members, mirror>>
    BY <1>14 DEF CountChanged, EditAt
  <2>3. mirror' # "skewed" => OpenEdits \subseteq {e} /\ Follows'
    BY <1>o, <2>2 DEF StageSound, Follows, Wanted
  <2>4. QED
    BY <2>1, <2>3, MirrorKept
<1>15. ASSUME NEW e \in Editors, RebuildReads(e) PROVE MirrorInv'
  <2>1. "rebuild" \in EditSteps /\ Opens("rebuild", reader.channels, reader.languages)
    BY DEF EditSteps, Opens
  <2>2. QED
    BY <1>15, <1>t, <2>1, MirrorStarts DEF RebuildReads
<1>16. ASSUME NEW e \in Editors, RebuildAdds(e) PROVE MirrorInv'
  <2> DEFINE rows == Memberships(edit[e].channels, edit[e].languages)
  <2>1. EditAt(e, "rebuild") /\ ~EditAt(e, "idle") /\ UNCHANGED <<reader, edit, mirror>>
    BY <1>16 DEF RebuildAdds, EditAt
  <2>2. \E m \in rows : members' = members \cup {m}
    BY <1>16 DEF RebuildAdds
  <2>3. ASSUME mirror' # "skewed" PROVE OpenEdits \subseteq {e} /\ StageSound(e)'
    <3>1. /\ OpenEdits \subseteq {e} /\ StageSound(e) /\ Follows /\ reader.exists
          /\ edit[e].channels = reader.channels /\ edit[e].languages = reader.languages
      BY <1>o, <2>1, <2>3 DEF StageSound, EditAt
    <3>2. Wanted = rows /\ Wanted' = Wanted
      BY <2>1, <3>1 DEF Wanted
    <3> HIDE DEF rows
    <3>3. Follows'
      BY <2>1, <2>2, <3>1, <3>2 DEF Follows
    <3>4. QED
      BY <2>1, <3>1, <3>3 DEF StageSound, EditAt
  <2>4. OpenEdits' = OpenEdits /\ e \in OpenEdits
    BY <2>1 DEF OpenEdits, EditAt
  <2>5. QED
    BY <2>3, <2>4 DEF MirrorInv
<1>17. ASSUME NEW e \in Editors, RebuildTotals(e) PROVE MirrorInv'
  <2> DEFINE rows == Memberships(edit[e].channels, edit[e].languages)
  <2>1. EditBecomes(e, NoEdit) /\ NoEdit.at = "idle"
    BY <1>17, RetireBecomes DEF RebuildTotals
  <2>2. /\ EditAt(e, "rebuild") /\ ~EditAt(e, "idle") /\ UNCHANGED <<reader, members>>
        /\ rows \subseteq members /\ mirror' = (IF mirror = "lost" THEN "true" ELSE mirror)
    BY <1>17 DEF RebuildTotals, EditAt
  <2>3. ASSUME mirror' # "skewed" PROVE OpenEdits \subseteq {e} /\ Follows'
    <3>1. mirror # "skewed"
      BY <2>2, <2>3
    <3>2. /\ OpenEdits \subseteq {e} /\ StageSound(e) /\ Follows /\ reader.exists
          /\ edit[e].channels = reader.channels /\ edit[e].languages = reader.languages
      BY <1>o, <2>2, <3>1 DEF StageSound, EditAt
    <3>3. Wanted = rows /\ Wanted' = Wanted
      BY <2>2, <3>2 DEF Wanted
    <3> HIDE DEF rows
    <3>4. QED
      BY <2>2, <3>2, <3>3 DEF Follows
  <2>4. QED
    BY <2>1, <2>3, MirrorKept
<1>18. ASSUME NEW e \in Editors, EditorDies(e) PROVE MirrorInv'
  <2>1. EditBecomes(e, NoEdit) /\ NoEdit.at = "idle"
    BY <1>18, RetireBecomes DEF EditorDies
  <2>2. /\ ~EditAt(e, "idle") /\ UNCHANGED <<reader, members>>
        /\ mirror' # "skewed" =>
             /\ mirror' = mirror
             /\ edit[e].at \notin {"sync subscribe", "sync unsubscribe", "languages",
                                   "sync languages", "purge"}
    BY <1>18 DEF EditorDies
  <2>3. edit[e].at \in EditSteps
    BY DEF AudienceTypeOK, EditType
  <2>4. ASSUME mirror' # "skewed" PROVE OpenEdits \subseteq {e} /\ Follows'
    <3>1. OpenEdits \subseteq {e} /\ StageSound(e) /\ mirror' = mirror
      BY <1>o, <2>2, <2>4
    <3>2. edit[e].at \in {"subscribe", "unsubscribe", "change languages", "delete", "rebuild", "count"}
      BY <2>2, <2>3, <2>4 DEF EditSteps, EditAt
    <3>3. Follows
      BY <3>1, <3>2 DEF StageSound, EditAt
    <3>4. QED
      BY <2>2, <3>1, <3>3 DEF Follows, Wanted
  <2>5. QED
    BY <2>1, <2>4, MirrorKept
<1>19. ASSUME RedisLoss PROVE MirrorInv'
  <2>1. ASSUME mirror' # "skewed" PROVE OpenEdits' = {} /\ Follows'
    BY <1>19, <2>1 DEF RedisLoss, OpenEdits, EditAt, Follows
  <2>2. QED
    BY <2>1 DEF MirrorInv
<1>20. CASE UNCHANGED audienceVars
  <2>1. UNCHANGED <<reader, members, edit, mirror>>
    BY <1>20 DEF audienceVars
  <2>2. OpenEdits' = OpenEdits /\ (Follows => Follows') /\ Wanted' = Wanted
    BY <2>1 DEF OpenEdits, EditAt, Follows, Wanted
  <2>3. \A e \in Editors : StageSound(e) => StageSound(e)'
    <3>1. ASSUME NEW e \in Editors, StageSound(e) PROVE StageSound(e)'
      <4>1. /\ reader' = reader /\ members' = members /\ mirror' = mirror /\ edit' = edit
            /\ Wanted' = Wanted /\ (Follows => Follows')
        BY <2>1, <2>2
      <4>2. \A c, l : Memberships(c, l)' = Memberships(c, l)
        BY DEF Memberships
      <4>3. QED
        BY <3>1, <4>1, <4>2 DEF StageSound, EditAt, Memberships
    <3>2. QED
      BY <3>1
  <2>4. OpenEdits \subseteq Editors
    BY DEF OpenEdits
  <2>5. QED
    BY <2>1, <2>2, <2>3, <2>4 DEF MirrorInv
<1>21. QED
  BY <1>1, <1>2, <1>3, <1>4, <1>5, <1>6, <1>7, <1>8, <1>9, <1>10, <1>11, <1>12, <1>13, <1>14,
     <1>15, <1>16, <1>17, <1>18, <1>19, <1>20 DEF AudienceNext

\* While no edit overlaps another or dies between its commit and its MULTI, the sets follow the
\* rows at every stage of every edit.
THEOREM MirrorFollows == AudienceSpec => [](AudienceTypeOK /\ MirrorInv)
<1>1. AudienceInit => MirrorInv
  <2> SUFFICES ASSUME AudienceInit PROVE MirrorInv
    OBVIOUS
  <2>1. edit = [e \in Editors |-> NoEdit] /\ members = {} /\ reader.channels = {}
    BY DEF AudienceInit
  <2>2. OpenEdits = {}
    BY <2>1, NoEditType DEF OpenEdits, EditAt
  <2>3. Wanted = {}
    BY <2>1, InMemberships DEF Wanted
  <2>4. QED
    BY <2>1, <2>2, <2>3 DEF MirrorInv, Follows
<1>2. QED
  BY <1>1, AudienceTypeInit, AudienceTypeStep, MirrorStep, PTL DEF AudienceSpec

\* Between edits the audience sets are what the rows say, unless an edit overlapped another or
\* died after its commit.
THEOREM MirrorKeeps == AudienceSpec => []MirrorsPostgres
<1>1. MirrorInv => MirrorsPostgres
  BY DEF MirrorInv, MirrorsPostgres, Follows
<1>2. QED
  BY <1>1, MirrorFollows, PTL

------------------------------------------------------------------------------
(* AUDIENCE: the running total.                                            *)

\* One editor's share of what is uncounted, added.
LEMMA ShareAdded ==
  ASSUME NEW f \in [Editors -> SUBSET Everything], NEW e \in Editors, f[e] = {},
         NEW g \in [Editors -> SUBSET Everything], \A d \in Editors : d # e => g[d] = f[d]
  PROVE  /\ Cardinality(Uncounted(f)) \in Nat /\ Cardinality(g[e]) \in Nat
         /\ Cardinality(Uncounted(g)) = Cardinality(Uncounted(f)) + Cardinality(g[e])
<1> DEFINE all == Editors \X Everything
           old == Uncounted(f)
           new == {e} \X g[e]
<1>1. \A x : x \in old <=> \E d \in Editors : x \in {d} \X f[d]
  BY DEF Uncounted
<1>2. Uncounted(g) = old \cup new /\ old \cap new = {}
  <2>1. \A x : x \in Uncounted(g) <=> \E d \in Editors : x \in {d} \X g[d]
    BY DEF Uncounted
  <2>2. ASSUME NEW x \in old PROVE x \in Uncounted(g) /\ x \notin new
    <3>1. PICK d \in Editors : x \in {d} \X f[d]
      BY <1>1
    <3>2. d # e
      BY <3>1
    <3>3. QED
      BY <2>1, <3>1, <3>2
  <2>3. ASSUME NEW x \in Uncounted(g) PROVE x \in old \/ x \in new
    <3>1. PICK d \in Editors : x \in {d} \X g[d]
      BY <2>1
    <3>2. QED
      BY <1>1, <3>1
  <2>4. new \subseteq Uncounted(g)
    BY <2>1
  <2> HIDE DEF old, new
  <2>5. QED
    BY <2>2, <2>3, <2>4
<1>3. IsFiniteSet(old)
  <2>1. IsFiniteSet(all)
    BY FiniteAudience, AudienceAssumption, FS_Product
  <2>2. old \subseteq all
    BY <1>1
  <2> HIDE DEF old, all
  <2>3. QED
    BY <2>1, <2>2, FS_Subset
<1>4. IsFiniteSet(g[e]) /\ Cardinality(g[e]) \in Nat
  BY FiniteAudience
<1>5. IsFiniteSet(new) /\ Cardinality(new) = Cardinality(g[e])
  <2>1. IsFiniteSet({e}) /\ Cardinality({e}) = 1
    BY FS_Singleton
  <2>2. IsFiniteSet(new) /\ Cardinality(new) = Cardinality({e}) * Cardinality(g[e])
    BY <1>4, <2>1, FS_Product
  <2>3. QED
    BY <1>4, <2>1, <2>2
<1> HIDE DEF old, new
<1>6. Cardinality(old) \in Nat
  BY <1>3, FS_CardinalityType
<1>7. Cardinality(old \cup new) = Cardinality(old) + Cardinality(new) - Cardinality(old \cap new)
  BY <1>3, <1>5, FS_Union
<1>8. Cardinality(old \cap new) = 0
  BY <1>2, FS_EmptySet
<1>9. Cardinality(Uncounted(g)) = Cardinality(old) + Cardinality(g[e])
  BY <1>2, <1>4, <1>5, <1>6, <1>7, <1>8
<1>10. QED
  BY <1>4, <1>6, <1>9 DEF old

Joining  == [e \in Editors |-> edit[e].joined]
Leaving  == [e \in Editors |-> edit[e].left]

\* What the editors hold uncounted.
LEMMA SharesType ==
  ASSUME AudienceTypeOK
  PROVE  /\ Joining \in [Editors -> SUBSET Everything] /\ Leaving \in [Editors -> SUBSET Everything]
         /\ Joined = Uncounted(Joining) /\ Left = Uncounted(Leaving)
         /\ \A e \in Editors : Joining[e] = edit[e].joined /\ Leaving[e] = edit[e].left
<1>1. \A e \in Editors : edit[e].joined \in SUBSET Everything /\ edit[e].left \in SUBSET Everything
  BY DEF AudienceTypeOK, EditType
<1>2. QED
  BY <1>1 DEF Joining, Leaving, Joined, Left

\* With nothing uncounted the totals are plain.
LEMMA NobodyCounts ==
  ASSUME \A e \in Editors : edit[e].joined = {} /\ edit[e].left = {}
  PROVE  Cardinality(Joined) = 0 /\ Cardinality(Left) = 0
<1>1. Joined = {} /\ Left = {}
  BY DEF Joined, Left, Uncounted
<1>2. QED
  BY <1>1, FS_EmptySet

\* An edit that neither counts nor begins to.
LEMMA CountUntouched ==
  ASSUME AudienceTypeOK, NEW e \in Editors, NEW q, EditBecomes(e, q),
         ~EditAt(e, "count"), q.at # "count", TotalCountsMembers,
         EditAt(e, "rebuild") => q.at = "rebuild" \/ miscounted',
         UNCHANGED <<members, subsTotal>>, ~miscounted' => ~miscounted
  PROVE  TotalCountsMembers'
<1>1. edit'[e] = q /\ \A f \in Editors : f # e => edit'[f] = edit[f]
  BY EditsAfter
<1>2. edit[e].joined = {} /\ edit[e].left = {} /\ q.joined = {} /\ q.left = {}
  BY DEF AudienceTypeOK, EditBecomes, NothingToCount
<1>3. \A f \in Editors : edit'[f].joined = edit[f].joined /\ edit'[f].left = edit[f].left
  BY <1>1, <1>2
<1>4. Joined' = Joined /\ Left' = Left
  BY <1>3 DEF Joined, Left, Uncounted
<1>5. ASSUME ~miscounted', ~Rebuilding' PROVE ~miscounted /\ ~Rebuilding
  BY <1>1, <1>5 DEF Rebuilding, EditAt
<1>6. QED
  BY <1>4, <1>5 DEF TotalCountsMembers

\* An editor comes to hold something uncounted.
LEMMA SharesGrow ==
  ASSUME AudienceTypeOK, AudienceTypeOK', NEW e \in Editors,
         edit[e].joined = {}, edit[e].left = {},
         \A d \in Editors : d # e => edit'[d] = edit[d]
  PROVE  /\ Cardinality(Joined) \in Nat /\ Cardinality(Left) \in Nat
         /\ Cardinality(Joined') = Cardinality(Joined) + Cardinality(edit'[e].joined)
         /\ Cardinality(Left') = Cardinality(Left) + Cardinality(edit'[e].left)
<1> DEFINE f == Joining
           g == Joining'
           h == Leaving
           k == Leaving'
<1>1. /\ f \in [Editors -> SUBSET Everything] /\ h \in [Editors -> SUBSET Everything]
      /\ Joined = Uncounted(f) /\ Left = Uncounted(h)
      /\ \A d \in Editors : f[d] = edit[d].joined /\ h[d] = edit[d].left
  BY SharesType
<1>2. /\ g \in [Editors -> SUBSET Everything] /\ k \in [Editors -> SUBSET Everything]
      /\ Joined' = Uncounted(g) /\ Left' = Uncounted(k)
      /\ \A d \in Editors : g[d] = edit'[d].joined /\ k[d] = edit'[d].left
  <2>1. \A d \in Editors : edit'[d].joined \in SUBSET Everything /\ edit'[d].left \in SUBSET Everything
    BY DEF AudienceTypeOK, EditType, Everything, Tags
  <2>2. QED
    BY <2>1 DEF Joining, Leaving, Joined, Left, Uncounted
<1> HIDE DEF f, g, h, k
<1>3. f[e] = {} /\ h[e] = {} /\ g[e] = edit'[e].joined /\ k[e] = edit'[e].left
  BY <1>1, <1>2
<1>4. \A d \in Editors : d # e => g[d] = f[d]
  BY <1>1, <1>2
<1>5. \A d \in Editors : d # e => k[d] = h[d]
  BY <1>1, <1>2
<1>6. /\ Cardinality(Uncounted(f)) \in Nat /\ Cardinality(g[e]) \in Nat
      /\ Cardinality(Uncounted(g)) = Cardinality(Uncounted(f)) + Cardinality(g[e])
  BY <1>1, <1>2, <1>3, <1>4, ShareAdded
<1>7. /\ Cardinality(Uncounted(h)) \in Nat /\ Cardinality(k[e]) \in Nat
      /\ Cardinality(Uncounted(k)) = Cardinality(Uncounted(h)) + Cardinality(k[e])
  BY <1>1, <1>2, <1>3, <1>5, ShareAdded
<1>8. QED
  BY <1>1, <1>2, <1>3, <1>6, <1>7

Apart(s, t) == s \cap t = {}

\* What a MULTI changes is what it will count.
LEMMA CountRewritten ==
  ASSUME AudienceTypeOK, NEW e \in Editors, ~EditAt(e, "count"), ~EditAt(e, "rebuild"),
         NEW joined \in SUBSET Everything, NEW left \in SUBSET Everything, Rewrite(e, joined, left),
         Apart(joined, left), TotalCountsMembers, AudienceTypeOK'
  PROVE  TotalCountsMembers'
<1> DEFINE j == joined \ members
           l == left \cap members
<1>0. \E q : Rewritten(e, q, joined, left)
  BY RewriteBecomes
<1>1. PICK q : EditBecomes(e, q) /\ q.at = "count" /\ q.joined = j /\ q.left = l
  BY <1>0 DEF Rewritten
<1>2. /\ edit'[e] = q /\ \A f \in Editors : f # e => edit'[f] = edit[f]
      /\ UNCHANGED <<subsTotal, miscounted>> /\ members' = (members \cup joined) \ left
  BY <1>1, EditsAfter DEF Rewrite
<1>3. edit[e].joined = {} /\ edit[e].left = {}
  BY DEF AudienceTypeOK
<1>4. /\ Cardinality(Joined) \in Nat /\ Cardinality(Left) \in Nat
      /\ Cardinality(Joined') = Cardinality(Joined) + Cardinality(j)
      /\ Cardinality(Left') = Cardinality(Left) + Cardinality(l)
  <2>1. edit'[e].joined = j /\ edit'[e].left = l
    BY <1>1, <1>2
  <2>2. QED
    BY <1>2, <1>3, <2>1, SharesGrow
<1>5. /\ Cardinality(members) \in Nat /\ Cardinality(j) \in Nat /\ Cardinality(l) \in Nat
      /\ Cardinality(members') = Cardinality(members) + Cardinality(j) - Cardinality(l)
  <2>1. /\ IsFiniteSet(members) /\ IsFiniteSet(j) /\ IsFiniteSet(l)
        /\ Cardinality(members) \in Nat /\ Cardinality(j) \in Nat /\ Cardinality(l) \in Nat
    <3>1. members \in SUBSET Everything /\ j \in SUBSET Everything /\ l \in SUBSET Everything
      BY DEF AudienceTypeOK
    <3>2. QED
      BY <3>1, FiniteAudience
  <2> DEFINE more == members \cup j
  <2>2. members \cap j = {} /\ members' = more \ l /\ more \cap l = l
    BY <1>2 DEF Apart
  <2> HIDE DEF j, l
  <2>3. /\ IsFiniteSet(more)
        /\ Cardinality(more) = Cardinality(members) + Cardinality(j) - Cardinality(members \cap j)
    BY <2>1, FS_Union
  <2>4. Cardinality(members \cap j) = 0
    BY <2>2, FS_EmptySet
  <2> HIDE DEF more
  <2>5. Cardinality(more \ l) = Cardinality(more) - Cardinality(more \cap l)
    BY <2>3, FS_Difference
  <2>6. Cardinality(members') = Cardinality(more \ l) /\ Cardinality(more \cap l) = Cardinality(l)
    BY <2>2
  <2>7. QED
    BY <2>1, <2>3, <2>4, <2>5, <2>6
<1>6. ASSUME ~miscounted', ~Rebuilding' PROVE ~miscounted /\ ~Rebuilding
  BY <1>2, <1>6 DEF Rebuilding, EditAt
<1>7. subsTotal' = subsTotal /\ subsTotal \in Int
  BY <1>2 DEF AudienceTypeOK
<1> HIDE DEF j, l
<1>8. QED
  BY <1>4, <1>5, <1>6, <1>7 DEF TotalCountsMembers

\* The total moves by what was changed.
LEMMA CountCounted ==
  ASSUME AudienceTypeOK, NEW e \in Editors, TotalCountsMembers, CountChanged(e), AudienceTypeOK'
  PROVE  TotalCountsMembers'
<1> DEFINE j == edit[e].joined
           l == edit[e].left
<1>1. EditBecomes(e, NoEdit) /\ NoEdit.joined = {} /\ NoEdit.left = {}
  BY RetireBecomes, NoEditType DEF CountChanged
<1>2. /\ edit'[e] = NoEdit /\ \A f \in Editors : f # e => edit'[f] = edit[f]
      /\ UNCHANGED <<members, miscounted>> /\ EditAt(e, "count")
      /\ subsTotal' = subsTotal + Cardinality(j) - Cardinality(l)
  BY <1>1, EditsAfter DEF CountChanged
<1>4. /\ Cardinality(Joined') \in Nat /\ Cardinality(Left') \in Nat
      /\ Cardinality(j) \in Nat /\ Cardinality(l) \in Nat
      /\ Cardinality(Joined) = Cardinality(Joined') + Cardinality(j)
      /\ Cardinality(Left) = Cardinality(Left') + Cardinality(l)
  <2> DEFINE f == Joining'
             g == Joining
             h == Leaving'
             k == Leaving
  <2>1. /\ g \in [Editors -> SUBSET Everything] /\ k \in [Editors -> SUBSET Everything]
        /\ Joined = Uncounted(g) /\ Left = Uncounted(k)
        /\ \A d \in Editors : g[d] = edit[d].joined /\ k[d] = edit[d].left
    BY SharesType
  <2>2. /\ f \in [Editors -> SUBSET Everything] /\ h \in [Editors -> SUBSET Everything]
        /\ Joined' = Uncounted(f) /\ Left' = Uncounted(h)
        /\ \A d \in Editors : f[d] = edit'[d].joined /\ h[d] = edit'[d].left
    <3>1. \A d \in Editors : edit'[d].joined \in SUBSET Everything /\ edit'[d].left \in SUBSET Everything
      BY DEF AudienceTypeOK, EditType, Everything, Tags
    <3>2. QED
      BY <3>1 DEF Joining, Leaving, Joined, Left, Uncounted
  <2> HIDE DEF f, g, h, k
  <2>3. f[e] = {} /\ h[e] = {} /\ g[e] = j /\ k[e] = l
    BY <1>1, <1>2, <2>1, <2>2
  <2>4. \A d \in Editors : d # e => g[d] = f[d]
    BY <1>2, <2>1, <2>2
  <2>a. \A d \in Editors : d # e => k[d] = h[d]
    BY <1>2, <2>1, <2>2
  <2>5. /\ Cardinality(Uncounted(f)) \in Nat /\ Cardinality(g[e]) \in Nat
        /\ Cardinality(Uncounted(g)) = Cardinality(Uncounted(f)) + Cardinality(g[e])
    BY <2>1, <2>2, <2>3, <2>4, ShareAdded
  <2>6. /\ Cardinality(Uncounted(h)) \in Nat /\ Cardinality(k[e]) \in Nat
        /\ Cardinality(Uncounted(k)) = Cardinality(Uncounted(h)) + Cardinality(k[e])
    BY <2>1, <2>2, <2>3, <2>a, ShareAdded
  <2>7. QED
    BY <2>1, <2>2, <2>3, <2>5, <2>6
<1>5. Cardinality(members) \in Nat /\ subsTotal \in Int
  BY FiniteAudience DEF AudienceTypeOK
<1>6. ASSUME ~miscounted', ~Rebuilding' PROVE ~miscounted /\ ~Rebuilding
  BY <1>2, <1>6 DEF Rebuilding, EditAt
<1>7. members' = members
  BY <1>2
<1> HIDE DEF j, l
<1>8. QED
  BY <1>2, <1>4, <1>5, <1>6, <1>7 DEF TotalCountsMembers


\* A step that starts an edit.
LEMMA CountStarts ==
  ASSUME AudienceTypeOK, TotalCountsMembers, NEW e \in Editors, NEW at \in EditSteps, at # "count",
         NEW channels \in SUBSET Channels, NEW languages \in SUBSET Languages,
         StartEdit(e, at, channels, languages), UNCHANGED <<reader, members, subsTotal, miscounted>>
  PROVE  TotalCountsMembers'
<1>1. PICK q : EditBecomes(e, q) /\ q.at = at
  BY StartBecomes
<1>2. ~EditAt(e, "count") /\ ~EditAt(e, "rebuild")
  BY DEF StartEdit, EditAt
<1>3. QED
  BY <1>1, <1>2, CountUntouched

\* A step that goes on with one, or gives it up, before its MULTI.
LEMMA CountGoesOn ==
  ASSUME AudienceTypeOK, TotalCountsMembers, NEW e \in Editors,
         ~EditAt(e, "count"), ~EditAt(e, "rebuild"),
         \E q : EditBecomes(e, q) /\ q.at # "count",
         UNCHANGED <<members, subsTotal, miscounted>>
  PROVE  TotalCountsMembers'
<1>1. PICK q : EditBecomes(e, q) /\ q.at # "count"
  OBVIOUS
<1>2. QED
  BY <1>1, CountUntouched

\* Nobody else is at anything, and the total is set to what there is.
LEMMA CountAnew ==
  ASSUME AudienceTypeOK', ~miscounted' => OpenEdits' = {} /\ subsTotal' = Cardinality(members')
  PROVE  TotalCountsMembers'
<1> SUFFICES ASSUME ~miscounted'
             PROVE  subsTotal' + Cardinality(Joined') = Cardinality(members') + Cardinality(Left')
  BY DEF TotalCountsMembers
<1>1. \A e \in Editors : EditAt(e, "idle")'
  BY DEF OpenEdits
<1>2. \A e \in Editors : ~EditAt(e, "count")'
  BY <1>1 DEF EditAt
<1>3. \A e \in Editors : edit'[e].joined = {} /\ edit'[e].left = {}
  BY <1>2 DEF AudienceTypeOK
<1>4. Joined' = {} /\ Left' = {}
  BY <1>3 DEF Joined, Left, Uncounted
<1>5. Cardinality(Joined') = 0 /\ Cardinality(Left') = 0
  BY <1>4, FS_EmptySet
<1>6. subsTotal' = Cardinality(members') /\ subsTotal' \in Int
  BY DEF AudienceTypeOK
<1>7. QED
  BY <1>5, <1>6

\* Each action keeps the total true to the sets.
LEMMA CountStep ==
  AudienceTypeOK /\ TotalCountsMembers /\ [AudienceNext]_audienceVars => TotalCountsMembers'
<1> SUFFICES ASSUME AudienceTypeOK, TotalCountsMembers, [AudienceNext]_audienceVars
             PROVE  TotalCountsMembers'
  OBVIOUS
<1>t. /\ AudienceTypeOK'
      /\ reader.channels \in SUBSET Channels /\ reader.languages \in SUBSET Languages
      /\ \A e \in Editors : edit[e].channels \in SUBSET Channels /\ edit[e].languages \in SUBSET Languages
  BY AudienceTypeStep DEF AudienceTypeOK, EditType, ReaderType
<1>g. ASSUME NEW e \in Editors, NEW at \in EditSteps, at # "count", ~EditAt(e, "count"),
             edit' = [edit EXCEPT ![e].at = at]
      PROVE  \E q : EditBecomes(e, q) /\ q.at # "count"
  BY <1>g, GoesOn
<1>r. ASSUME NEW e \in Editors, Retire(e) PROVE \E q : EditBecomes(e, q) /\ q.at # "count"
  BY <1>r, RetireBecomes
<1>1. ASSUME NEW e \in Editors, NEW ch \in Channels, SubscribeLoad(e, ch) PROVE TotalCountsMembers'
  <2>1. {ch} \in SUBSET Channels /\ "subscribe" \in EditSteps
    BY DEF EditSteps
  <2>2. QED
    BY <1>1, <1>t, <2>1, CountStarts DEF SubscribeLoad
<1>2. ASSUME NEW e \in Editors, NEW ch \in Channels, UnsubscribeLoad(e, ch) PROVE TotalCountsMembers'
  <2>1. {ch} \in SUBSET Channels /\ {} \in SUBSET Languages /\ "unsubscribe" \in EditSteps
    BY DEF EditSteps
  <2>2. QED
    BY <1>2, <2>1, CountStarts DEF UnsubscribeLoad
<1>3. ASSUME NEW e \in Editors, SubscribeCommit(e) PROVE TotalCountsMembers'
  <2>1. /\ "sync subscribe" \in EditSteps /\ ~EditAt(e, "count") /\ ~EditAt(e, "rebuild")
        /\ UNCHANGED <<members, subsTotal, miscounted>>
    BY <1>3 DEF SubscribeCommit, EditSteps, EditAt
  <2>2. \E q : EditBecomes(e, q) /\ q.at # "count"
    BY <1>3, <1>g, <1>r, <2>1 DEF SubscribeCommit
  <2>3. QED
    BY <2>1, <2>2, CountGoesOn
<1>4. ASSUME NEW e \in Editors, SyncSubscribe(e) PROVE TotalCountsMembers'
  <2> DEFINE joined == Memberships(edit[e].channels, edit[e].languages)
  <2>1. joined \in SUBSET Everything /\ {} \in SUBSET Everything
    BY <1>t, MembershipsType
  <2>2. Rewrite(e, joined, {}) /\ ~EditAt(e, "count") /\ ~EditAt(e, "rebuild")
    BY <1>4 DEF SyncSubscribe, EditAt
  <2>3. Apart(joined, {})
    BY DEF Apart
  <2> HIDE DEF joined
  <2>4. QED
    BY <1>t, <2>1, <2>2, <2>3, CountRewritten
<1>5. ASSUME NEW e \in Editors, UnsubscribeCommit(e) PROVE TotalCountsMembers'
  <2>1. /\ "sync unsubscribe" \in EditSteps /\ ~EditAt(e, "count") /\ ~EditAt(e, "rebuild")
        /\ UNCHANGED <<members, subsTotal, miscounted>>
    BY <1>5 DEF UnsubscribeCommit, EditSteps, EditAt
  <2>2. \E q : EditBecomes(e, q) /\ q.at # "count"
    BY <1>5, <1>g, <2>1 DEF UnsubscribeCommit
  <2>3. QED
    BY <2>1, <2>2, CountGoesOn
<1>6. ASSUME NEW e \in Editors, SyncUnsubscribe(e) PROVE TotalCountsMembers'
  <2> DEFINE left == Memberships(edit[e].channels, Languages)
  <2>1. left \in SUBSET Everything /\ {} \in SUBSET Everything
    <3>1. Languages \in SUBSET Languages
      OBVIOUS
    <3>2. QED
      BY <1>t, <3>1, MembershipsType
  <2>2. Rewrite(e, {}, left) /\ ~EditAt(e, "count") /\ ~EditAt(e, "rebuild")
    BY <1>6 DEF SyncUnsubscribe, EditAt
  <2>3. Apart({}, left)
    BY DEF Apart
  <2> HIDE DEF left
  <2>4. QED
    BY <1>t, <2>1, <2>2, <2>3, CountRewritten
<1>7. ASSUME NEW e \in Editors, NEW languages \in (SUBSET Languages) \ {{}}, LanguagesLoad(e, languages)
      PROVE  TotalCountsMembers'
  <2> DEFINE at == IF languages = reader.languages THEN "languages" ELSE "change languages"
  <2>1. at \in EditSteps /\ at # "count" /\ {} \in SUBSET Channels /\ languages \in SUBSET Languages
    BY DEF EditSteps
  <2>2. StartEdit(e, at, {}, languages) /\ UNCHANGED <<reader, members, subsTotal, miscounted>>
    BY <1>7 DEF LanguagesLoad
  <2> HIDE DEF at
  <2>3. QED
    BY <2>1, <2>2, CountStarts
<1>8. ASSUME NEW e \in Editors, LanguagesCommit(e) PROVE TotalCountsMembers'
  <2>1. /\ "languages" \in EditSteps /\ ~EditAt(e, "count") /\ ~EditAt(e, "rebuild")
        /\ UNCHANGED <<members, subsTotal, miscounted>>
    BY <1>8 DEF LanguagesCommit, EditSteps, EditAt
  <2>2. \E q : EditBecomes(e, q) /\ q.at # "count"
    BY <1>8, <1>g, <1>r, <2>1 DEF LanguagesCommit
  <2>3. QED
    BY <2>1, <2>2, CountGoesOn
<1>9. ASSUME NEW e \in Editors, LanguagesChannels(e) PROVE TotalCountsMembers'
  <2>1. /\ ~EditAt(e, "count") /\ ~EditAt(e, "rebuild")
        /\ UNCHANGED <<members, subsTotal, miscounted>>
    BY <1>9 DEF LanguagesChannels, EditAt
  <2>2. \E q : EditBecomes(e, q) /\ q.at # "count"
    BY <1>9, LoadsChannels
  <2>3. QED
    BY <2>1, <2>2, CountGoesOn
<1>10. ASSUME NEW e \in Editors, SyncContentLanguages(e) PROVE TotalCountsMembers'
  <2> DEFINE joined == edit[e].channels \X edit[e].languages
             left == edit[e].channels \X (Languages \ edit[e].languages)
  <2>1. joined \in SUBSET Everything /\ left \in SUBSET Everything
    BY <1>t, MembershipsType
  <2>2. Rewrite(e, joined, left) /\ ~EditAt(e, "count") /\ ~EditAt(e, "rebuild")
    BY <1>10 DEF SyncContentLanguages, EditAt
  <2>3. Apart(joined, left)
    BY DEF Apart
  <2> HIDE DEF joined, left
  <2>4. QED
    BY <1>t, <2>1, <2>2, <2>3, CountRewritten
<1>11. ASSUME NEW e \in Editors, DeletionReads(e) PROVE TotalCountsMembers'
  <2>1. {} \in SUBSET Languages /\ "delete" \in EditSteps
    BY DEF EditSteps
  <2>2. QED
    BY <1>11, <1>t, <2>1, CountStarts DEF DeletionReads
<1>12. ASSUME NEW e \in Editors, DeletionCommit(e) PROVE TotalCountsMembers'
  <2>1. /\ "purge" \in EditSteps /\ ~EditAt(e, "count") /\ ~EditAt(e, "rebuild")
        /\ UNCHANGED <<members, subsTotal, miscounted>>
    BY <1>12 DEF DeletionCommit, EditSteps, EditAt
  <2>2. \E q : EditBecomes(e, q) /\ q.at # "count"
    BY <1>12, <1>g, <1>r, <2>1 DEF DeletionCommit
  <2>3. QED
    BY <2>1, <2>2, CountGoesOn
<1>13. ASSUME NEW e \in Editors, PurgeUser(e) PROVE TotalCountsMembers'
  <2> DEFINE left == Memberships(edit[e].channels, Languages)
  <2>1. left \in SUBSET Everything /\ {} \in SUBSET Everything
    <3>1. Languages \in SUBSET Languages
      OBVIOUS
    <3>2. QED
      BY <1>t, <3>1, MembershipsType
  <2>2. Rewrite(e, {}, left) /\ ~EditAt(e, "count") /\ ~EditAt(e, "rebuild")
    BY <1>13 DEF PurgeUser, EditAt
  <2>3. Apart({}, left)
    BY DEF Apart
  <2> HIDE DEF left
  <2>4. QED
    BY <1>t, <2>1, <2>2, <2>3, CountRewritten
<1>14. ASSUME NEW e \in Editors, CountChanged(e) PROVE TotalCountsMembers'
  BY <1>14, <1>t, CountCounted
<1>15. ASSUME NEW e \in Editors, RebuildReads(e) PROVE TotalCountsMembers'
  <2>1. "rebuild" \in EditSteps
    BY DEF EditSteps
  <2>2. QED
    BY <1>15, <1>t, <2>1, CountStarts DEF RebuildReads
<1>16. ASSUME NEW e \in Editors, RebuildAdds(e) PROVE TotalCountsMembers'
  <2>1. EditAt(e, "rebuild") /\ edit' = edit
    BY <1>16 DEF RebuildAdds
  <2>2. Rebuilding'
    BY <2>1 DEF Rebuilding, EditAt
  <2>3. QED
    BY <2>2 DEF TotalCountsMembers
<1>17. ASSUME NEW e \in Editors, RebuildTotals(e) PROVE TotalCountsMembers'
  <2> DEFINE rows == Memberships(edit[e].channels, edit[e].languages)
  <2>1. /\ Retire(e) /\ subsTotal' = Cardinality(rows)
        /\ miscounted' = (rows # members \/ OpenEdits # {e}) /\ members' = members
    BY <1>17 DEF RebuildTotals
  <2> HIDE DEF rows
  <2>2. edit'[e].at = "idle" /\ \A f \in Editors : f # e => edit'[f] = edit[f]
    BY <2>1, RetireBecomes, EditsAfter
  <2>3. ASSUME ~miscounted' PROVE OpenEdits' = {} /\ subsTotal' = Cardinality(members')
    BY <2>1, <2>2, <2>3 DEF OpenEdits, EditAt
  <2>4. QED
    BY <1>t, <2>3, CountAnew
<1>18. ASSUME NEW e \in Editors, EditorDies(e) PROVE TotalCountsMembers'
  <2>1. /\ Retire(e) /\ UNCHANGED <<members, subsTotal>>
        /\ miscounted' = (miscounted \/ EditAt(e, "count") \/ EditAt(e, "rebuild"))
    BY <1>18 DEF EditorDies
  <2>2. CASE EditAt(e, "count")
    <3>1. miscounted'
      BY <2>1, <2>2, Zenon
    <3>2. QED
      BY <3>1 DEF TotalCountsMembers
  <2>3. CASE ~EditAt(e, "count")
    <3>1. EditBecomes(e, NoEdit) /\ NoEdit.at # "count"
      BY <2>1, RetireBecomes
    <3>2. (~miscounted' => ~miscounted) /\ (EditAt(e, "rebuild") => miscounted')
      BY <2>1, Zenon
    <3>3. QED
      BY <2>1, <2>3, <3>1, <3>2, CountUntouched
  <2>4. QED
    BY <2>2, <2>3
<1>19. ASSUME RedisLoss PROVE TotalCountsMembers'
  <2>1. /\ members' = {} /\ subsTotal' = 0 /\ miscounted' = (OpenEdits # {}) /\ edit' = edit
    BY <1>19 DEF RedisLoss
  <2>2. OpenEdits' = OpenEdits
    BY <2>1 DEF OpenEdits, EditAt
  <2>3. Cardinality(members') = 0
    BY <2>1, FS_EmptySet
  <2>4. QED
    BY <1>t, <2>1, <2>2, <2>3, CountAnew
<1>20. CASE UNCHANGED audienceVars
  <2>1. UNCHANGED <<members, subsTotal, edit, miscounted>>
    BY <1>20 DEF audienceVars
  <2>2. Joined' = Joined /\ Left' = Left /\ Rebuilding' = Rebuilding
    BY <2>1 DEF Joined, Left, Uncounted, Rebuilding, EditAt
  <2>3. QED
    BY <2>1, <2>2 DEF TotalCountsMembers
<1>21. QED
  BY <1>1, <1>2, <1>3, <1>4, <1>5, <1>6, <1>7, <1>8, <1>9, <1>10, <1>11, <1>12, <1>13, <1>14,
     <1>15, <1>16, <1>17, <1>18, <1>19, <1>20 DEF AudienceNext

\* The price's denominator counts the memberships in the sets, those of edits between their MULTI
\* and their count apart, but for a death in that window and a rebuild over other edits.
THEOREM TotalIsCount == AudienceSpec => []TotalCountsMembers
<1>1. AudienceInit => TotalCountsMembers
  <2> SUFFICES ASSUME AudienceInit PROVE TotalCountsMembers
    OBVIOUS
  <2>1. edit = [e \in Editors |-> NoEdit] /\ members = {} /\ subsTotal = 0
    BY DEF AudienceInit
  <2>2. \A e \in Editors : edit[e].joined = {} /\ edit[e].left = {}
    BY <2>1, NoEditType
  <2>3. Cardinality(members) = 0 /\ Cardinality(Joined) = 0 /\ Cardinality(Left) = 0
    BY <2>1, <2>2, NobodyCounts, FS_EmptySet
  <2>4. QED
    BY <2>1, <2>3 DEF TotalCountsMembers
<1>2. AudienceSpec => []AudienceTypeOK
  BY AudienceTypeInit, AudienceTypeStep, PTL DEF AudienceSpec
<1>3. QED
  BY <1>1, <1>2, CountStep, PTL DEF AudienceSpec

=============================================================================
