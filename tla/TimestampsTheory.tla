------------------------- MODULE TimestampsTheory -------------------------
(***************************************************************************)
(* Facts about Timestamps for every time and every number of fraction      *)
(* digits: parsing undoes formatting, the texts are totally ordered, and   *)
(* how far their order agrees with the clock.                              *)
(*                                                                         *)
(* The provers cannot instantiate an induction theorem over a predicate,   *)
(* so induction is over sets of numbers, from the well-foundedness of <.   *)
(***************************************************************************)
EXTENDS Timestamps, SequenceTheorems, WellFoundedInduction, TLAPS

---------------------------------------------------------------------------
(* Numbers.                                                                *)

\* A non-empty set of natural numbers has a least element.
LEMMA LeastNumber ==
    ASSUME NEW S, S \subseteq Nat, S # {}
    PROVE  \E n \in S : \A m \in S : n <= m
<1> DEFINE R == OpToRel(<, Nat)
<1>1. IsWellFoundedOn(R, Nat)
    BY NatLessThanWellFounded
<1> HIDE DEF R
<1>2. PICK x \in S : \A y \in S : ~(<<y, x>> \in R)
    BY <1>1, WFMin
<1>3. \A y \in S : ~(y < x)
    BY <1>2, Zenon DEF R, OpToRel
<1> QED BY <1>3

\* Induction: a set that has 0 and, below n, the successor of what it has,
\* has every number up to n.
LEMMA UpTo ==
    ASSUME NEW n \in Nat, NEW S, 0 \in S, \A i \in 0..(n - 1) : i \in S => i + 1 \in S
    PROVE  \A i \in 0..n : i \in S
<1> DEFINE T == (0..n) \ S
<1>1. SUFFICES ASSUME T # {} PROVE FALSE
    OBVIOUS
<1>2. PICK x \in T : \A y \in T : x <= y
    <2>1. T \subseteq Nat
        OBVIOUS
    <2> HIDE DEF T
    <2> QED BY <1>1, <2>1, LeastNumber
<1>3. x # 0 /\ x - 1 \in 0..(n - 1)
    OBVIOUS
<1>4. x - 1 \in S
    BY <1>2, <1>3
<1> QED BY <1>3, <1>4

\* The recursion that defines Power has a solution.
LEMMA PowerExists ==
    \E g : g = [n \in 0..FracDigits |-> IF n = 0 THEN 1 ELSE 10 * g[n - 1]]
<1> DEFINE S == {n \in Nat : \E g : g = [i \in 0..n |-> IF i = 0 THEN 1 ELSE 10 * g[i - 1]]}
<1>1. 0 \in S
    <2> DEFINE g == [i \in 0..0 |-> 1]
    <2>1. g = [i \in 0..0 |-> IF i = 0 THEN 1 ELSE 10 * g[i - 1]]
        OBVIOUS
    <2> QED BY <2>1
<1>2. ASSUME NEW n \in Nat, n \in S
      PROVE  n + 1 \in S
    <2>1. PICK g : g = [i \in 0..n |-> IF i = 0 THEN 1 ELSE 10 * g[i - 1]]
        BY <1>2
    <2> DEFINE h == [i \in 0..(n + 1) |-> IF i = n + 1 THEN 10 * g[n] ELSE g[i]]
    <2>2. ASSUME NEW i \in 0..(n + 1)
          PROVE  h[i] = IF i = 0 THEN 1 ELSE 10 * h[i - 1]
        <3>1. CASE i = 0
            BY <2>1, <3>1
        <3>2. CASE i = n + 1
            BY <3>2
        <3>3. CASE i \in 1..n
            BY <2>1, <3>3
        <3> QED BY <3>1, <3>2, <3>3
    <2>3. h = [i \in 0..(n + 1) |-> IF i = 0 THEN 1 ELSE 10 * h[i - 1]]
        BY <2>2
    <2> HIDE DEF h
    <2> QED BY <2>3
<1> HIDE DEF S
<1>3. FracDigits \in S
    BY <1>1, <1>2, UpTo, FracDigitsAssumption
<1> QED BY <1>3 DEF S

\* Power satisfies its recursion.
LEMMA PowerUnfolds ==
    /\ Power[0] = 1
    /\ \A n \in 1..FracDigits : Power[n] = 10 * Power[n - 1]
<1>1. Power = [n \in 0..FracDigits |-> IF n = 0 THEN 1 ELSE 10 * Power[n - 1]]
    BY PowerExists, Zenon DEF Power
<1>2. ASSUME NEW n \in 0..FracDigits
      PROVE  Power[n] = IF n = 0 THEN 1 ELSE 10 * Power[n - 1]
    BY <1>1, Zenon
<1> QED BY <1>2, FracDigitsAssumption

\* Powers of ten are positive.
LEMMA PowerType == \A n \in 0..FracDigits : Power[n] \in Nat \ {0}
<1> DEFINE S == {n \in 0..FracDigits : Power[n] \in Nat \ {0}}
<1>1. 0 \in S
    BY PowerUnfolds, FracDigitsAssumption
<1>2. ASSUME NEW n \in 0..(FracDigits - 1), n \in S
      PROVE  n + 1 \in S
    BY <1>2, PowerUnfolds, FracDigitsAssumption
<1> HIDE DEF S
<1> QED BY <1>1, <1>2, UpTo, FracDigitsAssumption DEF S

\* A second has at least one tick.
LEMMA TicksType == TicksPerSecond \in Nat \ {0}
BY PowerType, FracDigitsAssumption DEF TicksPerSecond

\* Division with remainder.
LEMMA DivMod ==
    ASSUME NEW t \in Nat, NEW d \in Nat \ {0}
    PROVE  /\ t = d * (t \div d) + (t % d)
           /\ t \div d \in Nat /\ t % d \in 0..(d - 1)
OBVIOUS

\* It has one result.
LEMMA DivUnique ==
    ASSUME NEW d \in Nat \ {0}, NEW q \in Nat, NEW r \in 0..(d - 1)
    PROVE  (d * q + r) \div d = q /\ (d * q + r) % d = r
<1> DEFINE t == d * q + r
<1>1. t \in Nat
    OBVIOUS
<1>2. t = d * (t \div d) + (t % d) /\ t \div d \in Nat /\ t % d \in 0..(d - 1)
    BY <1>1, DivMod
<1>3. ASSUME NEW x \in Int, x >= 1
      PROVE  d * x >= d
    BY <1>3
<1>4. d * (q - (t \div d)) = (t % d) - r
    BY <1>2
<1>5. ~(q - (t \div d) >= 1)
    BY <1>2, <1>3, <1>4
<1>6. ~((t \div d) - q >= 1)
    <2>1. d * ((t \div d) - q) = r - (t % d)
        BY <1>2
    <2> QED BY <1>2, <1>3, <2>1
<1>7. q = t \div d
    BY <1>2, <1>5, <1>6
<1> QED BY <1>2, <1>7

\* Dividing by ten after dividing by d is dividing by their product.
LEMMA NestedDiv ==
    ASSUME NEW f \in Nat, NEW d \in Nat \ {0}
    PROVE  f \div d = 10 * (f \div (10 * d)) + ((f \div d) % 10)
<1> DEFINE q == f \div d
           r == f % d
           a == q \div 10
           b == q % 10
<1>1. f = d * q + r /\ q \in Nat /\ r \in 0..(d - 1)
    BY DivMod
<1>2. q = 10 * a + b /\ a \in Nat /\ b \in 0..9
    BY <1>1, DivMod
<1> HIDE DEF q, r, a, b
<1>3. 10 * d \in Nat \ {0} /\ d * b + r \in 0..(10 * d - 1)
    <2>1. d * b <= d * 9 /\ d * b >= 0
        BY <1>2
    <2> QED BY <1>1, <1>2, <2>1
<1>4. f = (10 * d) * a + (d * b + r)
    BY <1>1, <1>2
<1>5. f \div (10 * d) = a
    BY <1>2, <1>3, <1>4, DivUnique
<1> QED BY <1>2, <1>5 DEF q, b

---------------------------------------------------------------------------
(* The digits of a fraction.                                               *)

\* The first i digits, read as a number, are the fraction without its others.
Leading(f, i) == f \div Power[FracDigits - i]

\* A digit is the last one of the number that the digits up to it make.
LEMMA LeadingGrows ==
    ASSUME NEW f \in Nat, NEW i \in 1..FracDigits
    PROVE  /\ Leading(f, i) = 10 * Leading(f, i - 1) + (Digit(f, i) - Zero)
           /\ Digit(f, i) \in Zero..(Zero + 9)
           /\ Leading(f, i) \in Nat /\ Leading(f, i - 1) \in Nat
<1> DEFINE d == Power[FracDigits - i]
<1>1. d \in Nat \ {0} /\ Power[FracDigits - (i - 1)] = 10 * d
    BY PowerType, PowerUnfolds, FracDigitsAssumption
<1> HIDE DEF d
<1>2. Leading(f, i) = f \div d /\ Leading(f, i - 1) = f \div (10 * d)
    BY <1>1 DEF Leading, d
<1>3. Digit(f, i) = Zero + ((f \div d) % 10)
    BY DEF Digit, d
<1>4. /\ f \div d \in Nat /\ f \div (10 * d) \in Nat
      /\ (f \div d) % 10 \in 0..9
    <2>1. f \div d \in Nat
        BY <1>1, DivMod
    <2>2. 10 * d \in Nat \ {0}
        BY <1>1
    <2>3. f \div (10 * d) \in Nat
        BY <2>2, DivMod
    <2>4. 10 \in Nat \ {0} /\ 10 - 1 = 9
        OBVIOUS
    <2>5. (f \div d) % 10 \in 0..9
        BY <2>1, <2>4, DivMod
    <2> QED BY <2>1, <2>3, <2>5
<1>5. f \div d = 10 * (f \div (10 * d)) + ((f \div d) % 10)
    BY <1>1, NestedDiv
<1> QED BY <1>2, <1>3, <1>4, <1>5 DEF Zero

\* No digit makes no number, and all of them make the fraction.
LEMMA LeadingEnds ==
    ASSUME NEW f \in 0..(TicksPerSecond - 1)
    PROVE  Leading(f, 0) = 0 /\ Leading(f, FracDigits) = f
<1>1. Power[FracDigits] \in Nat \ {0} /\ f \in 0..(Power[FracDigits] - 1)
    BY TicksType DEF TicksPerSecond
<1>2. f = Power[FracDigits] * 0 + f
    BY <1>1
<1>3. f \div Power[FracDigits] = 0
    BY <1>1, <1>2, DivUnique
<1>4. f \div Power[0] = f
    BY <1>1, PowerUnfolds
<1> QED BY <1>3, <1>4, FracDigitsAssumption DEF Leading

\* The zeros at the end can be dropped.
LEMMA SignificantDigits ==
    ASSUME NEW f \in Nat
    PROVE  /\ Significant(f) \in 0..FracDigits
           /\ \A i \in (Significant(f) + 1)..FracDigits : Digit(f, i) = Zero
           /\ Significant(f) > 0 => Digit(f, Significant(f)) # Zero
<1> DEFINE Enough == {n \in 0..FracDigits : \A i \in (n + 1)..FracDigits : Digit(f, i) = Zero}
<1>1. FracDigits \in Enough /\ Enough \subseteq Nat
    BY FracDigitsAssumption
<1>2. PICK n \in Enough : \A m \in Enough : n <= m
    <2> HIDE DEF Enough
    <2> QED BY <1>1, LeastNumber
<1>3. n > 0 => Digit(f, n) # Zero
    <2> SUFFICES ASSUME n > 0, Digit(f, n) = Zero PROVE FALSE
        OBVIOUS
    <2>1. n - 1 \in Enough
        BY FracDigitsAssumption
    <2> QED BY <1>2, <2>1, FracDigitsAssumption
<1>4. \E m \in 0..FracDigits :
          /\ \A i \in (m + 1)..FracDigits : Digit(f, i) = Zero
          /\ m > 0 => Digit(f, m) # Zero
    BY <1>2, <1>3
<1> QED BY <1>4, Zenon DEF Significant

\* Without the zeros at the end the fraction is a multiple of its last place.
LEMMA TrailingZeros ==
    ASSUME NEW f \in Nat
    PROVE  LET n == Significant(f) IN f = Leading(f, n) * Power[FracDigits - n]
<1> DEFINE n == Significant(f)
           S == {j \in 0..(FracDigits - n) : f = (f \div Power[j]) * Power[j]}
<1>1. n \in 0..FracDigits /\ \A i \in (n + 1)..FracDigits : Digit(f, i) = Zero
    BY SignificantDigits
<1> HIDE DEF n
<1>2. 0 \in S
    BY <1>1, PowerUnfolds, FracDigitsAssumption
<1>3. ASSUME NEW j \in 0..(FracDigits - n - 1), j \in S
      PROVE  j + 1 \in S
    <2> DEFINE i == FracDigits - j
    <2>1. i \in (n + 1)..FracDigits /\ i \in 1..FracDigits /\ Digit(f, i) = Zero
        BY <1>1, FracDigitsAssumption
    <2>2. Leading(f, i) = 10 * Leading(f, i - 1) /\ Leading(f, i - 1) \in Nat
        BY <2>1, LeadingGrows DEF Zero
    <2>3. /\ Leading(f, i) = f \div Power[j] /\ Leading(f, i - 1) = f \div Power[j + 1]
        BY <1>1, FracDigitsAssumption DEF Leading
    <2>4. Power[j] \in Nat \ {0} /\ Power[j + 1] = 10 * Power[j]
        BY <1>1, PowerType, PowerUnfolds, FracDigitsAssumption
    <2>5. f = (f \div Power[j]) * Power[j]
        BY <1>3
    <2>6. f = (f \div Power[j + 1]) * Power[j + 1]
        <3> DEFINE q == f \div Power[j + 1]
                   e == Power[j]
        <3>1. q \in Nat /\ e \in Nat /\ f = (10 * q) * e /\ Power[j + 1] = 10 * e
            BY <2>2, <2>3, <2>4, <2>5
        <3> HIDE DEF q, e
        <3>2. f = q * (10 * e)
            BY <3>1
        <3> QED BY <3>1, <3>2 DEF q
    <2> QED BY <1>1, <2>6, FracDigitsAssumption
<1> HIDE DEF S
<1>4. FracDigits - n \in S
    BY <1>1, <1>2, <1>3, UpTo, FracDigitsAssumption
<1> QED BY <1>4 DEF S, Leading, n

---------------------------------------------------------------------------
(* Formatting and parsing.                                                 *)

\* The significant digits of a fraction.
Digits(f) == [i \in 1..Significant(f) |-> Digit(f, i)]

\* They are a sequence of characters.
LEMMA DigitsType ==
    ASSUME NEW f \in Nat
    PROVE  Digits(f) \in Seq(Nat) /\ Len(Digits(f)) = Significant(f)
<1>1. Significant(f) \in 0..FracDigits
    BY SignificantDigits
<1>2. ASSUME NEW i \in 1..Significant(f)
      PROVE  Digit(f, i) \in Nat
    <2>1. i \in 1..FracDigits
        BY <1>1, FracDigitsAssumption
    <2>2. Digit(f, i) \in Zero..(Zero + 9)
        BY <2>1, LeadingGrows
    <2> QED BY <2>2 DEF Zero
<1> QED BY <1>1, <1>2, FracDigitsAssumption DEF Digits

\* A solution of the recursion that reads digits as a number is Leading.
LEMMA ReadDigits ==
    ASSUME NEW f \in 0..(TicksPerSecond - 1), NEW g,
           g = [i \in 0..Significant(f) |->
                   IF i = 0 THEN 0 ELSE 10 * g[i - 1] + (Digits(f)[i] - Zero)]
    PROVE  \A i \in 0..Significant(f) : g[i] = Leading(f, i)
<1> DEFINE n == Significant(f)
           S == {i \in 0..n : g[i] = Leading(f, i)}
<1>1. n \in 0..FracDigits /\ f \in Nat
    BY SignificantDigits, TicksType
<1>2. ASSUME NEW i \in 0..n
      PROVE  g[i] = IF i = 0 THEN 0 ELSE 10 * g[i - 1] + (Digits(f)[i] - Zero)
    BY Zenon
<1> HIDE DEF n
<1>3. 0 \in S
    BY <1>1, <1>2, LeadingEnds, FracDigitsAssumption
<1>4. ASSUME NEW i \in 0..(n - 1), i \in S
      PROVE  i + 1 \in S
    <2>1. i + 1 \in 1..FracDigits /\ i + 1 \in 1..n /\ i + 1 \in 0..n /\ (i + 1) - 1 = i
        BY <1>1, FracDigitsAssumption
    <2>2. Digits(f)[i + 1] = Digit(f, i + 1)
        BY <2>1 DEF Digits, n
    <2>3. g[i + 1] = 10 * g[i] + (Digits(f)[i + 1] - Zero)
        <3>1. i + 1 # 0
            BY <2>1
        <3> QED BY <1>2, <2>1, <3>1
    <2>4. Leading(f, i + 1) = 10 * Leading(f, i) + (Digit(f, i + 1) - Zero)
        BY <1>1, <2>1, LeadingGrows
    <2> QED BY <1>4, <2>1, <2>2, <2>3, <2>4
<1> HIDE DEF S
<1>5. n \in Nat
    BY <1>1
<1>6. \A i \in 0..n : i \in S
    BY <1>3, <1>4, <1>5, UpTo
<1> QED BY <1>6, Zenon DEF S, n

\* The recursion has a solution.
LEMMA ReadExists ==
    ASSUME NEW f \in 0..(TicksPerSecond - 1)
    PROVE  \E g : g = [i \in 0..Significant(f) |->
                          IF i = 0 THEN 0 ELSE 10 * g[i - 1] + (Digits(f)[i] - Zero)]
<1> DEFINE n == Significant(f)
           g == [i \in 0..n |-> Leading(f, i)]
<1>1. n \in 0..FracDigits /\ f \in Nat
    BY SignificantDigits, TicksType
<1>2. ASSUME NEW i \in 0..n
      PROVE  g[i] = IF i = 0 THEN 0 ELSE 10 * g[i - 1] + (Digits(f)[i] - Zero)
    <2>1. CASE i = 0
        BY <2>1, LeadingEnds
    <2>2. CASE i # 0
        <3>1. i \in 1..FracDigits /\ i \in 1..n /\ i - 1 \in 0..n
            BY <1>1, <2>2, FracDigitsAssumption
        <3>2. Digits(f)[i] = Digit(f, i)
            BY <3>1 DEF Digits
        <3>3. g[i] = Leading(f, i) /\ g[i - 1] = Leading(f, i - 1)
            BY <3>1
        <3> QED BY <1>1, <2>2, <3>1, <3>2, <3>3, LeadingGrows
    <2> QED BY <2>1, <2>2
<1>3. g = [i \in 0..n |-> IF i = 0 THEN 0 ELSE 10 * g[i - 1] + (Digits(f)[i] - Zero)]
    BY <1>2
<1> HIDE DEF g
<1> QED BY <1>3

\* Reading the significant digits gives the fraction back.
LEMMA ParseDigits ==
    ASSUME NEW f \in 0..(TicksPerSecond - 1)
    PROVE  ParseFrac(Digits(f)) = f
<1> DEFINE n == Significant(f)
           g == CHOOSE h : h = [i \in 0..n |-> IF i = 0 THEN 0 ELSE 10 * h[i - 1] + (Digits(f)[i] - Zero)]
<1>1. f \in Nat /\ n \in 0..FracDigits /\ Len(Digits(f)) = n
    BY DigitsType, SignificantDigits, TicksType
<1>2. ParseFrac(Digits(f)) = g[n] * Power[FracDigits - n]
    BY <1>1, Zenon DEF ParseFrac
<1>3. g = [i \in 0..n |-> IF i = 0 THEN 0 ELSE 10 * g[i - 1] + (Digits(f)[i] - Zero)]
    BY ReadExists, Zenon
<1> HIDE DEF g
<1>4. \A i \in 0..n : g[i] = Leading(f, i)
    BY <1>3, ReadDigits, Zenon
<1>5. g[n] = Leading(f, n)
    BY <1>1, <1>4
<1> QED BY <1>1, <1>2, <1>5, TrailingZeros

\* Seconds and fraction of a time.
LEMMA TimeSplit ==
    ASSUME NEW t \in Nat
    PROVE  /\ t = Sec(t) * TicksPerSecond + Frac(t)
           /\ Sec(t) \in Nat /\ Frac(t) \in 0..(TicksPerSecond - 1) /\ Frac(t) \in Nat
<1> DEFINE d == TicksPerSecond
<1>1. d \in Nat \ {0}
    BY TicksType
<1> HIDE DEF d
<1>2. t = d * (t \div d) + (t % d) /\ t \div d \in Nat /\ t % d \in 0..(d - 1)
    BY <1>1, DivMod
<1>3. t % d \in Nat /\ d * (t \div d) = (t \div d) * d
    BY <1>1, <1>2
<1> QED BY <1>2, <1>3 DEF Sec, Frac, d

\* A time on a second is the second and the zone.
LEMMA WholeSecondText ==
    ASSUME NEW t \in Nat, Frac(t) = 0
    PROVE  Format(t) = <<Sec(t), Zulu>>
<1>1. Sec(t) \in Nat /\ Zulu \in Nat
    BY TimeSplit DEF Zulu
<1>2. Format(t) = <<Sec(t)>> \o <<>> \o <<Zulu>>
    BY DEF Format, FracText
<1>3. <<Sec(t)>> \in Seq(Nat)
    BY <1>1
<1>4. <<Sec(t)>> \o <<>> = <<Sec(t)>>
    BY <1>3, ConcatEmptySeq
<1>5. <<Sec(t)>> \o <<Zulu>> = <<Sec(t), Zulu>>
    <2>1. <<Zulu>> \in Seq(Nat) /\ <<Sec(t), Zulu>> \in Seq(Nat)
        BY <1>1
    <2>2. /\ <<Sec(t)>> \o <<Zulu>> \in Seq(Nat) /\ Len(<<Sec(t)>> \o <<Zulu>>) = 2
          /\ (<<Sec(t)>> \o <<Zulu>>)[1] = Sec(t) /\ (<<Sec(t)>> \o <<Zulu>>)[2] = Zulu
        BY <1>3, <2>1
    <2>3. \A i \in 1..2 : (<<Sec(t)>> \o <<Zulu>>)[i] = <<Sec(t), Zulu>>[i]
        BY <2>2
    <2> QED BY <2>1, <2>2, <2>3, SeqEqual
<1> QED BY <1>2, <1>4, <1>5

\* Any other has the point and the digits in between.
LEMMA FractionText ==
    ASSUME NEW t \in Nat, Frac(t) # 0
    PROVE  LET n == Significant(Frac(t)) IN
           /\ n \in Nat /\ Format(t) \in Seq(Nat) /\ Len(Format(t)) = n + 3
           /\ Format(t)[1] = Sec(t) /\ Format(t)[2] = Point /\ Format(t)[n + 3] = Zulu
           /\ \A i \in 1..n : Format(t)[i + 2] = Digits(Frac(t))[i]
<1> DEFINE D == Digits(Frac(t))
           n == Significant(Frac(t))
<1>1. Frac(t) \in Nat /\ Sec(t) \in Nat
    BY TimeSplit
<1>2. D \in Seq(Nat) /\ Len(D) = n
    BY <1>1, DigitsType
<1>3. Format(t) = <<Sec(t)>> \o (<<Point>> \o D) \o <<Zulu>>
    BY DEF Format, FracText, Digits
<1> HIDE DEF D, n
<1>4. Point \in Nat /\ Zulu \in Nat
    BY DEF Point, Zulu
<1> QED BY <1>1, <1>2, <1>3, <1>4 DEF D, n

\* time.Parse undoes Format, trimmed zeros included, for every time and every
\* number of fraction digits.
LEMMA ParseFormat ==
    ASSUME NEW t \in Nat
    PROVE  Parse(Format(t)) = t
<1>1. t = Sec(t) * TicksPerSecond + Frac(t) /\ Sec(t) \in Nat /\ Frac(t) \in 0..(TicksPerSecond - 1)
    BY TimeSplit
<1>2. CASE Frac(t) = 0
    BY <1>1, <1>2, WholeSecondText, TicksType DEF Parse, Point, Zulu
<1>3. CASE Frac(t) # 0
    <2> DEFINE n == Significant(Frac(t))
               s == Format(t)
               D == Digits(Frac(t))
    <2>1. /\ n \in Nat /\ s \in Seq(Nat) /\ Len(s) = n + 3 /\ s[1] = Sec(t) /\ s[2] = Point
          /\ \A i \in 1..n : s[i + 2] = D[i]
        BY <1>3, FractionText
    <2>2. D \in Seq(Nat) /\ Len(D) = n
        BY <1>1, TicksType, DigitsType
    <2> HIDE DEF n, s, D
    <2>3. SubSeq(s, 3, Len(s) - 1) = D
        <3>1. SubSeq(s, 3, Len(s) - 1) \in Seq(Nat) /\ Len(SubSeq(s, 3, Len(s) - 1)) = n
            BY <2>1
        <3>2. \A i \in 1..n : SubSeq(s, 3, Len(s) - 1)[i] = D[i]
            BY <2>1
        <3> QED BY <2>2, <3>1, <3>2, SeqEqual
    <2>4. ParseFrac(D) = Frac(t)
        BY <1>1, ParseDigits DEF D
    <2> QED BY <1>1, <2>1, <2>3, <2>4 DEF Parse, s
<1> QED BY <1>2, <1>3

\* No two times share a text.
LEMMA FormatInjective ==
    ASSUME NEW t \in Nat, NEW u \in Nat, Format(t) = Format(u)
    PROVE  t = u
BY ParseFormat

\* How a text begins.
LEMMA FormatType ==
    ASSUME NEW t \in Nat
    PROVE  /\ Format(t) \in Seq(Nat) /\ Len(Format(t)) >= 2
           /\ Format(t)[1] = Sec(t)
           /\ Frac(t) = 0 => Len(Format(t)) = 2 /\ Format(t)[2] = Zulu
           /\ Frac(t) # 0 => Format(t)[2] = Point
<1>1. CASE Frac(t) = 0
    <2>1. Sec(t) \in Nat /\ Zulu \in Nat
        BY TimeSplit DEF Zulu
    <2>2. Format(t) = <<Sec(t), Zulu>>
        BY <1>1, WholeSecondText
    <2> QED BY <1>1, <2>1, <2>2
<1>2. CASE Frac(t) # 0
    BY <1>2, FractionText
<1> QED BY <1>1, <1>2

---------------------------------------------------------------------------
(* The order of the texts.                                                 *)

\* The byte order is asymmetric.
LEMMA LexAsymmetric ==
    ASSUME NEW s \in Seq(Nat), NEW u \in Seq(Nat), LexLess(s, u)
    PROVE  ~LexLess(u, s)
<1> SUFFICES ASSUME LexLess(u, s) PROVE FALSE
    OBVIOUS
<1>1. PICK n \in 1..Len(u) :
          /\ \A i \in 1..(n - 1) : i <= Len(s) /\ s[i] = u[i]
          /\ n = Len(s) + 1 \/ (n <= Len(s) /\ s[n] < u[n])
    BY DEF LexLess
<1>2. PICK m \in 1..Len(s) :
          /\ \A i \in 1..(m - 1) : i <= Len(u) /\ u[i] = s[i]
          /\ m = Len(u) + 1 \/ (m <= Len(u) /\ u[m] < s[m])
    BY DEF LexLess
<1>3. Len(s) \in Nat /\ Len(u) \in Nat
    OBVIOUS
<1>4. CASE n < m
    <2>1. n \in 1..(m - 1) /\ n <= Len(s)
        BY <1>3, <1>4
    <2>2. u[n] = s[n] /\ s[n] \in Nat
        BY <1>2, <1>3, <2>1
    <2> QED BY <1>1, <1>3, <2>1, <2>2
<1>5. CASE m < n
    <2>1. m \in 1..(n - 1) /\ m <= Len(u)
        BY <1>3, <1>5
    <2>2. s[m] = u[m] /\ u[m] \in Nat
        BY <1>1, <1>3, <2>1
    <2> QED BY <1>2, <1>3, <2>1, <2>2
<1>6. CASE n = m
    <2>1. s[n] \in Nat /\ u[n] \in Nat
        BY <1>6
    <2> QED BY <1>1, <1>2, <1>3, <1>6, <2>1
<1> QED BY <1>3, <1>4, <1>5, <1>6

\* And total.
LEMMA LexTotal ==
    ASSUME NEW s \in Seq(Nat), NEW u \in Seq(Nat), s # u
    PROVE  LexLess(s, u) \/ LexLess(u, s)
<1> DEFINE Differ == {n \in Nat \ {0} : n > Len(s) \/ n > Len(u) \/ s[n] # u[n]}
<1>1. Len(s) \in Nat /\ Len(u) \in Nat
    OBVIOUS
<1>2. PICK n \in Differ : \A m \in Differ : n <= m
    <2>1. Differ \subseteq Nat /\ Len(s) + 1 \in Differ
        BY <1>1
    <2> HIDE DEF Differ
    <2> QED BY <2>1, LeastNumber
<1>3. ASSUME NEW i \in 1..(n - 1)
      PROVE  i <= Len(s) /\ i <= Len(u) /\ s[i] = u[i]
    BY <1>1, <1>2, <1>3
<1>4. n \in Nat \ {0} /\ n - 1 <= Len(s) /\ n - 1 <= Len(u)
    <2>1. CASE n = 1
        BY <1>1, <2>1
    <2>2. CASE n # 1
        BY <1>1, <1>3, <2>2
    <2> QED BY <2>1, <2>2
<1>5. CASE n = Len(s) + 1 /\ n = Len(u) + 1
    <2>1. s = u
        BY <1>1, <1>3, <1>5, SeqEqual
    <2> QED BY <2>1
<1>6. CASE n = Len(s) + 1 /\ n <= Len(u)
    <2>1. n \in 1..Len(u)
        BY <1>1, <1>4, <1>6
    <2>2. LexLess(s, u)
        BY <1>3, <1>6, <2>1, Zenon DEF LexLess
    <2> QED BY <2>2
<1>7. CASE n = Len(u) + 1 /\ n <= Len(s)
    <2>1. n \in 1..Len(s)
        BY <1>1, <1>4, <1>7
    <2>2. LexLess(u, s)
        BY <1>3, <1>7, <2>1, Zenon DEF LexLess
    <2> QED BY <2>2
<1>8. CASE n <= Len(s) /\ n <= Len(u)
    <2>1. s[n] # u[n] /\ s[n] \in Nat /\ u[n] \in Nat
        BY <1>1, <1>4, <1>8
    <2>2. CASE s[n] < u[n]
        <3>1. n \in 1..Len(u)
            BY <1>1, <1>4, <1>8
        <3>2. LexLess(s, u)
            BY <1>3, <1>8, <2>2, <3>1, Zenon DEF LexLess
        <3> QED BY <3>2
    <2>3. CASE u[n] < s[n]
        <3>1. n \in 1..Len(s)
            BY <1>1, <1>4, <1>8
        <3>2. LexLess(u, s)
            BY <1>3, <1>8, <2>3, <3>1, Zenon DEF LexLess
        <3> QED BY <3>2
    <2> QED BY <2>1, <2>2, <2>3
<1> QED BY <1>1, <1>4, <1>5, <1>6, <1>7, <1>8

\* Of two different times exactly one has the lesser text.
LEMMA TextOrder ==
    ASSUME NEW t \in Nat, NEW u \in Nat
    PROVE  /\ ~TextLess(t, t)
           /\ t # u => (TextLess(t, u) <=> ~TextLess(u, t))
<1>1. Format(t) \in Seq(Nat) /\ Format(u) \in Seq(Nat)
    BY FormatType
<1>2. t # u => Format(t) # Format(u)
    BY FormatInjective
<1> QED BY <1>1, <1>2, LexAsymmetric, LexTotal DEF TextLess

\* An earlier second has the lesser text.
LEMMA EarlierSecond ==
    ASSUME NEW t \in Nat, NEW u \in Nat, Sec(t) < Sec(u)
    PROVE  TextLess(t, u)
<1>1. /\ Format(t)[1] < Format(u)[1]
      /\ Len(Format(t)) >= 1 /\ Len(Format(u)) \in Nat /\ 1 <= Len(Format(u))
    <2>1. Format(t)[1] = Sec(t) /\ Format(u)[1] = Sec(u)
        BY FormatType
    <2>2. Format(t) \in Seq(Nat) /\ Len(Format(t)) >= 2 /\ Format(u) \in Seq(Nat) /\ Len(Format(u)) >= 2
        BY FormatType
    <2> QED BY <2>1, <2>2
<1>2. 1 \in 1..Len(Format(u)) /\ 1..(1 - 1) = {}
    BY <1>1
<1> QED BY <1>1, <1>2 DEF TextLess, LexLess

\* A lesser text is never that of a later second, and not that of the same
\* second when the time is on it.
LEMMA TextLessSeconds ==
    ASSUME NEW t \in Nat, NEW u \in Nat, TextLess(t, u)
    PROVE  Sec(t) <= Sec(u) /\ (Frac(t) = 0 => Sec(t) < Sec(u))
<1> DEFINE s == Format(t)
           v == Format(u)
<1>1. /\ s \in Seq(Nat) /\ v \in Seq(Nat) /\ Len(s) >= 2 /\ Len(v) >= 2
      /\ s[1] = Sec(t) /\ v[1] = Sec(u) /\ Sec(t) \in Nat /\ Sec(u) \in Nat
      /\ Frac(t) = 0 => Len(s) = 2 /\ s[2] = Zulu
      /\ v[2] \in {Zulu, Point} /\ (v[2] = Zulu => Len(v) <= 2)
    <2>1. Zulu # Point
        BY DEF Zulu, Point
    <2> QED BY <2>1, FormatType, TimeSplit
<1>2. PICK n \in 1..Len(v) :
          /\ \A i \in 1..(n - 1) : i <= Len(s) /\ s[i] = v[i]
          /\ n = Len(s) + 1 \/ (n <= Len(s) /\ s[n] < v[n])
    BY DEF TextLess, LexLess
<1> HIDE DEF s, v
<1>3. CASE n = 1
    BY <1>1, <1>2, <1>3
<1>4. CASE n = 2
    <2>1. s[1] = v[1] /\ s[2] < v[2]
        BY <1>1, <1>2, <1>4
    <2>2. Frac(t) # 0
        BY <1>1, <2>1 DEF Zulu, Point
    <2> QED BY <1>1, <2>1, <2>2
<1>5. CASE n > 2
    <2>1. 1 \in 1..(n - 1) /\ 2 \in 1..(n - 1) /\ ~(Len(v) <= 2)
        BY <1>1, <1>5
    <2>2. s[1] = v[1] /\ s[2] = v[2]
        BY <1>2, <2>1
    <2>3. v[2] # Zulu
        BY <1>1, <2>1, Zenon
    <2>4. Frac(t) # 0
        BY <1>1, <2>2, <2>3, Zenon
    <2> QED BY <1>1, <2>2, <2>4
<1> QED BY <1>1, <1>3, <1>4, <1>5

\* Later times have later seconds.
LEMMA SecMonotonic ==
    ASSUME NEW t \in Nat, NEW u \in Nat, t <= u
    PROVE  Sec(t) <= Sec(u)
BY TicksType DEF Sec

\* What a sweep that started by then may remove.
LEMMA SweepIsSweepable ==
    ASSUME NEW exp \in Nat, NEW at \in Nat, NEW t \in Nat, TextLess(exp, at), at <= t
    PROVE  Sweepable(exp, t)
<1>1. Sec(exp) <= Sec(at) /\ (Frac(exp) = 0 => Sec(exp) < Sec(at)) /\ Sec(at) <= Sec(t)
    BY TextLessSeconds, SecMonotonic
<1>2. Sec(exp) \in Nat /\ Sec(at) \in Nat /\ Sec(t) \in Nat
    BY TimeSplit
<1> QED BY <1>1, <1>2 DEF Sweepable

\* The tick on which a second begins.
LEMMA SecondBegins ==
    ASSUME NEW t \in Nat
    PROVE  LET b == Sec(t) * TicksPerSecond
           IN  b \in 0..t /\ Sec(b) = Sec(t) /\ Frac(b) = 0
<1> DEFINE d == TicksPerSecond
           q == Sec(t)
<1>1. d \in Nat \ {0} /\ q \in Nat /\ t = q * d + Frac(t) /\ Frac(t) \in Nat
    BY TicksType, TimeSplit
<1>2. (d * q + 0) \div d = q /\ (d * q + 0) % d = 0
    <2>1. 0 \in 0..(d - 1)
        BY <1>1
    <2> HIDE DEF d, q
    <2> QED BY <1>1, <2>1, DivUnique
<1>3. d * q + 0 = q * d /\ q * d \in Nat /\ q * d <= t
    <2> HIDE DEF d, q
    <2> QED BY <1>1
<1> QED BY <1>2, <1>3 DEF Sec, Frac

\* And some moment by then has a text above that of an expiry that is sweepable.
LEMMA SweepableIsSwept ==
    ASSUME NEW exp \in Nat, NEW t \in Nat, Sweepable(exp, t)
    PROVE  \E u \in 0..t : TextLess(exp, u)
<1> DEFINE b == Sec(t) * TicksPerSecond
<1>1. b \in 0..t /\ b \in Nat /\ Sec(b) = Sec(t) /\ Frac(b) = 0
    BY SecondBegins
<1> HIDE DEF b
<1>2. CASE Sec(exp) < Sec(t)
    BY <1>1, <1>2, EarlierSecond
<1>3. CASE ~(Sec(exp) < Sec(t))
    <2>1. Sec(exp) = Sec(b) /\ Frac(exp) # 0 /\ Sec(exp) \in Nat
        BY <1>1, <1>3, TimeSplit DEF Sweepable
    <2>2. /\ Format(exp)[1] = Format(b)[1] /\ Format(exp)[2] < Format(b)[2]
          /\ Len(Format(exp)) >= 2 /\ Len(Format(b)) \in Nat /\ Len(Format(b)) >= 2
        <3>1. Format(exp)[1] = Sec(exp) /\ Format(b)[1] = Sec(b)
            BY <1>1, FormatType
        <3>2. Format(exp)[2] = Point /\ Format(b)[2] = Zulu
            BY <1>1, <2>1, FormatType
        <3>3. Format(b) \in Seq(Nat) /\ Len(Format(b)) >= 2 /\ Len(Format(exp)) >= 2
            BY <1>1, FormatType
        <3> QED BY <2>1, <3>1, <3>2, <3>3 DEF Point, Zulu
    <2>3. 2 \in 1..Len(Format(b)) /\ Len(Format(exp)) \in Nat
        BY <2>2, FormatType
    <2>4. TextLess(exp, b)
        BY <2>2, <2>3 DEF TextLess, LexLess
    <2> QED BY <1>1, <2>4
<1> QED BY <1>2, <1>3

---------------------------------------------------------------------------
(* How long a row lasts.                                                   *)

\* Neither the clock nor a sweep has a hold on a row that expires at exp.
LiveAt(exp, t) == ~After(t, exp) /\ ~Sweepable(exp, t)

\* What lasts until a moment lasted before it.
LEMMA LiveEarlier ==
    ASSUME NEW exp \in Nat, NEW t \in Nat, NEW u \in Nat, t <= u, LiveAt(exp, u)
    PROVE  LiveAt(exp, t)
<1>1. Sec(t) <= Sec(u) /\ Sec(t) \in Nat /\ Sec(u) \in Nat /\ Sec(exp) \in Nat
    BY SecMonotonic, TimeSplit
<1>2. ~Sweepable(exp, t)
    BY <1>1 DEF LiveAt, Sweepable
<1> QED BY <1>2 DEF LiveAt, After

\* Lapse is the first moment at which that is over.
LEMMA LapseExact ==
    ASSUME NEW exp \in Nat, NEW t \in Nat
    PROVE  /\ Lapse(exp) \in Nat
           /\ t < Lapse(exp) <=> LiveAt(exp, t)
<1> DEFINE b == Sec(exp) * TicksPerSecond
<1>1. b \in 0..exp /\ b \in Nat /\ Sec(b) = Sec(exp)
    BY SecondBegins
<1> HIDE DEF b
<1>2. Sec(exp) \in Nat /\ Sec(t) \in Nat
    BY TimeSplit
<1>3. CASE Frac(exp) = 0
    <2>1. t <= exp => Sec(t) <= Sec(exp)
        BY SecMonotonic
    <2>2. t <= exp => ~Sweepable(exp, t)
        BY <1>2, <1>3, <2>1 DEF Sweepable
    <2> QED BY <1>3, <2>2 DEF Lapse, LiveAt, After
<1>4. CASE Frac(exp) # 0
    <2>1. b <= t => Sec(exp) <= Sec(t)
        BY <1>1, SecMonotonic
    <2>2. t < b => Sec(t) < Sec(exp)
        <3>1. t <= b => Sec(t) <= Sec(exp)
            BY <1>1, SecMonotonic
        <3>2. Sec(t) * TicksPerSecond <= t /\ Sec(exp) * TicksPerSecond = b
            BY SecondBegins DEF b
        <3>3. Sec(t) = Sec(exp) => b <= t
            BY <3>2
        <3> QED BY <1>1, <1>2, <3>1, <3>3
    <2>3. Sweepable(exp, t) <=> b <= t
        BY <1>1, <1>2, <1>4, <2>1, <2>2 DEF Sweepable
    <2>4. Lapse(exp) = b
        BY <1>4 DEF Lapse, b
    <2> QED BY <1>1, <2>3, <2>4 DEF LiveAt, After
<1> QED BY <1>3, <1>4

---------------------------------------------------------------------------
(* What the stores rest on.                                                *)

\* What loadCache and getDB parse is the expiry that Put formatted, so that a
\* row may keep its expiry as a time, and the lazy delete of getCached, which
\* matches expires_at = ?, tells any two expiries apart.
THEOREM ParseUndoesFormat ==
    ASSUME NEW t \in Nat, NEW u \in Nat
    PROVE  /\ Parse(Format(t)) = t
           /\ Format(t) = Format(u) <=> t = u
BY ParseFormat, FormatInjective

\* SQLite's order of the expiry texts is total, tells any two times apart, and
\* is the order of the clock between different seconds (ORDER BY expires_at in
\* the evictions, and the comparisons of the sweep and the purge).
THEOREM TextsOrdered ==
    ASSUME NEW t \in Nat, NEW u \in Nat
    PROVE  /\ Sec(t) < Sec(u) => TextLess(t, u)
           /\ t # u => (TextLess(t, u) <=> ~TextLess(u, t))
           /\ ~TextLess(t, t)
BY TextOrder, EarlierSecond

\* The sweep's "expires_at < now" takes a row by time t exactly when it is
\* Sweepable: up to a second early, and never before its second.
THEOREM SweepExact ==
    ASSUME NEW exp \in Nat, NEW t \in Nat
    PROVE  Sweepable(exp, t) <=> \E u \in 0..t : TextLess(exp, u)
<1>1. Sweepable(exp, t) => \E u \in 0..t : TextLess(exp, u)
    BY SweepableIsSwept
<1>2. ASSUME NEW u \in 0..t, TextLess(exp, u)
      PROVE  Sweepable(exp, t)
    BY <1>2, SweepIsSweepable
<1> QED BY <1>1, <1>2
===========================================================================
