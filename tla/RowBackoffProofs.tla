-------------------------- MODULE RowBackoffProofs --------------------------
(***************************************************************************)
(* Proofs about RowBackoff, for every factor, every pair of durations, any *)
(* number of attempts and of readers: the pause of a row stays between its *)
(* limits, with jitter too, and is not shorter than those before it as far *)
(* as the reader that sets it knows.  They rest on what Power computes,    *)
(* which is found out here by induction: over sets of numbers, since the   *)
(* provers cannot instantiate the theorems that take a predicate.          *)
(***************************************************************************)
EXTENDS RowBackoff, OutboxReaderProofs

-----------------------------------------------------------------------------
(* Induction over a set of numbers.                                        *)

LEMMA LeastNumber ==
    ASSUME NEW T \in SUBSET Nat, T # {}
    PROVE  \E m \in T : \A k \in T : m <= k
  <1>1. PICK m \in T : \A k \in T : ~(<<k, m>> \in OpToRel(<, Nat))
    BY NatLessThanWellFounded, WFMin
  <1>2. \A k \in T : ~(k < m)
    BY <1>1 DEF OpToRel
  <1> QED
    BY <1>2

LEMMA SetInduction ==
    ASSUME NEW T \in SUBSET Nat, 0 \in T, \A n \in T : n + 1 \in T
    PROVE  T = Nat
  <1> SUFFICES ASSUME Nat \ T # {} PROVE FALSE
    OBVIOUS
  <1>1. PICK m \in Nat \ T : \A k \in Nat \ T : m <= k
    BY LeastNumber
  <1>2. m # 0 /\ m - 1 \in Nat
    BY <1>1
  <1>3. m - 1 \in T
    BY <1>1, <1>2
  <1> QED
    BY <1>1, <1>2, <1>3

-----------------------------------------------------------------------------
(* Power exists: it is put together from functions on 0 .. n.              *)

Equation(g, b) == g = [k \in Nat |-> IF k = 0 THEN 1 ELSE b * g[k - 1]]

Approximations(b, n) ==
    {h \in [0 .. n -> Nat] : \A k \in 0 .. n : h[k] = IF k = 0 THEN 1 ELSE b * h[k - 1]}

LEMMA ApproximationExists ==
    ASSUME NEW b \in Nat, NEW n \in Nat
    PROVE  Approximations(b, n) # {}
  <1> DEFINE T == {i \in Nat : Approximations(b, i) # {}}
  <1>1. 0 \in T
    <2>1. [k \in 0 .. 0 |-> 1] \in Approximations(b, 0)
      BY DEF Approximations
    <2> QED
      BY <2>1
  <1>2. ASSUME NEW i \in T
        PROVE  i + 1 \in T
    <2>1. PICK h : h \in Approximations(b, i)
      BY <1>2
    <2>2. h \in [0 .. i -> Nat] /\ \A k \in 0 .. i : h[k] = IF k = 0 THEN 1 ELSE b * h[k - 1]
      BY <2>1 DEF Approximations
    <2> DEFINE g == [k \in 0 .. i + 1 |-> IF k = i + 1 THEN b * h[i] ELSE h[k]]
    <2>3. g \in [0 .. i + 1 -> Nat]
      <3>1. b * h[i] \in Nat
        BY <2>2
      <3> QED
        BY <2>2, <3>1
    <2>4. ASSUME NEW k \in 0 .. i + 1
          PROVE  g[k] = IF k = 0 THEN 1 ELSE b * g[k - 1]
      <3>1. CASE k = i + 1
        <4>1. g[k] = b * h[i] /\ k - 1 = i /\ g[i] = h[i] /\ k # 0
          BY <3>1
        <4> QED
          BY <4>1
      <3>2. CASE k # i + 1 /\ k # 0
        <4>1. g[k] = h[k] /\ g[k - 1] = h[k - 1] /\ k \in 0 .. i
          BY <3>2
        <4> HIDE DEF g
        <4> QED
          BY <2>2, <3>2, <4>1
      <3>3. CASE k = 0
        BY <2>2, <3>3
      <3> QED
        BY <3>1, <3>2, <3>3
    <2>5. g \in Approximations(b, i + 1)
      BY <2>3, <2>4 DEF Approximations
    <2> QED
      BY <2>5
  <1> HIDE DEF T
  <1>3. T \in SUBSET Nat
    BY DEF T
  <1>4. T = Nat
    BY <1>1, <1>2, <1>3, SetInduction
  <1> QED
    BY <1>4 DEF T

LEMMA ApproximationsAgree ==
    ASSUME NEW b \in Nat, NEW m \in Nat, NEW n \in Nat, m <= n,
           NEW g \in Approximations(b, m), NEW h \in Approximations(b, n)
    PROVE  g[m] = h[m]
  <1> DEFINE T == {k \in Nat : k <= m => g[k] = h[k]}
  <1>1. /\ \A k \in 0 .. m : g[k] = IF k = 0 THEN 1 ELSE b * g[k - 1]
        /\ \A k \in 0 .. n : h[k] = IF k = 0 THEN 1 ELSE b * h[k - 1]
    BY DEF Approximations
  <1>2. 0 \in T
    BY <1>1
  <1>3. ASSUME NEW k \in T
        PROVE  k + 1 \in T
    <2> SUFFICES ASSUME k + 1 <= m PROVE g[k + 1] = h[k + 1]
      OBVIOUS
    <2>1. k + 1 \in 0 .. m /\ k + 1 \in 0 .. n /\ k + 1 # 0 /\ (k + 1) - 1 = k
      OBVIOUS
    <2>2. g[k] = h[k]
      BY <1>3, <2>1
    <2>3. g[k + 1] = b * g[k] /\ h[k + 1] = b * h[k]
      BY <1>1, <2>1
    <2> QED
      BY <2>2, <2>3
  <1> HIDE DEF T
  <1>4. T \in SUBSET Nat
    BY DEF T
  <1>5. T = Nat
    BY <1>2, <1>3, <1>4, SetInduction
  <1> QED
    BY <1>5 DEF T

LEMMA PowerExists ==
    ASSUME NEW b \in Nat
    PROVE  \E g \in [Nat -> Nat] : Equation(g, b)
  <1> DEFINE At(n) == CHOOSE h : h \in Approximations(b, n)
             g == [n \in Nat |-> At(n)[n]]
  <1>1. \A n \in Nat : At(n) \in Approximations(b, n)
    BY ApproximationExists
  <1> HIDE DEF At
  <1>2. ASSUME NEW n \in Nat
        PROVE  /\ At(n)[n] \in Nat
               /\ At(n)[n] = IF n = 0 THEN 1 ELSE b * At(n)[n - 1]
    BY <1>1, <1>2 DEF Approximations
  <1>3. ASSUME NEW n \in Nat, n # 0
        PROVE  At(n)[n - 1] = At(n - 1)[n - 1]
    <2>1. n - 1 \in Nat /\ n - 1 <= n
      BY <1>3
    <2> QED
      BY <1>1, <2>1, ApproximationsAgree
  <1>4. g \in [Nat -> Nat]
    BY <1>2
  <1>5. ASSUME NEW n \in Nat
        PROVE  g[n] = IF n = 0 THEN 1 ELSE b * g[n - 1]
    <2>1. g[n] = At(n)[n]
      OBVIOUS
    <2>2. n # 0 => n - 1 \in Nat /\ g[n - 1] = At(n - 1)[n - 1]
      OBVIOUS
    <2> QED
      BY <1>2, <1>3, <2>1, <2>2
  <1>6. Equation(g, b)
    BY <1>5 DEF Equation
  <1> QED
    BY <1>4, <1>6

\* What Power computes.
LEMMA PowerUnfolds ==
    ASSUME NEW b \in Nat, NEW n \in Nat
    PROVE  /\ Power(b, 0) = 1
           /\ Power(b, n + 1) = b * Power(b, n)
  <1> DEFINE g == CHOOSE f : f = [k \in Nat |-> IF k = 0 THEN 1 ELSE b * f[k - 1]]
  <1>1. \A k \in Nat : Power(b, k) = g[k]
    BY DEF Power
  <1>2. g = [k \in Nat |-> IF k = 0 THEN 1 ELSE b * g[k - 1]]
    BY PowerExists DEF Equation
  <1> HIDE DEF g
  <1>3. g[0] = 1 /\ g[n + 1] = b * g[n]
    BY <1>2
  <1> QED
    BY <1>1, <1>3

\* A power of a positive number is positive, and a larger base has larger powers.
LEMMA PowerFacts ==
    ASSUME NEW a \in Nat, NEW b \in Nat \ {0}, b <= a, NEW n \in Nat
    PROVE  /\ Power(a, n) \in Nat /\ Power(b, n) \in Nat \ {0}
           /\ Power(b, n) <= Power(a, n)
  <1> DEFINE Claim(k) == /\ Power(a, k) \in Nat /\ Power(b, k) \in Nat \ {0}
                         /\ Power(b, k) <= Power(a, k)
             T == {k \in Nat : Claim(k)}
  <1>1. 0 \in T
    BY PowerUnfolds
  <1>2. ASSUME NEW k \in T
        PROVE  k + 1 \in T
    <2>1. PICK x \in Nat : x = Power(a, k)
      OBVIOUS
    <2>2. PICK y \in Nat \ {0} : y = Power(b, k)
      OBVIOUS
    <2>3. y <= x
      BY <2>1, <2>2
    <2>4. b * y <= a * y /\ a * y <= a * x
      BY <2>3
    <2>5. a * x \in Nat /\ b * y \in Nat \ {0} /\ b * y <= a * x
      BY <2>4
    <2>6. Power(a, k + 1) = a * x /\ Power(b, k + 1) = b * y
      BY <2>1, <2>2, PowerUnfolds
    <2> QED
      BY <2>5, <2>6
  <1> HIDE DEF T
  <1>3. T \in SUBSET Nat
    BY DEF T
  <1>4. T = Nat
    BY <1>1, <1>2, <1>3, SetInduction
  <1> QED
    BY <1>4 DEF T

-----------------------------------------------------------------------------
(* Products and quotients.                                                 *)

LEMMA ProductsOrdered ==
    ASSUME NEW x \in Int, NEW y \in Int, NEW d \in Nat, x <= y
    PROVE  x * d <= y * d
  OBVIOUS

LEMMA ProductsCancel ==
    ASSUME NEW x \in Int, NEW y \in Int, NEW d \in Nat \ {0}, x * d <= y * d
    PROVE  x <= y
  OBVIOUS

\* A quotient that is rounded down.
LEMMA Quotient ==
    ASSUME NEW a \in Nat, NEW d \in Nat \ {0}
    PROVE  /\ a \div d \in Nat
           /\ (a \div d) * d <= a
           /\ \A m \in Nat : m * d <= a => m <= a \div d
           /\ \A m \in Nat : a <= m * d => a \div d <= m
  OBVIOUS

\* A quotient that is rounded up.
LEMMA QuotientUp ==
    ASSUME NEW a \in Nat, NEW d \in Nat \ {0}, NEW m \in Nat, a <= m * d
    PROVE  /\ (a + d - 1) \div d \in Nat
           /\ (a + d - 1) \div d <= m
  <1>1. a + d - 1 \in Nat /\ a + d - 1 < (m + 1) * d
    OBVIOUS
  <1>2. PICK q \in Nat : q = (a + d - 1) \div d
    BY <1>1, Quotient
  <1>3. q * d <= a + d - 1
    BY <1>1, <1>2, Quotient
  <1>4. q * d < (m + 1) * d
    BY <1>1, <1>3
  <1>5. ~(m + 1 <= q)
    BY <1>4, ProductsOrdered
  <1> QED
    BY <1>2, <1>5

-----------------------------------------------------------------------------
(* The pause before it is limited.                                         *)

LEMMA FactorAboveOne ==
    ASSUME NEW c \in Configs
    PROVE  /\ Factor(c.factor).num \in Nat /\ Factor(c.factor).den \in Nat \ {0}
           /\ Factor(c.factor).den < Factor(c.factor).num
  BY BackoffAssumption DEF Configs, Factor, DefaultFactor

LEMMA Limits ==
    ASSUME NEW c \in Configs
    PROVE  /\ c.min \in Nat /\ c.max \in Nat \ {0} /\ c.min <= c.max /\ c.max <= MaxDuration
           /\ BaseOf(c.min) \in Nat \ {0} /\ c.min <= BaseOf(c.min)
           /\ MaxDuration \in Nat
  <1>1. /\ c.min \in Durations /\ c.max \in Durations
        /\ 0 <= c.min /\ c.min <= c.max /\ 0 < c.max
    BY DEF Configs
  <1>2. c.min \in Int /\ c.max \in Int /\ c.max <= MaxDuration /\ MaxDuration \in Nat
    BY <1>1, BackoffAssumption
  <1>3. PICK low \in Nat : low = c.min
    BY <1>1, <1>2
  <1>4. BaseOf(low) \in Nat \ {0} /\ low <= BaseOf(low)
    BY DEF BaseOf
  <1> QED
    BY <1>1, <1>2, <1>3, <1>4

\* The pause before it is limited and rounded, as a fraction of at least minBackoff.
LEMMA RawFacts ==
    ASSUME NEW c \in Configs, NEW n \in Nat \ {0}
    PROVE  \E num \in Nat, den \in Nat \ {0} :
              /\ Raw(n, c.factor, c.min) = [num |-> num, den |-> den]
              /\ c.min * den <= num
  <1>1. PICK a \in Nat, b \in Nat \ {0} :
           a = Factor(c.factor).num /\ b = Factor(c.factor).den /\ b <= a
    BY FactorAboveOne
  <1>2. n - 1 \in Nat
    OBVIOUS
  <1>3. PICK p \in Nat, q \in Nat \ {0} : p = Power(a, n - 1) /\ q = Power(b, n - 1) /\ q <= p
    BY <1>1, <1>2, PowerFacts
  <1>4. PICK low \in Nat, base \in Nat \ {0} :
           low = c.min /\ base = BaseOf(c.min) /\ low <= base
    BY Limits
  <1>5. Raw(n, c.factor, c.min) = [num |-> base * p, den |-> q]
    BY <1>1, <1>3, <1>4 DEF Raw
  <1>6. low * q <= base * q /\ q * base <= p * base
    BY <1>3, <1>4, ProductsOrdered
  <1>7. low * q <= base * p /\ base * p \in Nat
    BY <1>6
  <1> QED
    BY <1>4, <1>5, <1>7

\* The limit: exceeding maxBackoff is decided before the conversion, so that
\* nothing overflows.
LEMMA RoundedWithinLimits ==
    ASSUME NEW low \in Nat, NEW high \in Nat \ {0}, high <= MaxDuration, MaxDuration \in Nat,
           NEW num \in Nat, NEW den \in Nat \ {0}, low * den <= num, num <= high * den
    PROVE  LET x == [num |-> num, den |-> den]
           IN  /\ ToDuration(x) = num \div den /\ ToDuration(x) \in low .. high
               /\ CeilDuration(x) \in 0 .. high
  <1>1. high * den <= MaxDuration * den
    BY ProductsOrdered
  <1>2. ~(num > MaxDuration * den)
    BY <1>1
  <1>3. num \div den \in low .. high
    BY Quotient
  <1>4. (num + den - 1) \div den \in 0 .. high
    BY QuotientUp
  <1> QED
    BY <1>2, <1>3, <1>4 DEF ToDuration, CeilDuration, Exceeds

LEMMA PausesWithinLimits ==
    ASSUME NEW c \in Configs, NEW n \in Nat
    PROVE  /\ Pause(n, c) \in c.min .. c.max
           /\ Pauses(n, c) \subseteq c.min .. c.max
  <1>1. PICK low \in Nat, high \in Nat \ {0} :
           low = c.min /\ high = c.max /\ low <= high /\ high <= MaxDuration /\ MaxDuration \in Nat
    BY Limits
  <1>2. CASE n = 0
    BY <1>1, <1>2 DEF Pause, Pauses, CalcBackoff, CalcJitter
  <1>3. CASE n # 0
    <2>1. PICK num \in Nat, den \in Nat \ {0} :
             /\ Raw(n, c.factor, c.min) = [num |-> num, den |-> den]
             /\ low * den <= num
      BY <1>1, <1>3, RawFacts
    <2> DEFINE x == [num |-> num, den |-> den]
    <2>2. Capped(x, high) <=> num > high * den
      BY <1>1 DEF Capped, Exceeds
    <2>3. ~Capped(x, high) => ToDuration(x) \in low .. high /\ CeilDuration(x) \in 0 .. high
      BY <1>1, <2>1, <2>2, RoundedWithinLimits
    <2>4. /\ Pause(n, c) = IF Capped(x, high) THEN high ELSE ToDuration(x)
          /\ Ceiling(n, c.factor, low, high) = IF Capped(x, high) THEN high ELSE CeilDuration(x)
      BY <1>1, <1>3, <2>1 DEF Pause, CalcBackoff, Ceiling
    <2> HIDE DEF x
    <2>5. Pause(n, c) \in low .. high /\ Ceiling(n, c.factor, low, high) \in 0 .. high
      BY <1>1, <2>3, <2>4
    <2>6. CalcJitter(n, c.factor, low, high)
             = {IF d < low THEN low ELSE d : d \in 0 .. Ceiling(n, c.factor, low, high)}
      BY <1>3 DEF CalcJitter
    <2>7. CalcJitter(n, c.factor, low, high) \subseteq low .. high
      BY <1>1, <2>5, <2>6
    <2> QED
      BY <1>1, <2>5, <2>7 DEF Pauses
  <1> QED
    BY <1>2, <1>3

-----------------------------------------------------------------------------
(* One attempt more multiplies the pause by the factor, before it is       *)
(* limited and rounded.                                                    *)

LEMMA RawNext ==
    ASSUME NEW c \in Configs, NEW n \in Nat \ {0}
    PROVE  \E num \in Nat, den \in Nat \ {0}, a \in Nat, b \in Nat \ {0} :
              /\ b <= a
              /\ Raw(n, c.factor, c.min) = [num |-> num, den |-> den]
              /\ Raw(n + 1, c.factor, c.min) = [num |-> a * num, den |-> b * den]
  <1>1. PICK a \in Nat, b \in Nat \ {0} :
           a = Factor(c.factor).num /\ b = Factor(c.factor).den /\ b <= a
    BY FactorAboveOne
  <1>2. n - 1 \in Nat /\ (n - 1) + 1 = n /\ (n + 1) - 1 = n
    OBVIOUS
  <1>3. PICK p \in Nat, q \in Nat \ {0} : p = Power(a, n - 1) /\ q = Power(b, n - 1)
    BY <1>1, <1>2, PowerFacts
  <1>4. Power(a, n) = a * p /\ Power(b, n) = b * q
    BY <1>2, <1>3, PowerUnfolds
  <1>5. PICK base \in Nat \ {0} : base = BaseOf(c.min)
    BY Limits
  <1>6. Raw(n, c.factor, c.min) = [num |-> base * p, den |-> q]
    BY <1>1, <1>3, <1>5 DEF Raw
  <1>7. Raw(n + 1, c.factor, c.min) = [num |-> base * (a * p), den |-> b * q]
    BY <1>1, <1>2, <1>4, <1>5 DEF Raw
  <1>8. base * (a * p) = a * (base * p) /\ base * p \in Nat
    OBVIOUS
  <1> QED
    BY <1>1, <1>6, <1>7, <1>8

LEMMA LimitReachedLater ==
    ASSUME NEW num \in Nat, NEW den \in Nat \ {0}, NEW a \in Nat, NEW b \in Nat \ {0}, b <= a,
           NEW high \in Nat, a * num <= high * (b * den)
    PROVE  num <= high * den /\ num \div den <= (a * num) \div (b * den)
  <1>1. b * num <= a * num
    BY ProductsOrdered
  <1>2. num * b <= (high * den) * b
    BY <1>1
  <1>3. num <= high * den
    BY <1>2, ProductsCancel
  <1>4. PICK q \in Nat : q = num \div den /\ q * den <= num
    BY Quotient
  <1>5. (q * den) * b <= num * b
    BY <1>4, ProductsOrdered
  <1>6. q * (b * den) <= a * num
    BY <1>1, <1>5
  <1>7. b * den \in Nat \ {0} /\ a * num \in Nat
    OBVIOUS
  <1>8. q <= (a * num) \div (b * den)
    BY <1>6, <1>7, Quotient
  <1> QED
    BY <1>3, <1>4, <1>8

LEMMA PauseGrows ==
    ASSUME NEW c \in Configs, NEW n \in Nat
    PROVE  Pause(n, c) <= Pause(n + 1, c)
  <1>1. PICK low \in Nat, high \in Nat \ {0} :
           low = c.min /\ high = c.max /\ low <= high /\ high <= MaxDuration /\ MaxDuration \in Nat
    BY Limits
  <1>2. Pause(n, c) \in low .. high /\ Pause(n + 1, c) \in low .. high
    BY <1>1, PausesWithinLimits
  <1>3. CASE n = 0
    <2>1. Pause(n, c) = low
      BY <1>1, <1>3 DEF Pause, CalcBackoff
    <2> QED
      BY <1>2, <2>1
  <1>4. CASE n # 0 /\ Capped(Raw(n + 1, c.factor, c.min), c.max)
    <2>1. Pause(n + 1, c) = high
      BY <1>1, <1>4 DEF Pause, CalcBackoff
    <2> QED
      BY <1>2, <2>1
  <1>5. CASE n # 0 /\ ~Capped(Raw(n + 1, c.factor, c.min), c.max)
    <2>0. n \in Nat \ {0} /\ n + 1 \in Nat \ {0}
      BY <1>5
    <2>1. PICK num \in Nat, den \in Nat \ {0}, a \in Nat, b \in Nat \ {0} :
             /\ b <= a
             /\ Raw(n, c.factor, c.min) = [num |-> num, den |-> den]
             /\ Raw(n + 1, c.factor, c.min) = [num |-> a * num, den |-> b * den]
      BY <2>0, RawNext
    <2>2. PICK num2 \in Nat, den2 \in Nat \ {0} : num2 = a * num /\ den2 = b * den
      OBVIOUS
    <2>3. num2 <= high * den2
      BY <1>1, <1>5, <2>1, <2>2 DEF Capped, Exceeds
    <2>4. num <= high * den /\ num \div den <= num2 \div den2
      BY <2>1, <2>2, <2>3, LimitReachedLater
    <2>5. ASSUME NEW i \in Nat \ {0}, NEW x \in Nat, NEW y \in Nat \ {0}, x <= high * y,
                 Raw(i, c.factor, c.min) = [num |-> x, den |-> y]
          PROVE  Pause(i, c) = x \div y
      <3>1. ~Capped(Raw(i, c.factor, c.min), c.max)
        BY <1>1, <2>5 DEF Capped, Exceeds
      <3>2. low * y <= x
        <4>1. PICK u \in Nat, v \in Nat \ {0} :
                 Raw(i, c.factor, c.min) = [num |-> u, den |-> v] /\ low * v <= u
          BY <1>1, RawFacts
        <4>2. u = x /\ v = y
          BY <2>5, <4>1
        <4> QED
          BY <4>1, <4>2
      <3>3. ToDuration([num |-> x, den |-> y]) = x \div y
        BY <1>1, <2>5, <3>2, RoundedWithinLimits
      <3> QED
        BY <2>5, <3>1, <3>3 DEF Pause, CalcBackoff
    <2>6. Pause(n, c) = num \div den
      BY <2>0, <2>1, <2>4, <2>5
    <2>7. Pause(n + 1, c) = num2 \div den2
      BY <2>0, <2>1, <2>2, <2>3, <2>5
    <2> QED
      BY <2>4, <2>6, <2>7
  <1> QED
    BY <1>3, <1>4, <1>5

\* Any number of attempts more.
LEMMA PausesOrdered ==
    ASSUME NEW c \in Configs, NEW m \in Nat, NEW n \in Nat, m <= n
    PROVE  Pause(m, c) <= Pause(n, c)
  <1> DEFINE T == {k \in Nat : Pause(m, c) <= Pause(m + k, c)}
  <1>1. PICK low \in Nat, high \in Nat : \A k \in Nat : Pause(k, c) \in low .. high
    BY Limits, PausesWithinLimits
  <1>2. 0 \in T
    BY <1>1
  <1>3. ASSUME NEW k \in T PROVE k + 1 \in T
    <2>1. m + k \in Nat /\ (m + k) + 1 = m + (k + 1)
      OBVIOUS
    <2>2. Pause(m + k, c) <= Pause(m + (k + 1), c)
      BY <2>1, PauseGrows
    <2>3. Pause(m, c) \in Nat /\ Pause(m + k, c) \in Nat /\ Pause(m + (k + 1), c) \in Nat
      BY <1>1, <2>1
    <2> QED
      BY <2>2, <2>3
  <1>4. T \in SUBSET Nat
    OBVIOUS
  <1> HIDE DEF T
  <1>5. n - m \in T
    BY <1>2, <1>3, <1>4, SetInduction
  <1>6. m + (n - m) = n
    OBVIOUS
  <1> QED
    BY <1>5, <1>6 DEF T

-----------------------------------------------------------------------------
(* The readers with their buffers.  A pause recorded for counter n means   *)
(* that the column is above n, so that whoever reads it again finds more;  *)
(* what a reader holds it has read after its last pause of the row.        *)

LEMMA RowStepIsStep ==
    ASSUME [RowNext]_rowVars
    PROVE  [Next]_vars
  <1>1. CASE Elsewhere
    BY <1>1 DEF Elsewhere, Next, Step
  <1>2. ASSUME NEW p \in Readers, ReadRows(p) \/ Record(p) \/ NewReader(p)
        PROVE  Next
    BY <1>2 DEF ReadRows, Record, NewReader, Next, Step
  <1>3. CASE UNCHANGED rowVars
    BY <1>3 DEF rowVars
  <1> QED
    BY <1>1, <1>2, <1>3 DEF RowNext

\* With the buffers followed, the readers do what they did before, so that what
\* is proved of them holds here.
THEOREM RowsAreRead == RowSpec => Spec
  <1>1. RowInit => Init
    BY DEF RowInit
  <1> QED
    BY <1>1, RowStepIsStep, PTL DEF RowSpec, Spec

RowTyped == /\ counter \in [Readers -> [Watched -> Nat]]
            /\ paused \in [Readers -> [Watched -> Nat]]

PausedBelow == \A q \in Readers, r \in Watched : paused[q][r] <= attempts[r]

ReadSincePause ==
    \A p \in Readers : \A r \in reader[p].batch \cap Watched :
        paused[p][r] <= counter[p][r] /\ counter[p][r] <= attempts[r]

PauseInv == Inv /\ RowTyped /\ PausedBelow /\ ReadSincePause

LEMMA PauseInvInit == RowInit => PauseInv
  <1> SUFFICES ASSUME RowInit PROVE PauseInv
    OBVIOUS
  <1>1. Inv
    BY InvInit DEF RowInit
  <1>2. RowTyped /\ PausedBelow
    BY WatchedAssumption DEF RowInit, Init, Unread, RowTyped, PausedBelow
  <1>3. ReadSincePause
    BY DEF RowInit, Init, ReadSincePause
  <1> QED
    BY <1>1, <1>2, <1>3 DEF PauseInv

\* A step that reads nothing and records no attempt.
LEMMA QuietKeepsPauses ==
    ASSUME PauseInv, UNCHANGED <<counter, paused, attempts>>,
           \A q \in Readers : reader'[q].batch \subseteq reader[q].batch
    PROVE  RowTyped' /\ PausedBelow' /\ ReadSincePause'
  BY DEF PauseInv, RowTyped, PausedBelow, ReadSincePause

LEMMA ReadKeepsPauses ==
    ASSUME PauseInv, NEW p \in Readers, ReadRows(p)
    PROVE  RowTyped' /\ PausedBelow' /\ ReadSincePause'
  <1>1. PICK B : reader' = [reader EXCEPT ![p] = [pc |-> "publish", batch |-> B]]
    BY DEF ReadRows, ScanBatch
  <1>2. UNCHANGED <<attempts, paused>>
    BY DEF ReadRows, ScanBatch, table
  <1>3. \A q \in Readers \ {p} : reader'[q] = reader[q]
    BY <1>1
  <1>4. \A r \in Watched : attempts[r] \in Nat
    BY WatchedAssumption DEF PauseInv, Inv, TypeOK
  <1>5. Buffered(reader'[p].batch) \in [Watched -> Nat]
    BY <1>4 DEF Buffered
  <1>6. /\ counter'[p] = Buffered(reader'[p].batch)
        /\ \A q \in Readers \ {p} : counter'[q] = counter[q]
        /\ counter' \in [Readers -> [Watched -> Nat]]
    BY <1>5 DEF ReadRows, PauseInv, RowTyped
  <1>7. \A r \in reader'[p].batch \cap Watched : counter'[p][r] = attempts[r]
    BY <1>6 DEF Buffered
  <1>8. ReadSincePause'
    <2> SUFFICES ASSUME NEW q \in Readers, NEW r \in reader'[q].batch \cap Watched
                 PROVE  paused[q][r] <= counter'[q][r] /\ counter'[q][r] <= attempts[r]
      BY <1>2 DEF ReadSincePause
    <2>1. CASE q = p
      BY <1>4, <1>7, <2>1 DEF PauseInv, PausedBelow
    <2>2. CASE q # p
      BY <1>3, <1>6, <2>2 DEF PauseInv, ReadSincePause
    <2> QED
      BY <2>1, <2>2
  <1> QED
    BY <1>2, <1>6, <1>8 DEF PauseInv, RowTyped, PausedBelow

\* The UPDATEs: an attempt is recorded for the current row, which then leaves
\* the batch, or none is.
LEMMA RecordEffect ==
    ASSUME PauseInv, NEW p \in Readers, Record(p)
    PROVE  /\ \A q \in Readers : reader'[q].batch \subseteq reader[q].batch
           /\ Current(p) \in reader[p].batch
           /\ \/ UNCHANGED <<attempts, paused>>
              \/ /\ attempts' = [attempts EXCEPT ![Current(p)] = @ + 1]
                 /\ Current(p) \notin reader'[p].batch
                 /\ paused' = IF Current(p) \notin Watched THEN paused
                              ELSE [paused EXCEPT ![p][Current(p)] = counter[p][Current(p)] + 1]
  <1> USE DEF PauseInv, Inv
  <1>1. reader[p].pc \in {"mark", "retry"}
    BY DEF Record, MarkProcessed, MarkFailed, UpdateFails
  <1>2. Current(p) \in reader[p].batch
    BY <1>1, CurrentRow
  <1>3. NextRow(p) \/ reader' = [reader EXCEPT ![p].pc = "retry"]
    BY DEF Record, MarkProcessed, MarkFailed, UpdateFails
  <1>4. attempts' # attempts => NextRow(p)
    BY DEF Record, MarkProcessed, MarkFailed, UpdateFails
  <1>5. attempts' = attempts \/ RecordFailure(Current(p))
    BY DEF Record, MarkProcessed, MarkFailed, UpdateFails, table
  <1>6. NextRow(p) => /\ reader'[p].batch = reader[p].batch \ {Current(p)}
                      /\ \A q \in Readers \ {p} : reader'[q] = reader[q]
    BY <1>1, NextRowEffect
  <1>7. reader' = [reader EXCEPT ![p].pc = "retry"] =>
            \A q \in Readers : reader'[q].batch = reader[q].batch
    BY <1>1, PlaceEffect DEF PCs
  <1>8. attempts' = attempts => UNCHANGED paused
    BY DEF Record
  <1>9. attempts' # attempts =>
            paused' = IF Current(p) \notin Watched THEN paused
                      ELSE [paused EXCEPT ![p][Current(p)] = counter[p][Current(p)] + 1]
    BY DEF Record
  <1>10. \A q \in Readers : reader'[q].batch \subseteq reader[q].batch
    BY <1>3, <1>6, <1>7
  <1>11. CASE attempts' = attempts
    BY <1>2, <1>8, <1>10, <1>11
  <1>12. CASE attempts' # attempts
    BY <1>2, <1>4, <1>5, <1>6, <1>9, <1>10, <1>12 DEF RecordFailure
  <1> QED
    BY <1>11, <1>12

LEMMA RecordKeepsPauses ==
    ASSUME PauseInv, NEW p \in Readers, Record(p)
    PROVE  RowTyped' /\ PausedBelow' /\ ReadSincePause'
  <1>1. PICK row : row = Current(p)
    OBVIOUS
  <1>2. \A q \in Readers : reader'[q].batch \subseteq reader[q].batch
    BY RecordEffect
  <1>3. row \in reader[p].batch /\ row \in Rows
    BY <1>1, RecordEffect DEF PauseInv, Inv, TypeOK, ReaderType
  <1>4. counter' = [counter EXCEPT ![p] = Rest(p)]
    BY DEF Record
  <1>5. Rest(p) \in [Watched -> Nat]
    BY DEF Rest, PauseInv, RowTyped
  <1>6. /\ counter' \in [Readers -> [Watched -> Nat]]
        /\ \A q \in Readers : \A r \in reader'[q].batch \cap Watched :
               counter'[q][r] = counter[q][r]
    BY <1>4, <1>5 DEF Rest, PauseInv, RowTyped
  <1>7. CASE UNCHANGED <<attempts, paused>>
    BY <1>2, <1>6, <1>7 DEF PauseInv, RowTyped, PausedBelow, ReadSincePause
  <1>8. CASE /\ attempts' = [attempts EXCEPT ![row] = @ + 1]
             /\ row \notin reader'[p].batch
             /\ paused' = IF row \notin Watched THEN paused
                          ELSE [paused EXCEPT ![p][row] = counter[p][row] + 1]
    <2>1. /\ \A r \in Rows : attempts[r] \in Nat /\ attempts'[r] \in Nat
          /\ attempts'[row] = attempts[row] + 1
          /\ \A r \in Rows : attempts[r] <= attempts'[r]
      BY <1>3, <1>8 DEF PauseInv, Inv, TypeOK
    <2>2. paused' \in [Readers -> [Watched -> Nat]]
      BY <1>8 DEF PauseInv, RowTyped
    <2>3. ASSUME NEW q \in Readers, NEW r \in Watched, ~(q = p /\ r = row)
          PROVE  paused'[q][r] = paused[q][r]
      BY <1>8, <2>3 DEF PauseInv, RowTyped
    <2>4. row \in Watched => /\ paused'[p][row] = counter[p][row] + 1
                             /\ counter[p][row] <= attempts[row]
                             /\ counter[p][row] \in Nat
      BY <1>3, <1>8 DEF PauseInv, RowTyped, ReadSincePause
    <2>5. PausedBelow'
      <3> SUFFICES ASSUME NEW q \in Readers, NEW r \in Watched
                   PROVE  paused'[q][r] <= attempts'[r]
        BY DEF PausedBelow
      <3>1. CASE q = p /\ r = row
        BY <1>3, <2>1, <2>4, <3>1
      <3>2. CASE ~(q = p /\ r = row)
        <4>1. paused'[q][r] <= attempts[r] /\ paused'[q][r] \in Nat
          BY <2>2, <2>3, <3>2 DEF PauseInv, PausedBelow
        <4> QED
          BY <2>1, <4>1, WatchedAssumption
      <3> QED
        BY <3>1, <3>2
    <2>6. ReadSincePause'
      <3> SUFFICES ASSUME NEW q \in Readers, NEW r \in reader'[q].batch \cap Watched
                   PROVE  paused'[q][r] <= counter'[q][r] /\ counter'[q][r] <= attempts'[r]
        BY DEF ReadSincePause
      <3>1. ~(q = p /\ r = row) /\ r \in reader[q].batch \cap Watched
        BY <1>2, <1>8
      <3>2. paused'[q][r] = paused[q][r] /\ counter'[q][r] = counter[q][r]
        BY <1>6, <2>3, <3>1
      <3>3. paused[q][r] <= counter[q][r] /\ counter[q][r] <= attempts[r] /\ counter[q][r] \in Nat
        BY <3>1 DEF PauseInv, RowTyped, ReadSincePause
      <3> QED
        BY <2>1, <3>2, <3>3, WatchedAssumption
    <2> QED
      BY <1>6, <2>2, <2>5, <2>6 DEF RowTyped
  <1> QED
    BY <1>1, <1>7, <1>8, RecordEffect

LEMMA NewReaderKeepsPauses ==
    ASSUME PauseInv, NEW p \in Readers, NewReader(p)
    PROVE  RowTyped' /\ PausedBelow' /\ ReadSincePause'
  <1>1. UNCHANGED <<attempts, paused>>
    BY DEF NewReader, Crash, table
  <1>2. reader'[p].batch = {} /\ \A q \in Readers \ {p} : reader'[q] = reader[q]
    BY DEF NewReader, Crash, PauseInv, Inv, TypeOK
  <1>3. Unread \in [Watched -> Nat]
    BY DEF Unread
  <1>4. /\ counter' \in [Readers -> [Watched -> Nat]]
        /\ \A q \in Readers \ {p} : counter'[q] = counter[q]
    BY <1>3 DEF NewReader, PauseInv, RowTyped
  <1> QED
    BY <1>1, <1>2, <1>4 DEF PauseInv, RowTyped, PausedBelow, ReadSincePause

LEMMA PauseInvStep ==
    ASSUME PauseInv, [RowNext]_rowVars
    PROVE  PauseInv'
  <1>1. Inv'
    BY RowStepIsStep, InvStep DEF PauseInv
  <1>2. CASE Elsewhere
    <2>1. UNCHANGED <<counter, paused, attempts>>
      BY <1>2 DEF Elsewhere, Write, BackoffElapses, Publish, table
    <2>2. ASSUME NEW p \in Readers, Publish(p)
          PROVE  \A q \in Readers : reader'[q].batch = reader[q].batch
      <3>1. PICK err \in BOOLEAN : reader' = [reader EXCEPT ![p].pc = AfterPublish(err)]
        BY <2>2 DEF Publish
      <3>2. AfterPublish(err) \in PCs /\ reader[p].pc # "idle"
        BY <2>2 DEF AfterPublish, PCs, Publish
      <3> QED
        BY <3>1, <3>2, PlaceEffect DEF PauseInv, Inv
    <2>3. \A q \in Readers : reader'[q].batch = reader[q].batch
      BY <1>2, <2>2 DEF Elsewhere, Write, BackoffElapses
    <2> QED
      BY <1>1, <2>1, <2>3, QuietKeepsPauses DEF PauseInv
  <1>3. ASSUME NEW p \in Readers, ReadRows(p) \/ Record(p) \/ NewReader(p)
        PROVE  PauseInv'
    BY <1>1, <1>3, ReadKeepsPauses, RecordKeepsPauses, NewReaderKeepsPauses DEF PauseInv
  <1>4. CASE UNCHANGED rowVars
    BY <1>1, <1>4, QuietKeepsPauses DEF rowVars, vars, PauseInv
  <1> QED
    BY <1>2, <1>3, <1>4 DEF RowNext

\* However often a row was attempted, and whatever the random number of the
\* jitter, the next attempt a reader sets is at least minBackoff and at most
\* maxBackoff away.
THEOREM PauseWithinLimits == RowSpec => []BackoffWithinLimits
  <1>1. PauseInv => BackoffWithinLimits
    BY PausesWithinLimits DEF PauseInv, RowTyped, BackoffWithinLimits
  <1> QED
    BY <1>1, PauseInvInit, PauseInvStep, PTL DEF RowSpec

\* A reader never pauses a row for less than it did before, and one that read
\* the row after everybody else's attempts not for less than anybody did.  Only
\* a stale buffer shortens a pause.
THEOREM PausesGrow == RowSpec => []BackoffGrows
  <1>1. ASSUME PauseInv PROVE BackoffGrows
    <2> SUFFICES ASSUME NEW p \in Readers, NEW q \in Readers,
                        NEW r \in reader[p].batch \cap Watched,
                        q = p \/ counter[p][r] = attempts[r]
                 PROVE  /\ paused[q][r] <= counter[p][r]
                        /\ paused[q][r] > 0 =>
                              \A c \in Configs : Pause(paused[q][r] - 1, c) <= Pause(counter[p][r], c)
      BY DEF BackoffGrows
    <2>1. PICK m \in Nat, n \in Nat : m = paused[q][r] /\ n = counter[p][r]
      BY <1>1 DEF PauseInv, RowTyped
    <2>2. m <= n
      BY <1>1, <2>1 DEF PauseInv, PausedBelow, ReadSincePause
    <2>3. m > 0 => m - 1 \in Nat /\ m - 1 <= n
      BY <2>2
    <2> QED
      BY <2>1, <2>2, <2>3, PausesOrdered
  <1> QED
    BY <1>1, PauseInvInit, PauseInvStep, PTL DEF RowSpec

=============================================================================
