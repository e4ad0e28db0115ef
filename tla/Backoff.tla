------------------------------- MODULE Backoff -------------------------------
(***************************************************************************)
(* The backoff policies.  A duration is an integer number of nanoseconds;  *)
(* ExpFactor is a fraction num/den.  float64 holds the products exactly    *)
(* enough for what is said here, and the conversion to a Duration cuts off *)
(* the fraction; above the largest Duration its result is unspecified, any *)
(* 64-bit integer, in practice the smallest.                               *)
(***************************************************************************)
EXTENDS Integers

CONSTANTS
    MaxDuration,    \* the largest time.Duration
    Factors,        \* values of ExpFactor
    Durations       \* values of minBackoff and maxBackoff

ASSUME BackoffAssumption ==
    /\ MaxDuration \in Nat
    /\ Factors \subseteq [num: Nat, den: Nat \ {0}]
    /\ Durations \subseteq Int /\ \A d \in Durations : d <= MaxDuration

\* A Duration that overflowed
Overflow == -MaxDuration - 1

DefaultFactor == [num |-> 2, den |-> 1]
Factor(f) == IF f.num <= f.den THEN DefaultFactor ELSE f

\* b^n, for a natural number b
Power(b, n) == LET p[k \in Nat] == IF k = 0 THEN 1 ELSE b * p[k - 1] IN p[n]

\* base * factor^(n-1) as a fraction
BaseOf(min) == IF min <= 0 THEN 1 ELSE min
Raw(n, f, min) == [num |-> BaseOf(min) * Power(Factor(f).num, n - 1),
                   den |-> Power(Factor(f).den, n - 1)]

Exceeds(x, max) == x.num > max * x.den

\* time.Duration(x): truncation towards zero
ToDuration(x) == IF Exceeds(x, MaxDuration) THEN Overflow ELSE x.num \div x.den

\* Expontential.CalcBackoff
CappedMutNone(x, max) == FALSE
Capped(x, max) == max > 0 /\ Exceeds(x, max)

CalcBackoff(n, f, min, max) ==
    IF n = 0 THEN min
    ELSE IF Capped(Raw(n, f, min), max) THEN max
    ELSE ToDuration(Raw(n, f, min))

\* ExpontentialWithJitter.CalcBackoff: any of the results a random number in
\* [0, 1) may lead to.  The floor is minBackoff, the ceiling is rounded up.
CeilDuration(x) == IF Exceeds(x, MaxDuration) THEN Overflow
                   ELSE (x.num + x.den - 1) \div x.den
Ceiling(n, f, min, max) ==
    IF Capped(Raw(n, f, min), max) THEN max ELSE CeilDuration(Raw(n, f, min))

CalcJitter(n, f, min, max) ==
    IF n = 0 THEN {min}
    ELSE LET top == Ceiling(n, f, min, max) IN
         {IF d < min THEN min ELSE d : d \in 0 .. top}

=============================================================================
